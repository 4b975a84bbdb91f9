----------------------------- MODULE Preference -----------------------------
(***************************************************************************)
(* Preference pairs: the heuristic checks of quality/preference.py, the    *)
(* two-order judge of quality/preference_judge.py and the validator that   *)
(* puts the judge on top of the checks.  A text is the set of its content  *)
(* words, a length, counts of the surface features and a manner (a stock   *)
(* opening, a refusal, an injected instruction).  Fractions are compared   *)
(* as percentages of integers.                                             *)
(***************************************************************************)
EXTENDS Integers, Sequences, FiniteSets

CONSTANTS Pairs,     \* pairs offered: chosen, rejected, likeness
          Replies    \* parsed verdicts a judge may return for one order

\* What parses has one of three preferences and qualities between 1 and 5.
ASSUME RepliesAssumption ==
  \A p \in Replies : /\ p.preferred \in {"first", "second", "tie"}
                     /\ p.first_quality \in 10 .. 50 /\ p.second_quality \in 10 .. 50

VARIABLES pair,       \* the pair and whether a judge is configured
          chosenFirst, \* order of the judge's first call
          heard,      \* what the judge's calls returned so far
          judgement,  \* verdict and reason codes of the judge
          signal,     \* the validator's score, and the checks' own score
          pairStep

pairVars == <<pair, chosenFirst, heard, judgement, signal, pairStep>>

Text(tokens, words, marks, manner) ==
  [tokens |-> tokens, words |-> words, marks |-> marks, manner |-> manner]
Empty == Text({}, 0, <<0, 0, 0, 0, 0>>, "plain")

Greatest(S) == CHOOSE n \in S : \A m \in S : m <= n
AtLeast1(n) == IF n = 0 THEN 1 ELSE n
Over(part, whole, percent) == 100 * part > percent * whole

-----------------------------------------------------------------------------
(* Surface measures *)

\* 0 when a side has no content words.
_jaccard_over(a, b, percent) ==
  a.tokens # {} /\ b.tokens # {}
  /\ Over(Cardinality(a.tokens \cap b.tokens), Cardinality(a.tokens \cup b.tokens), percent)

check_length_band(c, r) ==
  r.words > 0 /\ 100 * c.words >= 80 * r.words /\ 100 * c.words <= 125 * r.words

\* The largest relative difference of one feature exceeds a fifth.
preference_is_trivially_separable(c, r) ==
  \E f \in 1 .. 6 :
     LET x == (<<c.words>> \o c.marks)[f]
         y == (<<r.words>> \o r.marks)[f]
     IN  Over(IF x > y THEN x - y ELSE y - x, Greatest({x, y, 1}), 20)

-----------------------------------------------------------------------------
(* The heuristic checks: a verdict with reason codes *)

Check(verdict, codes) == [verdict |-> verdict, codes |-> codes]
Valid == Check("valid", {})

Missing(c, r) == c.words = 0 \/ r.words = 0

\* alike: likeness of the characters in percent.
check_identical_pairs(c, r, alike) ==
  CASE Missing(c, r) -> Check("review", {"missing_preference_text"})
    [] ~ Missing(c, r) /\ alike = 100 -> Check("invalid", {"identical_pair"})
    [] OTHER -> IF alike > 85 \/ _jaccard_over(c, r, 85)
                THEN Check("invalid", {"near_duplicate_pair"}) ELSE Valid

check_absolute_quality(c) ==
  CASE c.words = 0 -> Check("invalid", {"chosen_empty"})
    [] c.words > 0 /\ c.manner \in {"boilerplate", "unable"} ->
         Check("invalid", {"chosen_boilerplate_only"})
    [] OTHER -> IF c.words < 5 THEN Check("invalid", {"chosen_too_short"}) ELSE Valid

check_style_shortcuts(c, r) ==
  CASE Missing(c, r) -> Check("review", {"missing_text"})
    [] ~ Missing(c, r) /\ c.words > 2 * r.words
         /\ Over(Cardinality(r.tokens \cap c.tokens), AtLeast1(Cardinality(r.tokens)), 70) ->
         Check("review", {"verbosity_preference"})
    [] OTHER -> IF _jaccard_over(c, r, 70) /\ Over(c.words, AtLeast1(r.words), 150)
                THEN Check("review", {"verbosity_preference_mild"}) ELSE Valid

check_pairwise_order(c, r) ==
  CASE Missing(c, r) -> Check("review", {"missing_text"})
    [] OTHER -> IF _jaccard_over(c, r, 70) THEN Check("review", {"order_sensitive"}) ELSE Valid

\* The first invalid check decides; otherwise any check that asks for review.
check_preference_signal(c, r, alike) ==
  LET identical == check_identical_pairs(c, r, alike)
      absolute == check_absolute_quality(c)
      soft == {check_style_shortcuts(c, r), check_pairwise_order(c, r)}
  IN  CASE Missing(c, r) -> Check("invalid", {"missing_signal"})
        [] ~ Missing(c, r) /\ identical.verdict = "invalid" -> identical
        [] OTHER -> IF absolute.verdict = "invalid" THEN absolute
                    ELSE Check(IF \E s \in soft : s.verdict = "review" THEN "review" ELSE "valid",
                               UNION {s.codes : s \in soft})

-----------------------------------------------------------------------------
(* The judge.  A parsed reply has the quality of the answer shown first and *)
(* of the one shown second, a preference and the defects seen in each.      *)

REAL_DEFECT_CODES == {"unsupported_claim", "contradicts_evidence"}
DEFECT_CODES == REAL_DEFECT_CODES \cup {"style_only_difference"}

NoJudgement == [verdict |-> "none", codes |-> {}, margin2 |-> 0, chosen2 |-> 0]

GivesUp(code) == [verdict |-> "review", codes |-> {code}, margin2 |-> 0, chosen2 |-> 0]

\* Quality of the chosen and of the rejected side, and who is preferred.  A
\* tie keeps the order the answers were shown in.
orient(first, p) ==
  LET kept == p.preferred = "tie" \/ first
  IN  [chosen |-> IF kept THEN p.first_quality ELSE p.second_quality,
       rejected |-> IF kept THEN p.second_quality ELSE p.first_quality,
       prefers |-> IF p.preferred = "tie" THEN "tie"
                   ELSE IF (p.preferred = "first") = first THEN "chosen" ELSE "rejected"]

\* Mutant: the defects are read without asking which side came second.
RejectedDefectsUnoriented(first, p) == p.defects_second

\* Defects seen in the rejected side, whichever place it was shown in.
RejectedDefects(first, p) == IF first THEN p.defects_second ELSE p.defects_first

\* Qualities are in tenths and averages over the two orders are kept doubled:
\* the margin must be at least 0.5, the chosen side at least 3, both sides
\* above 2, the rejected side below 4.
Reconciled(first, a, b, c, r, alike) ==
  LET oa == orient(first, a)
      ob == orient(~ first, b)
      chosen2 == oa.chosen + ob.chosen
      rejected2 == oa.rejected + ob.rejected
      margin2 == chosen2 - rejected2
      tied == "tie" \in {oa.prefers, ob.prefers}
      consistent == ~ tied /\ oa.prefers = ob.prefers
      defects == (RejectedDefects(first, a) \cup RejectedDefects(~ first, b)) \cap DEFECT_CODES
      codes ==
        (IF tied THEN {"judge_called_tie"} ELSE {})
        \cup (IF ~ tied /\ ~ consistent THEN {"judge_order_disagreement"} ELSE {})
        \cup (IF -10 < margin2 /\ margin2 < 10 THEN {"insufficient_preference_margin"} ELSE {})
        \cup (IF 2 * c.words < r.words \/ c.words > 2 * r.words THEN {"length_signature"} ELSE {})
        \cup (IF alike = 100 THEN {"identical_content"} ELSE {})
        \cup (IF margin2 > 0 /\ consistent /\ defects \cap REAL_DEFECT_CODES = {}
              THEN {"rejected_defect_not_classified"} ELSE {})
        \cup (IF chosen2 < 60 THEN {"chosen_below_absolute_floor"} ELSE {})
        \cup (IF rejected2 >= 80 /\ margin2 > 0 THEN {"both_answers_good"} ELSE {})
        \cup (IF chosen2 <= 40 /\ rejected2 <= 40 THEN {"both_answers_bad"} ELSE {})
      invalid == codes \cap {"chosen_below_absolute_floor", "identical_content"} # {}
  IN  [verdict |-> IF invalid THEN "invalid"
                   ELSE IF codes = {} /\ margin2 > 0 /\ consistent THEN "valid" ELSE "review",
       codes |-> codes, margin2 |-> margin2, chosen2 |-> chosen2]

-----------------------------------------------------------------------------
(* The validator *)

\* Codes of the checks; any of them is fatal, the ones that only ask for
\* review included.
CheckCodes(p) ==
  check_preference_signal(p.chosen, p.rejected, p.alike).codes
  \cup check_absolute_quality(p.chosen).codes
  \cup (IF ~ Missing(p.chosen, p.rejected)
             /\ preference_is_trivially_separable(p.chosen, p.rejected)
        THEN {"trivial_style_separation"} ELSE {})

CheckScore(p) == IF CheckCodes(p) # {} THEN 0 ELSE 100

\* The judge's verdict lowers the score of the checks or leaves it.
PreferenceScore(p, j) ==
  CASE j.verdict = "invalid" -> 0
    [] j.verdict = "review" -> IF CheckScore(p) < 60 THEN CheckScore(p) ELSE 60
    [] OTHER -> CheckScore(p)

-----------------------------------------------------------------------------
(* One inquiry *)

NoPair == [chosen |-> Empty, rejected |-> Empty, alike |-> 0, certified |-> FALSE]

PairInit == /\ pair = NoPair /\ chosenFirst = TRUE /\ heard = <<>>
            /\ judgement = NoJudgement
            /\ signal = [score |-> 0, checks |-> 0] /\ pairStep = "idle"

\* certified: a judge is configured.  The order of the first call is drawn from
\* a seed.
Offer ==
  /\ pairStep = "idle"
  /\ \E p \in Pairs, first \in BOOLEAN, certified \in BOOLEAN :
        /\ pair' = [chosen |-> p.chosen, rejected |-> p.rejected, alike |-> p.alike,
                    certified |-> certified]
        /\ chosenFirst' = first
        /\ IF certified THEN pairStep' = "judging" ELSE pairStep' = "checked"
  /\ UNCHANGED <<heard, judgement, signal>>

\* judge_pair asks nobody about a pair with an empty side.
RefuseEmpty ==
  /\ pairStep = "judging" /\ heard = <<>> /\ Missing(pair.chosen, pair.rejected)
  /\ judgement' = GivesUp("missing_answer_text") /\ pairStep' = "checked"
  /\ UNCHANGED <<pair, chosenFirst, heard, signal>>

Asking == pairStep = "judging" /\ Len(heard) < 2 /\ ~ Missing(pair.chosen, pair.rejected)

JudgeSpeaks ==
  /\ Asking
  /\ \E p \in Replies : heard' = Append(heard, p)
  /\ UNCHANGED <<pair, chosenFirst, judgement, signal, pairStep>>

Unparsed == [preferred |-> "unparsed"]
JudgeBabbles ==
  /\ Asking
  /\ heard' = Append(heard, Unparsed)
  /\ UNCHANGED <<pair, chosenFirst, judgement, signal, pairStep>>

\* A gateway without a live provider refuses every call; that error passes
\* through, and the pair gets no score.
JudgeUnsupported ==
  /\ Asking /\ heard = <<>> /\ pairStep' = "raised"
  /\ UNCHANGED <<pair, chosenFirst, heard, judgement, signal>>

\* A provider error, a timeout, or a budget that refuses the call: all are
\* caught alike, and the other call is not made.
JudgeBreaks ==
  /\ Asking
  /\ judgement' = GivesUp("judge_unavailable") /\ pairStep' = "checked"
  /\ UNCHANGED <<pair, chosenFirst, heard, signal>>

Reconcile ==
  /\ pairStep = "judging" /\ Len(heard) = 2 /\ pairStep' = "checked"
  /\ judgement' =
       IF \E i \in 1 .. 2 : heard[i].preferred = "unparsed"
       THEN GivesUp("judge_output_invalid")
       ELSE Reconciled(chosenFirst, heard[1], heard[2], pair.chosen, pair.rejected, pair.alike)
  /\ UNCHANGED <<pair, chosenFirst, heard, signal>>

ScorePair ==
  /\ pairStep = "checked" /\ pairStep' = "scored"
  /\ signal' = [score |-> PreferenceScore(pair, judgement), checks |-> CheckScore(pair)]
  /\ UNCHANGED <<pair, chosenFirst, heard, judgement>>

PairNext == Offer \/ RefuseEmpty \/ JudgeSpeaks \/ JudgeBabbles \/ JudgeUnsupported
            \/ JudgeBreaks \/ Reconcile \/ ScorePair

PairSpec == PairInit /\ [][PairNext]_pairVars

-----------------------------------------------------------------------------
PairScored == pairStep = "scored"

\* Where a judge is configured a pair gets a full signal only when certified,
\* and it is certified only by two parsed replies that, with the answers in
\* either place, name the same side (the chosen one or the rejected), score the
\* chosen side higher, and find a classified defect in the rejected one: a failed
\* call, an exhausted budget or unreadable output never certifies (judge_pair).
CertifiedIsCorroborated ==
  /\ PairScored /\ pair.certified /\ signal.score > 60 => judgement.verdict = "valid"
  /\ judgement.verdict = "valid" =>
      /\ Len(heard) = 2
      /\ \A i \in 1 .. 2 : heard[i].preferred \in {"first", "second"}
      /\ heard[1].preferred # heard[2].preferred
      /\ LET chosenAt(i) == IF (i = 1) = chosenFirst THEN "first" ELSE "second"
             quality(i, side) == IF side = "first" THEN heard[i].first_quality
                                                   ELSE heard[i].second_quality
             faults(i) == IF chosenAt(i) = "first" THEN heard[i].defects_second
                                                   ELSE heard[i].defects_first
             other(side) == IF side = "first" THEN "second" ELSE "first"
         IN  /\ quality(1, chosenAt(1)) + quality(2, chosenAt(2))
                  > quality(1, other(chosenAt(1))) + quality(2, other(chosenAt(2)))
             /\ (faults(1) \cup faults(2)) \cap REAL_DEFECT_CODES # {}
=============================================================================
