--------------------------- MODULE JudgingProofs ---------------------------
(***************************************************************************)
(* The three judgements on generated text, for any texts, verdicts and     *)
(* scores: the semantic check of an answer (Semantic), the check of a      *)
(* preference pair (Preference) and the decision on an example             *)
(* (Acceptance).                                                           *)
(***************************************************************************)
EXTENDS Semantic, Acceptance, FiniteSetTheorems, FunctionTheorems, SequenceTheorems,
        WellFoundedInduction, TLAPS

(* The semantic check *)

\* What the rules said of the claims is what they say of them, what the judge is
\* taken to say is read off its array, and the outcome is the merge.
SemInv ==
  /\ step \in {"ruled", "judged", "scored"} =>
       ruled = [i \in DOMAIN inquiry.claims |-> RuleVerdict(inquiry.claims[i], inquiry.evidence)]
  /\ step \in {"idle", "asked", "ruled"} => array = <<>>
  /\ step \in {"judged", "scored"} =>
       \/ array \in Seq(Items) /\ judged = JudgeReply(array)
       \/ array = <<>> /\ judged = JudgeFailed("model_verifier_failed")
       \/ array = <<>> /\ judged = <<>>
  /\ step = "scored" => outcome = [verdicts |-> Merged, score |-> ConsistencyScore(Merged)]

\* The invariant of the claim checker holds of every behaviour.
THEOREM SemInvHolds == SemSpec => []SemInv
<1>1. SemInit => SemInv
  BY DEF SemInit, SemInv
<1>2. SemInv /\ [SemNext]_semVars => SemInv'
  <2> SUFFICES ASSUME SemInv, [SemNext]_semVars PROVE SemInv' OBVIOUS
  <2>1. CASE Ask
    BY <2>1 DEF SemInv, Ask
  <2>2. CASE CheckRules
    BY <2>2 DEF SemInv, CheckRules
  <2>3. CASE JudgeAnswers \/ JudgeFails \/ SkipJudge
    <3>1. step = "ruled" /\ step' = "judged" /\ UNCHANGED <<inquiry, ruled>>
      BY <2>3 DEF JudgeAnswers, JudgeFails, SkipJudge
    <3>2. OpenClaims' = OpenClaims
      BY <3>1 DEF OpenClaims
    <3>3. CASE JudgeAnswers
      <4>1. judged' = JudgeReply(array')
        BY <3>3 DEF JudgeAnswers
      <4>2. array' \in Seq(Items)
        BY <3>3, ItemsAssumption DEF JudgeAnswers
      <4>3. JudgeReply(array') = JudgeReply(array)'
        BY <3>2 DEF JudgeReply, Shown, About
      <4> QED BY <3>1, <4>1, <4>2, <4>3 DEF SemInv
    <3>4. CASE JudgeFails
      <4>1. array' = <<>> /\ judged' = JudgeFailed("model_verifier_failed")
        BY <3>4, <3>1 DEF JudgeFails, SemInv
      <4>2. JudgeFailed("model_verifier_failed")' = JudgeFailed("model_verifier_failed")
        BY <3>2 DEF JudgeFailed
      <4> QED BY <3>1, <4>1, <4>2 DEF SemInv
    <3>5. CASE SkipJudge
      BY <3>1, <3>5 DEF SemInv, SkipJudge
    <3> QED BY <2>3, <3>3, <3>4, <3>5
  <2>4. ASSUME UNCHANGED <<inquiry, ruled, array, judged>>
        PROVE  /\ Merged' = Merged /\ ConsistencyScore(Merged)' = ConsistencyScore(Merged)
               /\ JudgeReply(array)' = JudgeReply(array)
               /\ JudgeFailed("model_verifier_failed")' = JudgeFailed("model_verifier_failed")
    <3>1. Merged' = Merged /\ OpenClaims' = OpenClaims
      BY <2>4 DEF Merged, OpenClaims
    <3>2. ConsistencyScore(Merged)' = ConsistencyScore(Merged)
      BY <3>1 DEF ConsistencyScore, Reasons, Contradictions
    <3> QED BY <2>4, <3>1, <3>2 DEF JudgeReply, JudgeFailed, Shown, About
  <2>5. CASE Score
    <3>1. UNCHANGED <<inquiry, ruled, array, judged>> /\ step = "judged" /\ step' = "scored"
      BY <2>5 DEF Score
    <3>2. outcome' = [verdicts |-> Merged, score |-> ConsistencyScore(Merged)]
      BY <2>5 DEF Score
    <3> QED BY <3>1, <3>2, <2>4 DEF SemInv
  <2>6. CASE UNCHANGED semVars
    <3>1. UNCHANGED <<inquiry, ruled, array, judged>> /\ UNCHANGED <<step, outcome>>
      BY <2>6 DEF semVars
    <3> QED BY <3>1, <2>4 DEF SemInv
  <2> QED BY <2>1, <2>2, <2>3, <2>5, <2>6 DEF SemNext
<1> QED BY <1>1, <1>2, PTL DEF SemSpec

\* What the rules contradict stays contradicted and fails the dimension,
\* whatever a judge answers, however often and for whatever claims.
THEOREM RulesWin == SemSpec => []RulesAreFinal
<1>1. SemInv => RulesAreFinal
  <2> SUFFICES ASSUME SemInv, Done, NEW i \in DOMAIN ruled, ruled[i].verdict = "contradicted"
               PROVE  Final[i] = ruled[i] /\ outcome.score = 0
    BY DEF RulesAreFinal
  <2>1. /\ ruled = [k \in DOMAIN inquiry.claims |-> RuleVerdict(inquiry.claims[k], inquiry.evidence)]
        /\ outcome = [verdicts |-> Merged, score |-> ConsistencyScore(Merged)]
    BY DEF SemInv, Done
  <2>2. ruled[i].codes # {}
    BY <2>1 DEF RuleVerdict, Assessment
  <2>3. DOMAIN Merged = DOMAIN ruled /\ Merged[i] = ruled[i]
    BY DEF Merged
  <2>4. i \in Contradictions(Merged)
    BY <2>3 DEF Contradictions
  <2>5. Reasons(Merged) # {}
    BY <2>2, <2>3, <2>4 DEF Reasons
  <2> QED BY <2>1, <2>3, <2>5 DEF Final, ConsistencyScore
<1> QED BY SemInvHolds, <1>1, PTL

\* The least of a set of numbers is in it and below the others.
LEMMA LeastIs ==
  ASSUME NEW S \in SUBSET Nat, S # {}
  PROVE  Least(S) \in S /\ \A j \in S : Least(S) <= j
<1> DEFINE R == {ss \in Nat \X Nat : ss[1] < ss[2]}
<1>1. IsWellFoundedOn(R, Nat)
  BY NatLessThanWellFounded DEF OpToRel
<1>2. \E i \in S : \A j \in S : i <= j
  <2>1. PICK i \in S : \A j \in S : ~ (<<j, i>> \in R)
    <3> HIDE DEF R
    <3> QED BY <1>1, WFMin
  <2>2. \A j \in S : j < i => <<j, i>> \in R
    OBVIOUS
  <2>3. \A j \in S : i <= j
    <3>1. \A j \in S : ~ (j < i)
      BY <2>1, <2>2, Zenon
    <3> QED BY <3>1
  <2> QED BY <2>3
<1> QED BY <1>2 DEF Least

\* The assessments made for a text.
AssessmentsOf(text) == {n \in DOMAIN judged : judged[n].claim = text}

\* The merge finds the first item's verdict, or an unverified claim.
MergeFinds(text) ==
  LET mine == ItemsAbout(text)
      same == AssessmentsOf(text)
  IN  /\ mine # {} => same # {} /\ judged[Least(same)] = Heard(text, array[Least(mine)])
      /\ mine = {} /\ same # {} => /\ judged[Least(same)].verdict = "unverified"
                                /\ judged[Least(same)].claim = text

\* What the merge finds for a text: the first assessment made for it is what the
\* first item about it says, and without such an item nothing is entailed or
\* contradicted.
LEMMA FirstItemDecides ==
  ASSUME array \in Seq(Items), judged = JudgeReply(array), NEW text
  PROVE  MergeFinds(text)
<1> DEFINE mine == ItemsAbout(text)
           same == AssessmentsOf(text)
<1> USE DEF ItemsAbout, AssessmentsOf
<1> DEFINE heeded == {n \in DOMAIN array :
                        Shown(array[n]) /\ \A m \in 1 .. n - 1 : array[m].id # array[n].id}
           skipped == {i \in 1 .. Len(OpenClaims) : \A n \in DOMAIN array : About(array[n]) # i}
<1>1. DOMAIN array = 1 .. Len(array) /\ Len(array) \in Nat
  OBVIOUS
<1>2. \A n \in DOMAIN array : array[n].id \in Int
  BY ItemsAssumption
<1>3. judged = [n \in heeded \cup {Len(array) + i : i \in skipped} |->
                 IF n \in heeded THEN Heard(OpenClaims[About(array[n])], array[n])
                 ELSE Assessment(OpenClaims[n - Len(array)], "unverified", {"judge_no_verdict"},
                                 "judge")]
  BY DEF JudgeReply
<1> DEFINE late == {Len(array) + i : i \in skipped}
<1>4. \A n \in late : n \in Nat /\ n > Len(array)
  BY <1>1
<1>5. heeded \subseteq 1 .. Len(array) /\ mine \subseteq 1 .. Len(array)
  BY <1>1
<1>6. \A n \in heeded : /\ judged[n] = Heard(OpenClaims[About(array[n])], array[n])
                       /\ judged[n].claim = OpenClaims[About(array[n])]
  BY <1>3 DEF Heard, Assessment
<1>7. \A n \in DOMAIN judged \ heeded : n \in late /\ judged[n].verdict = "unverified"
  BY <1>3 DEF Assessment
<1>9. DOMAIN judged = heeded \cup late
  BY <1>3
<1>10. same \cap heeded \subseteq mine
  BY <1>6
<1>11. ASSUME mine # {}
       PROVE  same # {} /\ judged[Least(same)] = Heard(text, array[Least(mine)])
  <2> DEFINE first == Least(mine)
  <2>1. first \in mine /\ \A j \in mine : first <= j
    <3>1. mine \in SUBSET Nat
      BY <1>5
    <3> QED BY <3>1, <1>11, LeastIs, Zenon
  <2>2. first \in heeded
    <3>1. \A m \in 1 .. first - 1 : array[m].id # array[first].id
      <4> SUFFICES ASSUME NEW m \in 1 .. first - 1, array[m].id = array[first].id PROVE FALSE
        OBVIOUS
      <4>1. m \in DOMAIN array /\ m < first
        BY <1>1, <1>5, <2>1
      <4>2. m \in mine
        BY <2>1, <4>1 DEF Shown, About
      <4>3. first <= m /\ m \in Nat /\ first \in Nat
        BY <1>5, <2>1, <4>2
      <4> QED BY <4>1, <4>3
    <3> QED BY <2>1, <3>1
  <2>3. first \in same
    BY <2>1, <2>2, <1>6, <1>9
  <2>4. \A n \in same : first <= n
    BY <1>4, <1>5, <1>9, <1>10, <2>1
  <2>5. same \subseteq Nat
    BY <1>4, <1>5, <1>9
  <2>6. Least(same) \in same /\ \A j \in same : Least(same) <= j
    BY <2>3, <2>5, LeastIs
  <2>7. Least(same) = first
    <3>1. Least(same) <= first /\ first <= Least(same)
      BY <2>3, <2>4, <2>6
    <3>2. Least(same) \in Nat /\ first \in Nat
      BY <2>3, <2>5, <2>6
    <3> QED BY <3>1, <3>2
  <2> QED BY <2>1, <2>2, <2>3, <2>7, <1>6
<1>12. ASSUME mine = {}, same # {}
       PROVE  judged[Least(same)].verdict = "unverified" /\ judged[Least(same)].claim = text
  <2>1. same \in SUBSET Nat
    BY <1>4, <1>5, <1>9
  <2>2. Least(same) \in same
    BY <2>1, <1>12, LeastIs, Zenon
  <2> QED BY <2>2, <1>12, <1>7, <1>10
<1> QED BY <1>11, <1>12 DEF MergeFinds

\* The merge gives each claim the verdict of the first item about its text,
\* wherever it stands among the claims and whatever else the judge says.
THEOREM VerdictsAreTheClaims == SemSpec => []VerdictIsTheClaims
<1>1. SemInv => VerdictIsTheClaims
  <2> SUFFICES ASSUME SemInv, Done, NEW i \in DOMAIN inquiry.claims
               PROVE  /\ Final[i].claim = inquiry.claims[i]
                      /\ ruled[i].verdict # "contradicted" =>
                           Final[i].verdict = FirstVerdict(inquiry.claims[i])
    BY DEF VerdictIsTheClaims
  <2> DEFINE text == inquiry.claims[i]
             mine == ItemsAbout(text)
             same == AssessmentsOf(text)
  <2>1. /\ ruled = [n \in DOMAIN inquiry.claims |-> RuleVerdict(inquiry.claims[n], inquiry.evidence)]
        /\ Final = Merged
    BY DEF SemInv, Done, Final
  <2>2. /\ ruled[i].claim = text /\ ruled[i].verdict \in {"contradicted", "unverified"}
        /\ i \in DOMAIN ruled
    BY <2>1 DEF RuleVerdict, Assessment
  <2>3. Final[i] = IF ruled[i].verdict = "contradicted" \/ same = {} THEN ruled[i]
                   ELSE judged[Least(same)]
    BY <2>1, <2>2 DEF Merged, AssessmentsOf
  <2>4. MergeFinds(text)
    <3>1. CASE array \in Seq(Items) /\ judged = JudgeReply(array)
      BY <3>1, FirstItemDecides
    <3>2. CASE array = <<>> /\ judged = JudgeFailed("model_verifier_failed")
      <4>1. mine = {}
        BY <3>2 DEF ItemsAbout
      <4>2. \A n \in DOMAIN judged : judged[n].verdict = "unverified" /\ n \in Nat
        BY <3>2 DEF JudgeFailed, Assessment
      <4>3. same \in SUBSET Nat
        BY <4>2 DEF AssessmentsOf
      <4>4. same # {} => Least(same) \in same
        BY <4>3, LeastIs
      <4> QED BY <4>1, <4>2, <4>4 DEF MergeFinds, AssessmentsOf
    <3>3. CASE array = <<>> /\ judged = <<>>
      BY <3>3 DEF MergeFinds, ItemsAbout, AssessmentsOf
    <3> QED BY <3>1, <3>2, <3>3 DEF SemInv, Done
  <2>5. Heard(text, array[Least(mine)]) =
          Assessment(text, IF array[Least(mine)].verdict \in Verdicts THEN array[Least(mine)].verdict
                           ELSE "unverified", array[Least(mine)].codes, "judge")
    BY DEF Heard
  <2> HIDE DEF text, mine, same
  <2>6. CASE mine # {}
    <3>1. ruled[i].verdict # "contradicted" => Final[i] = Heard(text, array[Least(mine)])
      BY <2>3, <2>4, <2>6 DEF MergeFinds, mine, same
    <3>2. ruled[i].verdict = "contradicted" => Final[i] = ruled[i]
      BY <2>3
    <3> QED BY <2>2, <2>5, <2>6, <3>1, <3>2 DEF Assessment, FirstVerdict, mine, text
  <2>7. CASE mine = {}
    <3>1. Final[i].claim = text /\ (ruled[i].verdict # "contradicted" => Final[i].verdict = "unverified")
      BY <2>2, <2>3, <2>4, <2>7 DEF MergeFinds, mine, same
    <3> QED BY <2>7, <3>1 DEF FirstVerdict, mine, text
  <2> QED BY <2>6, <2>7
<1> QED BY SemInvHolds, <1>1, PTL

-----------------------------------------------------------------------------
(* The preference pair *)

\* A verdict that certifies was reconciled from the two replies that were heard.
PairInv ==
  /\ chosenFirst \in BOOLEAN
  /\ heard \in Seq(Replies \cup {Unparsed})
  /\ pairStep \in {"idle", "judging"} => judgement = NoJudgement
  /\ pairStep \in {"checked", "scored"} /\ pair.certified => judgement.verdict # "none"
  /\ judgement.verdict \in {"none", "valid", "review", "invalid"}
  /\ judgement.verdict = "valid" =>
       /\ Len(heard) = 2
       /\ \A i \in 1 .. 2 : heard[i].preferred # "unparsed"
       /\ judgement = Reconciled(chosenFirst, heard[1], heard[2], pair.chosen, pair.rejected, pair.alike)
  /\ pairStep = "scored" => signal.score = PreferenceScore(pair, judgement)

\* What reconciling two judgements can say.
LEMMA VerdictOf ==
  ASSUME NEW first, NEW a, NEW b, NEW c, NEW r, NEW alike
  PROVE  Reconciled(first, a, b, c, r, alike).verdict \in {"valid", "review", "invalid"}
BY DEF Reconciled

\* The invariant of the pair judge holds of every behaviour.
THEOREM PairInvHolds == PairSpec => []PairInv
<1>1. PairInit => PairInv
  BY DEF PairInit, PairInv, NoJudgement
<1>2. PairInv /\ [PairNext]_pairVars => PairInv'
  <2> SUFFICES ASSUME PairInv, [PairNext]_pairVars PROVE PairInv' OBVIOUS
  <2>1. CASE Offer
    BY <2>1 DEF PairInv, Offer, NoJudgement
  <2>7. CASE JudgeUnsupported
    BY <2>7 DEF PairInv, JudgeUnsupported, Asking, NoJudgement
  <2>2. CASE RefuseEmpty \/ JudgeBreaks
    BY <2>2 DEF PairInv, RefuseEmpty, JudgeBreaks, Asking, GivesUp
  <2>3. CASE JudgeSpeaks \/ JudgeBabbles
    BY <2>3 DEF PairInv, JudgeSpeaks, JudgeBabbles, Asking, NoJudgement
  <2>4. CASE Reconcile
    <3>1. UNCHANGED <<pair, chosenFirst, heard, signal>> /\ Len(heard) = 2 /\ pairStep' = "checked"
      BY <2>4 DEF Reconcile
    <3>2. CASE \E i \in 1 .. 2 : heard[i].preferred = "unparsed"
      BY <2>4, <3>1, <3>2 DEF PairInv, Reconcile, GivesUp
    <3>3. CASE ~ \E i \in 1 .. 2 : heard[i].preferred = "unparsed"
      BY <2>4, <3>1, <3>3, VerdictOf DEF PairInv, Reconcile
    <3> QED BY <3>2, <3>3
  <2>5. CASE ScorePair
    BY <2>5 DEF PairInv, ScorePair
  <2>6. CASE UNCHANGED pairVars
    BY <2>6 DEF PairInv, pairVars
  <2> QED BY <2>1, <2>2, <2>3, <2>4, <2>5, <2>6, <2>7 DEF PairNext
<1> QED BY <1>1, <1>2, PTL DEF PairSpec

\* What a verdict that certifies says of the two replies behind it.
LEMMA ValidMeans ==
  ASSUME NEW first \in BOOLEAN, NEW a \in Replies, NEW b \in Replies, NEW c, NEW r, NEW alike,
         Reconciled(first, a, b, c, r, alike).verdict = "valid"
  PROVE  LET oa == orient(first, a)
             ob == orient(~ first, b)
         IN  /\ oa.prefers # "tie" /\ oa.prefers = ob.prefers
             /\ oa.chosen + ob.chosen > oa.rejected + ob.rejected
             /\ (RejectedDefects(first, a) \cup RejectedDefects(~ first, b))
                  \cap DEFECT_CODES \cap REAL_DEFECT_CODES # {}
<1> DEFINE oa == orient(first, a)
           ob == orient(~ first, b)
           defects == (RejectedDefects(first, a) \cup RejectedDefects(~ first, b)) \cap DEFECT_CODES
           margin2 == oa.chosen + ob.chosen - (oa.rejected + ob.rejected)
           tied == "tie" \in {oa.prefers, ob.prefers}
           consistent == ~ tied /\ oa.prefers = ob.prefers
<1>1. oa.chosen \in Int /\ ob.chosen \in Int /\ oa.rejected \in Int /\ ob.rejected \in Int
  BY RepliesAssumption DEF orient
<1>2. margin2 > 0 /\ consistent /\ Reconciled(first, a, b, c, r, alike).codes = {}
  <2>1. margin2 > 0
    BY <1>1, SMTT(40) DEF Reconciled
  <2>2. Reconciled(first, a, b, c, r, alike).codes = {}
    BY SMTT(40) DEF Reconciled
  <2>3. ~ tied
    BY SMTT(40) DEF Reconciled
  <2>4. oa.prefers = ob.prefers
    BY SMTT(40) DEF Reconciled
  <2> QED BY <2>1, <2>2, <2>3, <2>4
<1>3. defects \cap REAL_DEFECT_CODES # {}
  BY <1>2 DEF Reconciled
<1> QED BY <1>1, <1>2, <1>3

\* Where a judge is configured, a pair that scores in full is certified, and it is
\* certified only on the strength of two parsed replies that name the same side
\* whichever answer was shown first and find a defect in the rejected one,
\* whatever a judge replies and however its calls fail.
THEOREM CertificatesAreCorroborated == PairSpec => []CertifiedIsCorroborated
<1>1. PairInv => CertifiedIsCorroborated
  <2> SUFFICES ASSUME PairInv PROVE CertifiedIsCorroborated OBVIOUS
  <2>1. PairScored /\ pair.certified /\ signal.score > 60 => judgement.verdict = "valid"
    BY DEF PairInv, PairScored, PreferenceScore, CheckScore
  <2>2. ASSUME judgement.verdict = "valid"
        PROVE  /\ Len(heard) = 2
               /\ heard[1] \in Replies /\ heard[2] \in Replies
               /\ Reconciled(chosenFirst, heard[1], heard[2], pair.chosen, pair.rejected,
                             pair.alike).verdict = "valid"
    <3>1. Len(heard) = 2 /\ heard[1].preferred # "unparsed" /\ heard[2].preferred # "unparsed"
      BY <2>2 DEF PairInv
    <3>2. heard[1] \in Replies \cup {Unparsed} /\ heard[2] \in Replies \cup {Unparsed}
      BY <3>1 DEF PairInv
    <3>3. judgement = Reconciled(chosenFirst, heard[1], heard[2], pair.chosen, pair.rejected, pair.alike)
      BY <2>2 DEF PairInv
    <3> QED BY <2>2, <3>1, <3>2, <3>3 DEF Unparsed
  <2> QED BY <2>1, <2>2, ValidMeans, RepliesAssumption
          DEF PairInv, CertifiedIsCorroborated, orient, RejectedDefects
<1> QED BY PairInvHolds, <1>1, PTL

-----------------------------------------------------------------------------
(* The decision on an example *)

\* Nothing but the validator of a critical dimension itself verifies it.
LEMMA VerifiedBy ==
  ASSUME NEW ex, NEW k \in SUBSET Contradictory, _validate(ex, SpanTexts, k).status = "accepted",
         NEW n \in {"grounding", "schema", "answerability", "semantic_consistency"}
  PROVE  \E a \in default_validators(ex, SpanTexts, k) : a.name = n /\ a.verify = "verified"
<1> DEFINE assessed == default_validators(ex, SpanTexts, k) \cup {diagnose_example(ex)}
           dims == Dimensions(assessed, ex.topology = "preference")
<1>1. n \in InState(dims, "verified")
  <2>1. InState(dims, "verified") = Critical
    BY DEF _validate, assemble_decision
  <2> QED BY <2>1 DEF Critical
<1>2. PICK d \in dims : d.name = n /\ d.verify = "verified"
  BY <1>1 DEF InState
<1>3. d \in assessed
  <2> DEFINE other == CHOOSE a \in assessed : a.name = "completeness"
  <2>1. \A a \in assessed : a = [name |-> a.name, score |-> a.score, verify |-> a.verify]
    BY SMTT(40) DEF default_validators, Grounding, Completeness, Format, Refusal, Schema, Answerability,
           SemanticConsistency, Assess, diagnose_example
  <2>2. CASE "completeness" \in {a.name : a \in assessed}
    <3>1. other \in assessed
      BY <2>2
    <3>2. [other EXCEPT !.name = "instruction_fulfillment"].name = "instruction_fulfillment"
      BY <2>1, <3>1
    <3>3. d = [other EXCEPT !.name = "instruction_fulfillment"] \/ d.name = "preference_signal"
          \/ d \in assessed
      BY <1>2 DEF Dimensions
    <3> QED BY <1>2, <3>2, <3>3
  <2>3. CASE "completeness" \notin {a.name : a \in assessed}
    BY <1>2, <2>3 DEF Dimensions
  <2> QED BY <2>2, <2>3
<1> QED BY <1>2, <1>3 DEF diagnose_example

\* What each of those validators asks for.
LEMMA VerifiedMeans ==
  ASSUME NEW ex, NEW k \in SUBSET Contradictory, NEW a \in default_validators(ex, SpanTexts, k),
         a.verify = "verified"
  PROVE  /\ a.name = "grounding" =>
              _fractional_overlap(_assistant_text(ex), Cited(ex, SpanTexts)) >= 90
         /\ a.name = "schema" => SchemaOK(ex, SpanTexts)
         /\ a.name = "answerability" => a = Answerability(ex, SpanTexts)
         /\ a.name = "semantic_consistency" => "reasoned" \notin k
BY DEF default_validators, Grounding, Completeness, Format, Refusal, Schema, Answerability,
       SemanticConsistency, Assess

\* A quotient reaches a whole number when the dividend does.
LEMMA QuotientAtLeast ==
  ASSUME NEW n \in Nat, NEW m \in Nat \ {0}, n \div m >= 90
  PROVE  90 * m <= n
OBVIOUS

\* Nine tenths of overlap: one word in twenty is missing at most.
LEMMA OverlapMeans ==
  ASSUME NEW answer, NEW evidence, IsFiniteSet(answer.tokens),
         _fractional_overlap(answer, evidence) >= 90
  PROVE  /\ answer.tokens # {} /\ evidence # {}
         /\ 20 * Cardinality(answer.tokens \ evidence) <= Cardinality(answer.tokens)
<1> DEFINE all == Cardinality(answer.tokens)
           loose == Cardinality(answer.tokens \ evidence)
           kept == 100 * all - 200 * loose
<1>1. all \in Nat /\ loose \in Nat
  BY FS_CardinalityType, FS_Subset
<1>2. all # 0 /\ evidence # {} /\ kept >= 0 /\ kept \div all >= 90
  BY <1>1 DEF _fractional_overlap
<1>3. answer.tokens # {}
  BY <1>2, FS_EmptySet
<1> HIDE DEF all, loose
<1>4. 90 * all <= kept
  BY <1>1, <1>2, QuotientAtLeast
<1>5. 20 * loose <= all
  BY <1>1, <1>4
<1> QED BY <1>2, <1>3, <1>5 DEF all, loose

\* What is accepted, as the property says it of what is kept.
LEMMA AcceptedMeans ==
  ASSUME NEW ex, NEW k \in SUBSET Contradictory, _validate(ex, SpanTexts, k).status = "accepted",
         IsFiniteSet(_assistant_text(ex).tokens), IsFiniteSet(_prompt_text(ex).tokens)
  PROVE  LET a == _assistant_text(ex).tokens
             p == _prompt_text(ex).tokens
         IN  /\ ex.spans # {} /\ ex.spans \subseteq DOMAIN SpanTexts
             /\ 20 * Cardinality(a \ Cited(ex, SpanTexts)) <= Cardinality(a)
             /\ a # {} /\ "reasoned" \notin k
             /\ IsRefusal(ex) => 5 * Cardinality(p \cap Cited(ex, SpanTexts)) < Cardinality(p) \/ p = {}
<1> DEFINE a == _assistant_text(ex).tokens
           p == _prompt_text(ex).tokens
           e == Cited(ex, SpanTexts)
<1>1. _fractional_overlap(_assistant_text(ex), e) >= 90 /\ SchemaOK(ex, SpanTexts)
      /\ "reasoned" \notin k
  BY VerifiedBy, VerifiedMeans
<1>2. Answerability(ex, SpanTexts).verify = "verified"
  BY VerifiedBy, VerifiedMeans
<1>3. /\ a # {} /\ e # {} /\ 20 * Cardinality(a \ e) <= Cardinality(a)
  BY <1>1, OverlapMeans
<1>4. Cardinality(p) \in Nat /\ Cardinality(p \cap e) \in Nat
  BY FS_CardinalityType, FS_Subset
<1>5. ~ (IsRefusal(ex) /\ p # {} /\ 100 * Cardinality(p \cap e) >= 20 * Cardinality(p))
  BY <1>2, <1>3 DEF Answerability, Assess
<1>6. IsRefusal(ex) => 5 * Cardinality(p \cap e) < Cardinality(p) \/ p = {}
  BY <1>4, <1>5
<1> QED BY <1>1, <1>3, <1>6 DEF SchemaOK

Entries == {[ex |-> ToExample(c), contradicted |-> k,
             decision |-> _validate(ToExample(c), SpanTexts, k)] :
              c \in Candidates, k \in SUBSET Contradictory}

\* Every decision is the one the validators give, and what is kept is what was
\* accepted.
AcceptInv ==
  /\ batch \in Seq(Candidates) /\ results \in Seq(Entries)
  /\ examples = {i \in DOMAIN results : results[i].decision.status = "accepted"}

\* The invariant of the acceptance loop holds of every behaviour.
THEOREM AcceptInvHolds == AcceptSpec => []AcceptInv
<1>1. AcceptInit => AcceptInv
  BY DEF AcceptInit, AcceptInv
<1>2. AcceptInv /\ [AcceptNext]_acceptVars => AcceptInv'
  <2> SUFFICES ASSUME AcceptInv, [AcceptNext]_acceptVars PROVE AcceptInv' OBVIOUS
  <2>1. CASE Generate
    BY <2>1, AcceptanceAssumption DEF AcceptInv, Generate
  <2>2. CASE ValidateNext
    <3>1. PICK k \in SUBSET Contradictory :
            LET ex == ToExample(Head(batch))
                decision == _validate(ex, SpanTexts, k)
                entry == [ex |-> ex, contradicted |-> k, decision |-> decision]
            IN  results' = Append(results, entry) /\ examples' = Kept(decision.status)
      BY <2>2 DEF ValidateNext
    <3> DEFINE decided == _validate(ToExample(Head(batch)), SpanTexts, k)
               new == [ex |-> ToExample(Head(batch)), contradicted |-> k, decision |-> decided]
    <3>2. Head(batch) \in Candidates /\ batch' \in Seq(Candidates)
      BY <2>2 DEF AcceptInv, ValidateNext
    <3>3. new \in Entries /\ results' = Append(results, new) /\ examples' = Kept(decided.status)
      BY <3>1, <3>2 DEF Entries
    <3>4. new.decision.status = decided.status
      OBVIOUS
    <3> HIDE DEF decided, new
    <3>5. /\ results' \in Seq(Entries) /\ DOMAIN results' = DOMAIN results \cup {Len(results) + 1}
          /\ results'[Len(results) + 1] = new
          /\ \A i \in DOMAIN results : results'[i] = results[i] /\ i # Len(results) + 1
      BY <3>3 DEF AcceptInv
    <3>6. examples' = {i \in DOMAIN results' : results'[i].decision.status = "accepted"}
      BY <3>3, <3>4, <3>5 DEF AcceptInv, Kept
    <3> QED BY <3>2, <3>5, <3>6 DEF AcceptInv
  <2>3. CASE Finish \/ UNCHANGED acceptVars
    BY <2>3 DEF AcceptInv, Finish, acceptVars
  <2> QED BY <2>1, <2>2, <2>3 DEF AcceptNext
<1> QED BY <1>1, <1>2, PTL DEF AcceptSpec

\* What is kept of any batch of candidates, judged against any spans, cites
\* spans that exist, says next to nothing they do not say, does not refuse what
\* they answer, and had no contradiction with a reason code.
THEOREM KeptIsCertified == AcceptSpec => []AcceptedIsCertified
<1>1. AcceptInv => AcceptedIsCertified
  <2> SUFFICES ASSUME AcceptInv, NEW i \in examples
               PROVE  LET ex == results[i].ex
                          a == _assistant_text(ex).tokens
                      IN  /\ ex.spans # {} /\ ex.spans \subseteq DOMAIN SpanTexts
                          /\ 20 * Cardinality(a \ Cited(ex, SpanTexts)) <= Cardinality(a)
                          /\ a # {} /\ "reasoned" \notin results[i].contradicted
                          /\ IsRefusal(ex) =>
                               LET p == _prompt_text(ex).tokens
                               IN  5 * Cardinality(p \cap Cited(ex, SpanTexts)) < Cardinality(p)
                                   \/ p = {}
    BY DEF AcceptedIsCertified
  <2>1. results[i] \in Entries /\ results[i].decision.status = "accepted"
    BY DEF AcceptInv
  <2>2. PICK c \in Candidates, k \in SUBSET Contradictory :
          results[i] = [ex |-> ToExample(c), contradicted |-> k,
                        decision |-> _validate(ToExample(c), SpanTexts, k)]
    BY <2>1 DEF Entries
  <2>3. /\ results[i].ex = ToExample(c) /\ results[i].contradicted = k
        /\ _validate(ToExample(c), SpanTexts, k).status = "accepted"
    BY <2>1, <2>2
  <2> QED BY <2>3, AcceptedMeans, AcceptanceAssumption
<1> QED BY AcceptInvHolds, <1>1, PTL

-----------------------------------------------------------------------------
(* The deterministic checks of a claim, for texts of any length *)

\* The sequence is three others, one behind the other.
Joined(s, a, b, d, R) ==
  /\ s \in Seq(R) /\ Len(s) = Len(a) + Len(b) + Len(d)
  /\ SubSeq(s, 1, Len(a)) = a
  /\ SubSeq(s, Len(a) + 1, Len(a) + Len(b)) = b
  /\ SubSeq(s, Len(a) + Len(b) + 1, Len(s)) = d

\* Three sequences put one behind the other can be taken apart again.
LEMMA ThreeParts ==
  ASSUME NEW R, NEW a \in Seq(R), NEW b \in Seq(R), NEW d \in Seq(R)
  PROVE  Joined(a \o b \o d, a, b, d, R)
  BY DEF Joined

\* The three parts of a sequence, of i words, of m words and the rest.
Parted(c, i, m, R) ==
  /\ c = SubSeq(c, 1, i) \o SubSeq(c, i + 1, i + m) \o SubSeq(c, i + m + 1, Len(c))
  /\ SubSeq(c, 1, i) \in Seq(R) /\ SubSeq(c, i + 1, i + m) \in Seq(R)
  /\ SubSeq(c, i + m + 1, Len(c)) \in Seq(R)
  /\ Len(SubSeq(c, 1, i)) = i /\ Len(SubSeq(c, i + 1, i + m)) = m
  /\ Len(SubSeq(c, i + m + 1, Len(c))) = Len(c) - (i + m)

\* A sequence is made of its parts.
LEMMA PartsMake ==
  ASSUME NEW R, NEW c \in Seq(R), NEW i \in Nat, NEW m \in Nat, i + m <= Len(c)
  PROVE  Parted(c, i, m, R)
<1>1. Len(c) \in Nat /\ \A j \in 1 .. Len(c) : c[j] \in R
  OBVIOUS
<1>2. SubSeq(c, 1, i) \o SubSeq(c, i + 1, i + m) = SubSeq(c, 1, i + m)
  <2>1. 1 \in 1 .. Len(c) + 1 /\ i \in 1 - 1 .. Len(c) /\ i + m \in i .. Len(c)
    BY <1>1
  <2> QED BY <2>1, ConcatAdjacentSubSeq
<1>3. SubSeq(c, 1, i + m) \o SubSeq(c, i + m + 1, Len(c)) = SubSeq(c, 1, Len(c))
  <2>1. 1 \in 1 .. Len(c) + 1 /\ i + m \in 1 - 1 .. Len(c) /\ Len(c) \in i + m .. Len(c)
    BY <1>1
  <2> QED BY <2>1, ConcatAdjacentSubSeq
<1>4. SubSeq(c, 1, Len(c)) = c
  BY SubSeqFull
<1>5. c = SubSeq(c, 1, i) \o SubSeq(c, i + 1, i + m) \o SubSeq(c, i + m + 1, Len(c))
  BY <1>2, <1>3, <1>4, Zenon
<1>6. /\ SubSeq(c, 1, i) \in Seq(R) /\ Len(SubSeq(c, 1, i)) = i
  <2>1. \A j \in 1 .. i : c[j] \in R
    BY <1>1
  <2>2. 1 \in Int /\ i \in Int
    OBVIOUS
  <2>3. /\ SubSeq(c, 1, i) \in Seq(R) /\ Len(SubSeq(c, 1, i)) = IF 1 <= i THEN i - 1 + 1 ELSE 0
    BY <2>1, <2>2, SubSeqProperties
  <2> QED BY <2>3
<1>7. SubSeq(c, i + 1, i + m) \in Seq(R) /\ Len(SubSeq(c, i + 1, i + m)) = m
  <2>1. \A j \in i + 1 .. i + m : c[j] \in R
    BY <1>1
  <2>2. i + 1 \in Int /\ i + m \in Int
    OBVIOUS
  <2>3. /\ SubSeq(c, i + 1, i + m) \in Seq(R)
        /\ Len(SubSeq(c, i + 1, i + m)) = IF i + 1 <= i + m THEN i + m - (i + 1) + 1 ELSE 0
    BY <2>1, <2>2, SubSeqProperties
  <2> QED BY <2>3
<1>8. SubSeq(c, i + m + 1, Len(c)) \in Seq(R) /\ Len(SubSeq(c, i + m + 1, Len(c))) = Len(c) - (i + m)
  <2>1. \A j \in i + m + 1 .. Len(c) : c[j] \in R
    BY <1>1
  <2>2. i + m + 1 \in Int /\ Len(c) \in Int
    BY <1>1
  <2>3. /\ SubSeq(c, i + m + 1, Len(c)) \in Seq(R)
        /\ Len(SubSeq(c, i + m + 1, Len(c))) =
             IF i + m + 1 <= Len(c) THEN Len(c) - (i + m + 1) + 1 ELSE 0
    BY <2>1, <2>2, SubSeqProperties
  <2> QED BY <1>1, <2>3
<1> QED BY <1>5, <1>6, <1>7, <1>8 DEF Parted

\* A claim that exchanges two short phrases of a text reverses it, and the text
\* reverses the claim.
LEMMA ExchangeBack ==
  ASSUME NEW R, NEW c \in Seq(R), NEW e, NEW i \in 1 .. 4, NEW m \in 1 .. 6,
         Len(c) >= 4, Exchanged(c, e, i, m), Len(c) - (i + m) <= 4
  PROVE  ExchangeReversal(c, e) /\ ExchangeReversal(e, c)
<1>0. /\ i \in Nat /\ m \in Nat /\ Len(c) \in Nat /\ i + m < Len(c)
      /\ Len(c) - (i + m) \in 1 .. 4
  <2>1. i + m < Len(c)
    BY DEF Exchanged
  <2>2. i \in Nat /\ m \in Nat /\ Len(c) \in Nat
    OBVIOUS
  <2> QED BY <2>1, <2>2
<1>p. Parted(c, i, m, R)
  <2>1. i + m <= Len(c)
    BY <1>0
  <2> QED BY <1>0, <2>1, PartsMake
<1> DEFINE pre == SubSeq(c, 1, i)
           mid == SubSeq(c, i + 1, i + m)
           suf == SubSeq(c, i + m + 1, Len(c))
           k == Len(c) - (i + m)
<1>1. /\ pre # suf /\ e = suf \o mid \o pre
      /\ \E x \in DOMAIN mid : mid[x].k \notin {"fill", "num"}
  BY DEF Exchanged
<1>2. /\ c = pre \o mid \o suf /\ pre \in Seq(R) /\ mid \in Seq(R) /\ suf \in Seq(R)
      /\ Len(pre) = i /\ Len(mid) = m /\ Len(suf) = k
  BY <1>p DEF Parted
<1>3. k \in 1 .. 4 /\ k + m < Len(c) /\ k + m + i = Len(c)
  BY <1>0
<1> HIDE DEF pre, mid, suf, k
<1>4. /\ e \in Seq(R) /\ Len(e) = k + m + i
      /\ SubSeq(e, 1, k) = suf /\ SubSeq(e, k + 1, k + m) = mid
      /\ SubSeq(e, k + m + 1, Len(e)) = pre
  <2>1. Joined(suf \o mid \o pre, suf, mid, pre, R)
    BY <1>2, ThreeParts
  <2>2. Joined(e, suf, mid, pre, R)
    BY <1>1, <2>1
  <2> QED BY <1>2, <2>2 DEF Joined
<1>5. Len(e) = Len(c)
  BY <1>3, <1>4
<1>6. Exchanged(e, c, k, m)
  <2>1. k + m < Len(e)
    BY <1>3, <1>5
  <2>2. /\ SubSeq(e, 1, k) # SubSeq(e, k + m + 1, Len(e))
        /\ c = SubSeq(e, k + m + 1, Len(e)) \o SubSeq(e, k + 1, k + m) \o SubSeq(e, 1, k)
    BY <1>1, <1>2, <1>4
  <2>3. \E x \in DOMAIN SubSeq(e, k + 1, k + m) : SubSeq(e, k + 1, k + m)[x].k \notin {"fill", "num"}
    BY <1>1, <1>4
  <2> QED BY <2>1, <2>2, <2>3, Zenon DEF Exchanged
<1>7. Exchanged(c, e, i, m) /\ Len(e) >= 4
  BY <1>5
<1> QED BY <1>3, <1>5, <1>6, <1>7 DEF ExchangeReversal

\* Reversal is mutual, for all texts.
LEMMA MutualReversal ==
  ASSUME NEW R, NEW c \in Seq(R), NEW e
  PROVE  ReversalMutual(c, e)
<1>1. \A i \in 1 .. 4, m \in 1 .. 6 :
        Len(c) >= 4 /\ Exchanged(c, e, i, m) /\ Len(c) - (i + m) <= 4 =>
           ExchangeReversal(c, e) /\ ExchangeReversal(e, c)
  BY ExchangeBack
<1>2. ASSUME \A i, j \in DOMAIN c : c[i] = c[j] => i = j
      PROVE  ~ check_entity_role_reversal(c, c)
  <2>1. ASSUME RolesSwapped(c, c) PROVE FALSE
    <3>1. PICK x \in Triples(c), y \in Triples(c) : x[1] = y[3] /\ x[3] = y[1]
      BY <2>1 DEF RolesSwapped
    <3>2. PICK p \in Frames(c) : x = <<c[p[1]], c[p[2] - 1], c[p[2]]>>
      BY <3>1 DEF Triples
    <3>3. PICK q \in Frames(c) : y = <<c[q[1]], c[q[2] - 1], c[q[2]]>>
      BY <3>1 DEF Triples
    <3>4. /\ p[1] \in DOMAIN c /\ p[2] \in DOMAIN c /\ p[1] + 1 < p[2]
          /\ q[1] \in DOMAIN c /\ q[2] \in DOMAIN c /\ q[1] + 1 < q[2]
      BY DEF Frames
    <3>5. c[p[1]] = c[q[2]] /\ c[p[2]] = c[q[1]]
      BY <3>1, <3>2, <3>3
    <3>6. p[1] = q[2] /\ p[2] = q[1]
      BY <1>2, <3>4, <3>5
    <3>7. p[1] \in Nat /\ p[2] \in Nat
      BY <3>4
    <3> QED BY <3>4, <3>6, <3>7
  <2>2. ASSUME ExchangeReversal(c, c) PROVE FALSE
    <3>1. PICK i \in 1 .. 4, m \in 1 .. 6 : Exchanged(c, c, i, m)
      BY <2>2 DEF ExchangeReversal
    <3>0. i \in Nat /\ m \in Nat /\ Len(c) \in Nat /\ i + m < Len(c)
      BY <3>1 DEF Exchanged
    <3>5. 1 \in DOMAIN c /\ i + m + 1 \in DOMAIN c /\ i + m + 1 # 1
      BY <3>0
    <3>p. Parted(c, i, m, R)
      <4>1. i + m <= Len(c)
        BY <3>0
      <4> QED BY <3>0, <4>1, PartsMake
    <3>s. SubSeq(c, i + m + 1, Len(c))[1] = c[i + m + 1]
      BY <3>0
    <3> DEFINE pre == SubSeq(c, 1, i)
               mid == SubSeq(c, i + 1, i + m)
               suf == SubSeq(c, i + m + 1, Len(c))
    <3>2. c = suf \o mid \o pre
      BY <3>1 DEF Exchanged
    <3>3. suf \in Seq(R) /\ mid \in Seq(R) /\ pre \in Seq(R) /\ Len(suf) = Len(c) - (i + m)
          /\ suf[1] = c[i + m + 1]
      BY <3>p, <3>s DEF Parted
    <3>4. c[1] = suf[1]
      <4> HIDE DEF suf, mid, pre
      <4>1. PICK s : s = suf \o mid \o pre
        OBVIOUS
      <4>2. Len(suf) >= 1
        BY <3>0, <3>3
      <4>3. s[1] = suf[1]
        BY <3>3, <4>1, <4>2
      <4> QED BY <3>2, <4>1, <4>3
    <3>6. c[1] = c[i + m + 1]
      BY <3>3, <3>4
    <3> HIDE DEF suf, mid, pre
    <3> QED BY <1>2, <3>5, <3>6
  <2> QED BY <2>1, <2>2 DEF check_entity_role_reversal
<1> QED BY <1>1, <1>2 DEF ReversalMutual

\* A text has finitely many numbers.
LEMMA NumbersFinite ==
  ASSUME NEW R, NEW t \in Seq(R)
  PROVE  IsFiniteSet(Numbers(t))
<1> DEFINE D == (1 .. Len(t)) \X {"$", "none", "%"}
           f == [d \in D |-> <<t[d[1]].n, d[2]>>]
           S == {f[d] : d \in D}
<1>1. IsFiniteSet(D)
  <2>1. IsFiniteSet(1 .. Len(t))
    <3>1. 1 \in Int /\ Len(t) \in Int
      OBVIOUS
    <3> QED BY <3>1, FS_Interval
  <2>2. IsFiniteSet({"$", "none", "%"})
    <3>1. IsFiniteSet({"$"}) /\ IsFiniteSet({"none"}) /\ IsFiniteSet({"%"})
      BY FS_Singleton
    <3>2. IsFiniteSet({"$"} \cup {"none"}) 
      BY <3>1, FS_Union
    <3>3. IsFiniteSet(({"$"} \cup {"none"}) \cup {"%"}) 
      BY <3>1, <3>2, FS_Union
    <3>4. {"$", "none", "%"} = ({"$"} \cup {"none"}) \cup {"%"}
      OBVIOUS
    <3> QED BY <3>3, <3>4
  <2> QED BY <2>1, <2>2, FS_Product
<1>2. IsFiniteSet(S)
  <2>1. f \in Surjection(D, S)
    <3> HIDE DEF D
    <3>1. f \in [D -> S]
      OBVIOUS
    <3> QED BY <3>1 DEF Surjection
  <2> HIDE DEF D, f, S
  <2> QED BY <1>1, <2>1, FS_Surjection
<1>3. Numbers(t) \subseteq S
  <2> SUFFICES ASSUME NEW x \in Numbers(t) PROVE x \in S
    OBVIOUS
  <2>1. PICK i \in Indexes(t, "num") :
          x \in IF t[i].u = "$" THEN {<<t[i].n, "$">>, <<t[i].n, "none">>}
                                ELSE {<<t[i].n, OwnUnit(t[i])>>}
    BY DEF Numbers
  <2>2. i \in 1 .. Len(t)
    BY DEF Indexes
  <2>3. PICK u \in {"$", "none", "%"} : x = <<t[i].n, u>>
    BY <2>1 DEF OwnUnit
  <2>4. <<i, u>> \in D
    BY <2>2
  <2>5. f[<<i, u>>] = x
    <3> HIDE DEF D
    <3> QED BY <2>3, <2>4
  <2> HIDE DEF D, f
  <2> QED BY <2>4, <2>5
<1> HIDE DEF D, f, S
<1> QED BY <1>2, <1>3, FS_Subset

\* The quantity of word i of a text.
QuantityOf(t, i) ==
  [raw |-> t[i].n, base |-> t[i].n * UNIT_MAP[t[i].u].mult, type |-> UNIT_MAP[t[i].u].type]

\* A text with one number and one quantity has the number of that quantity, and
\* every unit in it is the unit of that quantity.
LEMMA OneQuantity ==
  ASSUME NEW R, NEW t \in Seq(R), NEW q, Quantities(t) = {q}, Cardinality(Numbers(t)) = 1,
         LoneUnits(t) = {}
  PROVE  /\ Numbers(t) = {<<q.raw, "none">>} /\ Units(t) # {}
         /\ \A u \in Units(t) : q.base = q.raw * UNIT_MAP[u].mult /\ q.type = UNIT_MAP[u].type
<1>1. PICK x : Numbers(t) = {x}
  BY NumbersFinite, FS_Singleton
<1>2. PICK j \in {j \in Indexes(t, "num") : t[j].u \in DOMAIN UNIT_MAP} : q = QuantityOf(t, j)
  BY DEF Quantities, QuantityOf
<1>3. DOMAIN UNIT_MAP = {"meters", "cm", "mm", "minutes", "secs", "ms"}
  BY DEF UNIT_MAP
<1>4. OwnUnit(t[j]) = "none" /\ t[j].u # "$"
  BY <1>2, <1>3 DEF OwnUnit
<1>5. <<q.raw, "none">> \in Numbers(t)
  BY <1>2, <1>4, Zenon DEF Numbers, QuantityOf
<1>6. t[j].u \in Units(t)
  BY <1>2 DEF Units
<1>7. ASSUME NEW u \in Units(t)
      PROVE  q.base = q.raw * UNIT_MAP[u].mult /\ q.type = UNIT_MAP[u].type
  <2>1. PICK i \in Indexes(t, "num") : t[i].u = u /\ u \in DOMAIN UNIT_MAP
    BY DEF Units
  <2>2. QuantityOf(t, i) \in Quantities(t)
    BY <2>1, Zenon DEF Quantities, QuantityOf
  <2>3. q = QuantityOf(t, i)
    BY <2>2
  <2> QED BY <2>1, <2>3, Zenon DEF QuantityOf
<1> QED BY <1>1, <1>5, <1>6, <1>7

\* Two texts of one quantity each are told apart by the base units, up to the
\* tolerance.
LEMMA ByBase ==
  ASSUME NEW R, NEW c \in Seq(R), NEW P, NEW e \in Seq(P)
  PROVE  QuantitiesByBase(c, e)
<1> SUFFICES ASSUME NEW q \in Quantities(c), NEW r \in Quantities(e),
                    Quantities(c) = {q}, Quantities(e) = {r},
                    Cardinality(Numbers(c)) = 1, Cardinality(Numbers(e)) = 1,
                    LoneUnits(c) = {}, LoneUnits(e) = {},
                    q.type = r.type, ContextWords(c) \cap ContextWords(e) # {}
             PROVE  LET mismatch == check_number_mismatch(c, e) # {} \/ check_unit_mismatch(c, e) # {}
                    IN  /\ q.base = r.base => ~ mismatch
                        /\ r.base \notin {q.base, q.base + 1} /\ q.base # r.base + 1 => mismatch
  BY DEF QuantitiesByBase
<1>1. /\ Numbers(c) = {<<q.raw, "none">>} /\ Units(c) # {}
      /\ \A u \in Units(c) : q.base = q.raw * UNIT_MAP[u].mult /\ q.type = UNIT_MAP[u].type
  BY OneQuantity
<1>2. /\ Numbers(e) = {<<r.raw, "none">>} /\ Units(e) # {}
      /\ \A u \in Units(e) : r.base = r.raw * UNIT_MAP[u].mult /\ r.type = UNIT_MAP[u].type
  BY OneQuantity
<1> DEFINE close == Close(q.base, r.base)
<1>3. check_number_mismatch(c, e) = {} <=> (q.raw = r.raw \/ close)
  <2>1. ConversionEquivalent(c, e, q.raw, r.raw) <=> close
    BY Zenon DEF ConversionEquivalent
  <2>2. <<q.raw, "none">>[1] = q.raw /\ <<q.raw, "none">>[2] = "none" /\ <<r.raw, "none">>[1] = r.raw
        /\ <<r.raw, "none">>[2] = "none"
    OBVIOUS
  <2>3. <<q.raw, "none">> \in check_number_mismatch(c, e)
          <=> q.raw # r.raw /\ ~ ConversionEquivalent(c, e, q.raw, r.raw)
    BY <1>1, <1>2, <2>2, Zenon DEF check_number_mismatch
  <2>4. check_number_mismatch(c, e) \subseteq {<<q.raw, "none">>}
    BY <1>1, Zenon DEF check_number_mismatch
  <2> HIDE DEF close
  <2> QED BY <2>1, <2>3, <2>4
<1>4. ASSUME close PROVE check_unit_mismatch(c, e) = {}
  <2>1. \A u \in Units(c) : BaseEquivalent(c, e, UNIT_MAP[u].type)
    BY <1>1, <1>4, Zenon DEF BaseEquivalent
  <2> QED BY <2>1, Zenon DEF check_unit_mismatch
<1>5. ASSUME ~ close, q.base # r.base, q.raw = r.raw PROVE check_unit_mismatch(c, e) # {}
  <2>1. PICK u \in Units(c) : q.base = q.raw * UNIT_MAP[u].mult /\ q.type = UNIT_MAP[u].type
    BY <1>1
  <2>2. PICK v \in Units(e) : r.type = UNIT_MAP[v].type
    BY <1>2
  <2>3. u \notin Units(e)
    BY <1>2, <1>5, <2>1, Zenon
  <2>4. ~ BaseEquivalent(c, e, UNIT_MAP[u].type)
    BY <1>5, Zenon DEF BaseEquivalent
  <2> DEFINE same == {w \in Units(e) : UNIT_MAP[w].type = UNIT_MAP[u].type}
  <2>5. same # {} /\ u \notin same
    BY <2>1, <2>2, <2>3, Zenon
  <2>6. u \in check_unit_mismatch(c, e)
    BY <2>4, <2>5, Zenon DEF check_unit_mismatch
  <2> QED BY <2>6
<1>6. q.base = r.base => close
  BY DEF Close
<1>7. ASSUME close PROVE q.base = r.base \/ r.base = q.base + 1 \/ q.base = r.base + 1
  <2>1. CASE q.base = r.base
    BY <2>1
  <2>2. CASE {q.base, r.base} \in EqualAtEdge
    <3>1. PICK a \in {q.base, r.base} : {q.base, r.base} = {a, a + 1}
      BY <2>2, EdgeAssumption
    <3> QED BY <3>1
  <2> QED BY <1>7, <2>1, <2>2 DEF Close
<1> HIDE DEF close
<1> QED BY <1>3, <1>4, <1>5, <1>6, <1>7

\* What a denied text reads like, word for word.
LEMMA DeniedWords ==
  ASSUME NEW R, NEW t \in Seq(R), NEW i \in 1 .. Len(t)
  PROVE  /\ DOMAIN Denied(t, i) = 1 .. Len(t) + 1
         /\ Denied(t, i)[i] = Word("not", "not", "none")
         /\ \A j \in 1 .. Len(t) : Denied(t, i)[IF j < i THEN j ELSE j + 1] = t[j]
<1> DEFINE w == Word("not", "not", "none")
           Q == R \cup {w}
           a == SubSeq(t, 1, i - 1)
           b == <<w>>
           d == SubSeq(t, i, Len(t))
<1>1. i \in Nat /\ Len(t) \in Nat /\ 1 <= i /\ i <= Len(t) /\ i - 1 \in Int
  OBVIOUS
<1>2. \A j \in 1 .. Len(t) : t[j] \in Q
  <2>1. \A j \in 1 .. Len(t) : t[j] \in R
    OBVIOUS
  <2> QED BY <2>1, Zenon
<1>3. /\ a \in Seq(Q) /\ Len(a) = i - 1 /\ \A j \in 1 .. i - 1 : a[j] = t[j]
  <2>1. \A j \in 1 .. i - 1 : t[j] \in Q
    <3> HIDE DEF Q
    <3> QED BY <1>1, <1>2
  <2>2. /\ a \in Seq(Q) /\ Len(a) = IF 1 <= i - 1 THEN i - 1 - 1 + 1 ELSE 0
        /\ \A j \in 1 .. i - 1 - 1 + 1 : a[j] = t[1 + j - 1]
    <3> HIDE DEF Q
    <3> QED BY <1>1, <2>1, SubSeqProperties
  <2> HIDE DEF a, Q
  <2> QED BY <1>1, <2>2
<1>4. /\ d \in Seq(Q) /\ Len(d) = Len(t) - i + 1 /\ \A j \in 1 .. Len(t) - i + 1 : d[j] = t[i + j - 1]
  <2>1. \A j \in i .. Len(t) : t[j] \in Q
    <3> HIDE DEF Q
    <3> QED BY <1>1, <1>2
  <2>2. /\ d \in Seq(Q) /\ Len(d) = IF i <= Len(t) THEN Len(t) - i + 1 ELSE 0
        /\ \A j \in 1 .. Len(t) - i + 1 : d[j] = t[i + j - 1]
    <3> HIDE DEF Q
    <3> QED BY <1>1, <2>1, SubSeqProperties
  <2> HIDE DEF d, Q
  <2> QED BY <1>1, <2>2
<1>5. b \in Seq(Q) /\ Len(b) = 1 /\ b[1] = w
  OBVIOUS
<1>6. Denied(t, i) = a \o b \o d
  BY DEF Denied
<1> HIDE DEF a, b, d, w, Q
<1>7. /\ a \o b \in Seq(Q) /\ Len(a \o b) = i
      /\ \A j \in 1 .. i : (a \o b)[j] = IF j <= i - 1 THEN a[j] ELSE b[j - (i - 1)]
  <2>1. /\ a \o b \in Seq(Q) /\ Len(a \o b) = Len(a) + Len(b)
        /\ \A j \in 1 .. Len(a) + Len(b) : (a \o b)[j] = IF j <= Len(a) THEN a[j] ELSE b[j - Len(a)]
    BY <1>3, <1>5, ConcatProperties
  <2>2. Len(a) + Len(b) = i /\ Len(a) = i - 1
    BY <1>1, <1>3, <1>5
  <2> QED BY <2>1, <2>2
<1> DEFINE g == a \o b
<1>8. /\ g \o d \in Seq(Q) /\ Len(g \o d) = Len(t) + 1
      /\ \A j \in 1 .. Len(t) + 1 : (g \o d)[j] = IF j <= i THEN g[j] ELSE d[j - i]
  <2> HIDE DEF g
  <2>0. g \in Seq(Q) /\ Len(g) = i
    BY <1>7 DEF g
  <2>1. /\ g \o d \in Seq(Q) /\ Len(g \o d) = Len(g) + Len(d)
        /\ \A j \in 1 .. Len(g) + Len(d) : (g \o d)[j] = IF j <= Len(g) THEN g[j] ELSE d[j - Len(g)]
    BY <1>4, <2>0, ConcatProperties
  <2>2. Len(g) + Len(d) = Len(t) + 1 /\ Len(g) = i
    BY <1>1, <1>4, <2>0
  <2> QED BY <2>1, <2>2
<1>9. g[i] = w /\ \A j \in 1 .. i - 1 : g[j] = t[j]
  <2>1. ASSUME NEW j \in 1 .. i - 1 PROVE g[j] = t[j]
    <3>1. j \in 1 .. i /\ j <= i - 1
      BY <1>1
    <3> QED BY <1>3, <1>7, <3>1
  <2>2. g[i] = w
    <3>1. i \in 1 .. i /\ ~ (i <= i - 1) /\ i - (i - 1) = 1
      BY <1>1
    <3> QED BY <1>5, <1>7, <3>1
  <2> QED BY <2>1, <2>2
<1> HIDE DEF g
<1> DEFINE s == g \o d
<1>10. DOMAIN s = 1 .. Len(t) + 1
  <2> HIDE DEF s
  <2>1. s \in Seq(Q) /\ Len(s) = Len(t) + 1
    BY <1>8 DEF s
  <2> QED BY <2>1
<1>11. s[i] = w
  <2>1. i \in 1 .. Len(t) + 1 /\ i <= i
    BY <1>1
  <2> QED BY <1>8, <1>9, <2>1
<1>12. ASSUME NEW j \in 1 .. Len(t)
       PROVE  s[IF j < i THEN j ELSE j + 1] = t[j]
  <2>1. CASE j < i
    <3>1. j \in 1 .. Len(t) + 1 /\ j <= i /\ j \in 1 .. i - 1
      BY <1>1, <2>1
    <3> QED BY <1>8, <1>9, <2>1, <3>1
  <2>2. CASE ~ (j < i)
    <3>1. /\ j + 1 \in 1 .. Len(t) + 1 /\ ~ (j + 1 <= i) /\ j + 1 - i \in 1 .. Len(t) - i + 1
          /\ i + (j + 1 - i) - 1 = j
      BY <1>1, <2>2
    <3>2. s[j + 1] = d[j + 1 - i]
      BY <1>8, <3>1
    <3>3. d[j + 1 - i] = t[i + (j + 1 - i) - 1]
      BY <1>4, <3>1
    <3> HIDE DEF s
    <3> QED BY <2>2, <3>1, <3>2, <3>3
  <2> QED BY <2>1, <2>2
<1>13. Denied(t, i) = s
  BY <1>6 DEF s, g
<1> HIDE DEF s
<1> QED BY <1>10, <1>11, <1>12, <1>13 DEF w

\* Where the negations of a text are that the polarity looks at.
Negations(t) == {j \in DOMAIN t : j <= PolarityWindow /\ t[j].k \in NEGATION_WORDS}

\* A denial adds one negation, if the text is shorter than the window.
LEMMA OneMoreNegation ==
  ASSUME NEW R, NEW t \in Seq(R), NEW i \in 1 .. Len(t), Len(t) < PolarityWindow
  PROVE  /\ Cardinality(Negations(t)) \in Nat
         /\ Cardinality(Negations(Denied(t, i))) = Cardinality(Negations(t)) + 1
<1> DEFINE s == Denied(t, i)
           N == Negations(t)
           M == Negations(s) \ {i}
           sh(j) == IF j < i THEN j ELSE j + 1
           F == [j \in N |-> sh(j)]
<1>0. PolarityWindow \in Nat /\ Len(t) \in Nat /\ i \in Nat /\ 1 <= i /\ i <= Len(t)
  BY WindowAssumption
<1>1. /\ DOMAIN s = 1 .. Len(t) + 1
      /\ s[i] = Word("not", "not", "none")
      /\ \A j \in 1 .. Len(t) : s[sh(j)] = t[j]
  BY DeniedWords
<1>2. DOMAIN t = 1 .. Len(t)
  OBVIOUS
<1> HIDE DEF s
<1>3. \A j \in 1 .. Len(t) : sh(j) \in 1 .. Len(t) + 1 /\ sh(j) # i /\ sh(j) <= PolarityWindow
  BY <1>0
<1>4. \A j, k \in 1 .. Len(t) : sh(j) = sh(k) => j = k
  BY <1>0
<1>5. \A m \in 1 .. Len(t) + 1 : m # i => \E j \in 1 .. Len(t) : sh(j) = m
  <2> SUFFICES ASSUME NEW m \in 1 .. Len(t) + 1, m # i
               PROVE  \E j \in 1 .. Len(t) : sh(j) = m
    OBVIOUS
  <2>1. CASE m < i
    <3>1. m \in 1 .. Len(t) /\ sh(m) = m
      BY <1>0, <2>1
    <3> HIDE DEF sh
    <3> QED BY <3>1
  <2>2. CASE ~ (m < i)
    <3>1. m - 1 \in 1 .. Len(t) /\ sh(m - 1) = m
      BY <1>0, <2>2
    <3> HIDE DEF sh
    <3> QED BY <3>1
  <2> QED BY <2>1, <2>2
<1> HIDE DEF sh
<1>6. \A j \in 1 .. Len(t) : j \in N <=> sh(j) \in M
  <2> SUFFICES ASSUME NEW j \in 1 .. Len(t) PROVE j \in N <=> sh(j) \in M
    OBVIOUS
  <2>1. j <= PolarityWindow
    BY <1>0
  <2>2. sh(j) \in DOMAIN s /\ sh(j) # i /\ sh(j) <= PolarityWindow /\ s[sh(j)] = t[j]
    BY <1>1, <1>3
  <2> QED BY <1>2, <2>1, <2>2 DEF Negations
<1>7. N \subseteq 1 .. Len(t) /\ M \subseteq 1 .. Len(t) + 1 /\ i \notin M
  BY <1>1, <1>2 DEF Negations
<1>8. IsFiniteSet(N)
  <2>1. 1 \in Int /\ Len(t) \in Int
    BY <1>0
  <2>2. IsFiniteSet(1 .. Len(t))
    BY <2>1, FS_Interval
  <2> HIDE DEF N
  <2> QED BY <1>7, <2>2, FS_Subset
<1> HIDE DEF N, M
<1>9. F \in Bijection(N, M)
  <2>1. F \in [N -> M]
    BY <1>6, <1>7
  <2>2. \A a, b \in N : F[a] = F[b] => a = b
    BY <1>4, <1>7
  <2>3. \A m \in M : \E j \in N : F[j] = m
    <3> SUFFICES ASSUME NEW m \in M PROVE \E j \in N : F[j] = m
      OBVIOUS
    <3>1. PICK j \in 1 .. Len(t) : sh(j) = m
      BY <1>5, <1>7
    <3>2. j \in N
      BY <1>6, <3>1
    <3> QED BY <3>1, <3>2
  <2> HIDE DEF F
  <2> QED BY <2>1, <2>2, <2>3, Fun_IsBij
<1>10. IsFiniteSet(M) /\ Cardinality(M) = Cardinality(N)
  <2>1. ExistsBijection(N, M)
    BY <1>9 DEF ExistsBijection
  <2> QED BY <1>8, <2>1, FS_Bijection
<1>11. i \in Negations(s)
  <2>1. i \in 1 .. Len(t) + 1 /\ i <= PolarityWindow
    BY <1>0
  <2>2. i \in DOMAIN s
    BY <1>1, <2>1
  <2>3. Word("not", "not", "none").k = "not"
    BY DEF Word
  <2>4. s[i].k = "not"
    BY <1>1, <2>3
  <2> QED BY <2>1, <2>2, <2>4 DEF Negations, NEGATION_WORDS
<1>12. Negations(s) = M \cup {i}
  BY <1>11 DEF M
<1>13. Cardinality(M \cup {i}) = Cardinality(M) + 1
  BY <1>7, <1>10, FS_AddElement
<1>14. Cardinality(N) \in Nat
  BY <1>8, FS_CardinalityType
<1> QED BY <1>10, <1>12, <1>13, <1>14 DEF s, N

\* A denial makes no double negation where there was none.
LEMMA NoNewDouble ==
  ASSUME NEW R, NEW t \in Seq(R), NEW i \in 1 .. Len(t),
         t[i].k = "verb", ~ DoubleNegation(t)
  PROVE  ~ DoubleNegation(Denied(t, i))
<1> DEFINE s == Denied(t, i)
           sh(j) == IF j < i THEN j ELSE j + 1
<1>0. Len(t) \in Nat /\ i \in Nat /\ 1 <= i /\ i <= Len(t) /\ DOMAIN t = 1 .. Len(t)
  OBVIOUS
<1>1. /\ DOMAIN s = 1 .. Len(t) + 1
      /\ s[i] = Word("not", "not", "none")
      /\ \A j \in 1 .. Len(t) : s[sh(j)] = t[j]
  BY DeniedWords
<1> HIDE DEF s
<1> SUFFICES ASSUME NEW j \in DOMAIN s, s[j].v \in {"not", "cannot"}, At(s, j + 1, "un")
             PROVE  FALSE
  BY DEF DoubleNegation, s
<1>2. j + 1 \in 1 .. Len(t) + 1 /\ s[j + 1].k = "un" /\ j \in 1 .. Len(t) + 1
  BY <1>1 DEF At
<1>3. CASE j + 1 < i
  <2>1. j \in 1 .. Len(t) /\ j + 1 \in 1 .. Len(t) /\ sh(j) = j /\ sh(j + 1) = j + 1
    BY <1>0, <1>2, <1>3
  <2>2. s[j] = t[j] /\ s[j + 1] = t[j + 1]
    BY <1>1, <2>1
  <2>3. t[j].v \in {"not", "cannot"} /\ At(t, j + 1, "un")
    BY <1>0, <1>2, <2>1, <2>2 DEF At
  <2> QED BY <1>0, <2>1, <2>3, Zenon DEF DoubleNegation
<1>4. CASE j + 1 = i
  <2>0. Word("not", "not", "none").k = "not"
    BY DEF Word
  <2>1. s[i].k = "not"
    BY <1>1, <2>0
  <2> QED BY <1>2, <1>4, <2>1
<1>5. CASE j = i
  <2>1. sh(i) = i + 1
    BY <1>0
  <2>2. s[i + 1] = t[i]
    BY <1>0, <1>1, <2>1
  <2> QED BY <1>2, <1>5, <2>2
<1>6. CASE j > i
  <2>1. j - 1 \in 1 .. Len(t) /\ j \in 1 .. Len(t) /\ sh(j - 1) = j /\ sh(j) = j + 1
        /\ j - 1 + 1 = j
    BY <1>0, <1>2, <1>6
  <2>2. s[j] = t[j - 1] /\ s[j + 1] = t[j]
    BY <1>1, <2>1
  <2>3. t[j - 1].v \in {"not", "cannot"} /\ At(t, j - 1 + 1, "un")
    BY <1>0, <1>2, <2>1, <2>2 DEF At
  <2> QED BY <1>0, <2>1, <2>3, Zenon DEF DoubleNegation
<1>7. j + 1 < i \/ j + 1 = i \/ j = i \/ j > i
  BY <1>0, <1>2
<1> QED BY <1>3, <1>4, <1>5, <1>6, <1>7

\* A denial is seen, for all texts.
LEMMA DenialSeen ==
  ASSUME NEW R, NEW t \in Seq(R)
  PROVE  DenialFlagged(t)
<1> SUFFICES ASSUME NEW i \in DOMAIN t,
                    t[i].k = "verb", Len(t) < PolarityWindow, ~ At(t, 1, "not"),
                    ~ DoubleNegation(t), i > 1 \/ detect_polarity(t) = "affirmed"
             PROVE  check_negation_reversal(Denied(t, i), t)
  BY DEF DenialFlagged
<1> DEFINE s == Denied(t, i)
           n == Cardinality(Negations(t))
           m == Cardinality(Negations(s))
<1>0. i \in 1 .. Len(t) /\ i \in Nat /\ 1 <= i /\ Len(t) \in Nat /\ DOMAIN t = 1 .. Len(t)
  OBVIOUS
<1>1. /\ DOMAIN s = 1 .. Len(t) + 1
      /\ s[i] = Word("not", "not", "none")
      /\ \A j \in 1 .. Len(t) : s[IF j < i THEN j ELSE j + 1] = t[j]
  BY <1>0, DeniedWords
<1>2. n \in Nat /\ m = n + 1
  BY <1>0, OneMoreNegation
<1>3. ~ DoubleNegation(s)
  BY <1>0, NoNewDouble
<1>4. t # <<>> /\ s # <<>>
  <2> HIDE DEF s
  <2>1. 1 \in 1 .. Len(t) + 1 /\ 1 \in 1 .. Len(t)
    BY <1>0
  <2>2. 1 \in DOMAIN s /\ 1 \in DOMAIN t
    BY <1>0, <1>1, <2>1
  <2>3. DOMAIN <<>> = {}
    OBVIOUS
  <2> QED BY <2>2, <2>3, Zenon
<1> HIDE DEF s
<1>5. detect_polarity(t) = IF n % 2 = 1 THEN "negated" ELSE "affirmed"
  BY <1>4 DEF detect_polarity, Negations
<1>6. detect_polarity(s) = IF At(s, 1, "not") \/ m % 2 = 1 THEN "negated" ELSE "affirmed"
  BY <1>3, <1>4 DEF detect_polarity, Negations
<1> HIDE DEF n, m
<1>7. CASE i = 1
  <2>0. Word("not", "not", "none").k = "not" /\ 1 \in 1 .. Len(t) + 1
    BY <1>0 DEF Word
  <2>3. s[1].k = "not" /\ 1 \in DOMAIN s
    BY <1>1, <1>7, <2>0
  <2>1. At(s, 1, "not")
    BY <2>3 DEF At
  <2>2. detect_polarity(t) = "affirmed"
    BY <1>7
  <2> QED BY <1>6, <2>1, <2>2 DEF check_negation_reversal, s
<1>8. CASE i > 1
  <2>1. s[1] = t[1] /\ 1 \in DOMAIN t /\ 1 \in DOMAIN s
    <3>1. 1 \in 1 .. Len(t) /\ 1 < i /\ 1 \in 1 .. Len(t) + 1
      BY <1>0, <1>8
    <3> QED BY <1>0, <1>1, <3>1
  <2>2. ~ At(s, 1, "not")
    BY <2>1 DEF At
  <2>3. m % 2 = 1 <=> ~ (n % 2 = 1)
    BY <1>2
  <2>4. detect_polarity(s) # detect_polarity(t) /\ detect_polarity(s) # "unknown"
        /\ detect_polarity(t) # "unknown"
    BY <1>5, <1>6, <2>2, <2>3
  <2> QED BY <2>4 DEF check_negation_reversal, s
<1> QED BY <1>0, <1>7, <1>8

\* Nothing is asked about but texts of the constants.
AskedOfTexts ==
  inquiry # NoInquiry =>
    inquiry.evidence \in EvidenceTexts /\ inquiry.claims \in Answers

\* The deterministic checks keep their promises to every claim of every answer
\* and every evidence text: an exchange of two short phrases is seen both ways
\* round, lone quantities are told apart once they differ by more than the
\* tolerance in their base unit and never if they are equal in it, and a denied
\* text is a reversal of the text.
THEOREM ClaimChecksHold == SemSpec => []ClaimChecksSound
<1>1. SemInit => AskedOfTexts
  BY DEF SemInit, AskedOfTexts
<1>2. AskedOfTexts /\ [SemNext]_semVars => AskedOfTexts'
  <2> SUFFICES ASSUME AskedOfTexts, [SemNext]_semVars PROVE AskedOfTexts' OBVIOUS
  <2>1. CASE Ask
    <3>1. PICK a \in Answers, e \in EvidenceTexts, p \in Profiles :
            inquiry' = [profile |-> p, claims |-> a, evidence |-> e]
      BY <2>1 DEF Ask
    <3> QED BY <3>1 DEF AskedOfTexts
  <2>2. CASE UNCHANGED inquiry
    BY <2>2 DEF AskedOfTexts
  <2> QED BY <2>1, <2>2 DEF SemNext, semVars, CheckRules, JudgeAnswers, JudgeFails, SkipJudge, Score
<1>3. AskedOfTexts => ClaimChecksSound
  <2> SUFFICES ASSUME AskedOfTexts, NEW i \in DOMAIN inquiry.claims
               PROVE  /\ ReversalMutual(inquiry.claims[i], inquiry.evidence)
                      /\ QuantitiesByBase(inquiry.claims[i], inquiry.evidence)
                      /\ DenialFlagged(inquiry.claims[i])
    BY DEF ClaimChecksSound
  <2>1. inquiry # NoInquiry
    BY DEF NoInquiry
  <2>2. inquiry.evidence \in EvidenceTexts /\ inquiry.claims \in Answers
    BY <2>1 DEF AskedOfTexts
  <2> DEFINE Words(t) == {t[n] : n \in DOMAIN t}
  <2>3. inquiry.evidence \in Seq(Words(inquiry.evidence))
    BY <2>2, TextsAssumption
  <2>4. inquiry.claims[i] \in Seq(Words(inquiry.claims[i]))
    BY <2>2, TextsAssumption
  <2> HIDE DEF Words
  <2> QED BY <2>3, <2>4, MutualReversal, ByBase, DenialSeen
<1> QED BY <1>1, <1>2, <1>3, PTL DEF SemSpec

=============================================================================
