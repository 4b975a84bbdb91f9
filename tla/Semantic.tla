------------------------------ MODULE Semantic ------------------------------
(***************************************************************************)
(* The semantic consistency check of one answer (quality/semantic.py and   *)
(* SemanticConsistencyValidator): rules first, a model judge for the       *)
(* claims the rules leave open, a merge in which the rules win, a score.   *)
(* The judge is outside: it may answer late, answer garbage, skip claims,  *)
(* repeat them or invent claims.  Which spans an assessment supports is    *)
(* left out: the validator names none to the verifier.                     *)
(***************************************************************************)
EXTENDS Claims

CONSTANTS Answers,        \* answers: sequences of claim texts
          EvidenceTexts,  \* what the cited spans say
          Items,          \* verdicts a judge may put in its array
          MaxItems        \* longest array of a judge

\* Texts are finite sequences of words.
ASSUME TextsAssumption ==
  \A t \in EvidenceTexts \cup UNION {{a[i] : i \in DOMAIN a} : a \in Answers} :
     t \in Seq({t[i] : i \in DOMAIN t})

\* Ids that are no integers are skipped unread (the int() in _call_model).
ASSUME ItemsAssumption == (\A item \in Items : item.id \in Int) /\ MaxItems \in Nat

VARIABLES inquiry,   \* the answer's claims, the evidence and the profile
          ruled,     \* what the rules say of each claim
          array,     \* what the judge sends, empty if nothing usable
          judged,    \* what is made of it: assessments of open claims, in order
          outcome,   \* the merged verdicts and the score
          step       \* how far the inquiry is

semVars == <<inquiry, ruled, array, judged, outcome, step>>

Profiles == {"offline-fast", "certified-semantic"}
Verdicts == {"entailed", "contradicted", "insufficient", "unverified"}
NoInquiry == [profile |-> "none", claims |-> <<>>, evidence |-> <<>>]

SemInit == /\ inquiry = NoInquiry /\ step = "idle"
           /\ ruled = <<>> /\ array = <<>> /\ judged = <<>>
           /\ outcome = [verdicts |-> <<>>, score |-> 0]

\* Only a causal statement with a subject before its marker is typed causal.
ClaimType(c) == IF \E i \in Indexes(c, "cause") \cup Indexes(c, "passive") : i > 1
                THEN "causal" ELSE "other"

RuleCodes(c, e) ==
  (IF check_unsupported_entities(c, e) # {} THEN {"unsupported_entity"} ELSE {})
  \cup (IF ClaimType(c) = "causal" /\ CausalReversal(c, e)
        THEN {"causal_direction_reversal"} ELSE {})
  \cup (IF check_entity_role_reversal(c, e) THEN {"subject_object_reversal"} ELSE {})
  \cup (IF check_negation_reversal(c, e) THEN {"negation_reversal"} ELSE {})
  \cup (IF check_number_mismatch(c, e) # {} THEN {"number_mismatch"} ELSE {})
  \cup (IF check_unit_mismatch(c, e) # {} THEN {"unit_mismatch"} ELSE {})

Assessment(c, v, codes, by) == [claim |-> c, verdict |-> v, codes |-> codes, by |-> by]

\* The rules can only demote: no rule firing is "unverified".
RuleVerdict(c, e) ==
  LET codes == RuleCodes(c, e)
  IN  Assessment(c, IF codes # {} THEN "contradicted" ELSE "unverified", codes, "rules")

\* A certified profile cannot be built without a judge, so every inquiry of
\* one has it.
Ask ==
  /\ step = "idle" /\ step' = "asked"
  /\ \E a \in Answers, e \in EvidenceTexts, p \in Profiles :
        inquiry' = [profile |-> p, claims |-> a, evidence |-> e]
  /\ UNCHANGED <<ruled, array, judged, outcome>>

CheckRules ==
  /\ step = "asked" /\ step' = "ruled"
  /\ ruled' = [i \in DOMAIN inquiry.claims |-> RuleVerdict(inquiry.claims[i], inquiry.evidence)]
  /\ UNCHANGED <<inquiry, array, judged, outcome>>

Without(texts, bad) == SelectSeq(texts, LAMBDA c : c \notin bad)

\* Claims whose text the rules contradicted are not shown to the judge; it
\* numbers the others from 0.
OpenClaims ==
  Without(inquiry.claims,
          {inquiry.claims[i] : i \in {j \in DOMAIN ruled : ruled[j].verdict = "contradicted"}})

JudgeFailed(why) ==
  [i \in 1 .. Len(OpenClaims) |-> Assessment(OpenClaims[i], "unverified", {why}, "judge")]

\* An unknown verdict is "unverified".
Heard(c, item) ==
  Assessment(c, IF item.verdict \in Verdicts THEN item.verdict ELSE "unverified", item.codes, "judge")

\* The claim an item is about, if it is one the judge was shown.
About(item) == item.id + 1
Shown(item) == About(item) \in 1 .. Len(OpenClaims)

\* The first item for each claim shown counts, in the order of the array; the
\* claims it skips follow as unverified.  Positions only give the order here, so
\* those of the items passed over stay empty.
JudgeReply(items) ==
  LET heeded  == {n \in DOMAIN items :
                    Shown(items[n]) /\ \A m \in 1 .. n - 1 : items[m].id # items[n].id}
      skipped == {i \in 1 .. Len(OpenClaims) : \A n \in DOMAIN items : About(items[n]) # i}
  IN  [n \in heeded \cup {Len(items) + i : i \in skipped} |->
         IF n \in heeded THEN Heard(OpenClaims[About(items[n])], items[n])
         ELSE Assessment(OpenClaims[n - Len(items)], "unverified", {"judge_no_verdict"}, "judge")]

JudgeAnswers ==
  /\ step = "ruled" /\ step' = "judged"
  /\ inquiry.profile = "certified-semantic" /\ OpenClaims # <<>>
  /\ \E n \in 0 .. MaxItems : array' \in [1 .. n -> Items]
  /\ judged' = JudgeReply(array')
  /\ UNCHANGED <<inquiry, ruled, outcome>>

\* A timeout, a provider error or output that is no JSON array.
JudgeFails ==
  /\ step = "ruled" /\ step' = "judged"
  /\ inquiry.profile = "certified-semantic" /\ OpenClaims # <<>>
  /\ judged' = JudgeFailed("model_verifier_failed")
  /\ UNCHANGED <<inquiry, ruled, array, outcome>>

\* The offline profile, and an answer with no open claim, ask nobody.
SkipJudge ==
  /\ step = "ruled" /\ step' = "judged"
  /\ inquiry.profile = "offline-fast" \/ OpenClaims = <<>>
  /\ judged' = <<>>
  /\ UNCHANGED <<inquiry, ruled, array, outcome>>

\* Mutants: the judge wins; verdicts are matched by position.
MergedJudgeWins ==
  [i \in DOMAIN ruled |->
     IF judged # <<>> /\ i \in DOMAIN judged THEN judged[i]
     ELSE [ruled[i] EXCEPT !.verdict = "unverified"]]

MergedByPosition ==
  [i \in DOMAIN ruled |->
     IF ruled[i].verdict = "contradicted" \/ i \notin DOMAIN judged THEN ruled[i] ELSE judged[i]]

\* Rule contradictions stand; otherwise the judge's first assessment of the
\* same text, if there is one.
Merged ==
  [i \in DOMAIN ruled |->
     LET same == {n \in DOMAIN judged : judged[n].claim = ruled[i].claim}
     IN  IF ruled[i].verdict = "contradicted" \/ same = {} THEN ruled[i]
         ELSE judged[Least(same)]]

Contradictions(m) == {i \in DOMAIN m : m[i].verdict = "contradicted"}
Reasons(m) == UNION {m[i].codes : i \in Contradictions(m)}

\* The dimension fails exactly when some contradiction carries a code.
ConsistencyScore(m) == IF Reasons(m) # {} THEN 0 ELSE 100

Score ==
  /\ step = "judged" /\ step' = "scored"
  /\ outcome' = [verdicts |-> Merged, score |-> ConsistencyScore(Merged)]
  /\ UNCHANGED <<inquiry, ruled, array, judged>>

SemNext == Ask \/ CheckRules \/ JudgeAnswers \/ JudgeFails \/ SkipJudge \/ Score

SemSpec == SemInit /\ [][SemNext]_semVars

-----------------------------------------------------------------------------

Done == step = "scored"
Final == outcome.verdicts

\* What the rules contradict stays contradicted and fails the dimension,
\* whatever the judge answers (CompositeSemanticVerifier.assess_claims).
RulesAreFinal ==
  Done => \A i \in DOMAIN ruled : ruled[i].verdict = "contradicted" =>
            Final[i] = ruled[i] /\ outcome.score = 0

\* The items of the judge's array about a text.
ItemsAbout(text) == {n \in DOMAIN array : Shown(array[n]) /\ OpenClaims[About(array[n])] = text}

\* The verdict the first of them gives, if it is one.
FirstVerdict(text) ==
  LET mine == ItemsAbout(text)
  IN  IF mine # {} /\ array[Least(mine)].verdict \in Verdicts
      THEN array[Least(mine)].verdict ELSE "unverified"

\* A judge's verdict reaches the claims it is about and no other: a claim the
\* rules leave open ends with the verdict of the first item of the judge's array
\* about a claim of its text, and unverified if there is none, however the array
\* repeats, skips, reorders or invents claims (CompositeSemanticVerifier).
VerdictIsTheClaims ==
  Done => \A i \in DOMAIN inquiry.claims :
            /\ Final[i].claim = inquiry.claims[i]
            /\ ruled[i].verdict # "contradicted" => Final[i].verdict = FirstVerdict(inquiry.claims[i])

\* The checks of Claims on every claim asked about.
ClaimChecksSound ==
  \A i \in DOMAIN inquiry.claims :
     /\ ReversalMutual(inquiry.claims[i], inquiry.evidence)
     /\ QuantitiesByBase(inquiry.claims[i], inquiry.evidence)
     /\ DenialFlagged(inquiry.claims[i])

=============================================================================
