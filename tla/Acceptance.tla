----------------------------- MODULE Acceptance -----------------------------
(***************************************************************************)
(* From generated candidates to accepted examples: ProjectService turns a  *)
(* candidate into an example, every validator of quality/validators.py and *)
(* the artifact diagnosis assess it, assemble_decision folds the scores    *)
(* into a decision, and only accepted examples are kept.  Scores are in    *)
(* hundredths; floors of fractions are exact against whole thresholds.     *)
(***************************************************************************)
EXTENDS Preference

CONSTANTS Candidates,   \* generated candidates
          SpanTexts,    \* span id -> set of content words of its text
          MaxBatch      \* candidates of one pipeline run

VARIABLES batch,     \* candidates still to be validated
          results,   \* decisions taken, with their example
          examples,  \* examples kept
          report,    \* what the run says of itself
          runStep

acceptVars == <<batch, results, examples, report, runStep>>

Critical == {"grounding", "schema", "answerability", "instruction_fulfillment",
             "semantic_consistency"}
Msg(role, text) == [role |-> role, text |-> text]

-----------------------------------------------------------------------------
(* Examples *)

Roles(msgs, roles) == SelectSeq(msgs, LAMBDA m : m.role \in roles)

\* A candidate is [topology, messages, chosen, rejected, spans, split].  The
\* system messages of an SFT candidate leave the message lists; the last
\* message of a KTO candidate is its answer.
ToExample(c) ==
  LET lists ==
    CASE c.topology = "preference" ->
           [prompt |-> <<Msg("user", IF c.messages = <<>> THEN Empty ELSE Head(c.messages).text)>>,
            chosen |-> c.chosen, rejected |-> c.rejected]
      [] c.topology = "kto" ->
           LET n == Len(c.messages)
           IN  [prompt |-> SubSeq(c.messages, 1, n - 1),
                chosen |-> SubSeq(c.messages, n, n), rejected |-> <<>>]
      [] OTHER -> [prompt |-> Roles(c.messages, {"user"}),
                   chosen |-> Roles(c.messages, {"assistant"}), rejected |-> <<>>]
  IN  [topology |-> c.topology, prompt |-> lists.prompt, chosen |-> lists.chosen,
       rejected |-> lists.rejected, spans |-> c.spans, split |-> c.split]

_assistant_text(ex) ==
  LET from == IF ex.chosen # <<>> THEN ex.chosen ELSE ex.prompt
      said == Roles(from, {"assistant"})
  IN  IF said = <<>> THEN Empty ELSE said[1].text

AllMessages(ex) == ex.prompt \o ex.chosen \o ex.rejected

\* The joined text of the user and system messages: what is asked of it.
_prompt_text(ex) ==
  LET asked == Roles(AllMessages(ex), {"user", "system"})
      total[n \in 0 .. Len(asked)] == IF n = 0 THEN 0 ELSE total[n - 1] + asked[n].text.words
  IN  [tokens |-> UNION {asked[i].text.tokens : i \in DOMAIN asked}, words |-> total[Len(asked)],
       injected |-> \E i \in DOMAIN asked : asked[i].text.manner = "injection"]

\* Texts are finite.
ASSUME AcceptanceAssumption ==
  /\ MaxBatch \in Nat
  /\ \A c \in Candidates : /\ IsFiniteSet(_assistant_text(ToExample(c)).tokens)
                           /\ IsFiniteSet(_prompt_text(ToExample(c)).tokens)

\* Evidence: the words of the cited spans that have a text.
Cited(ex, texts) == UNION {texts[s] : s \in ex.spans \cap DOMAIN texts}

-----------------------------------------------------------------------------
(* Validators *)

\* A validator's score is verified only at or above its own floor.
Assess(name, score, floor) ==
  [name |-> name, score |-> score, verify |-> IF score >= floor THEN "verified" ELSE "failed"]

\* Twice the share of unsupported words is lost; an answer without content
\* words, or without evidence, has no grounding.
_fractional_overlap(answer, evidence) ==
  LET all == Cardinality(answer.tokens)
      loose == Cardinality(answer.tokens \ evidence)
      kept == 100 * all - 200 * loose
  IN  IF all = 0 \/ evidence = {} \/ kept < 0 THEN 0 ELSE kept \div all

Grounding(ex, texts) ==
  Assess("grounding", _fractional_overlap(_assistant_text(ex), Cited(ex, texts)), 90)

\* Answer words per prompt word between 1/20 and 8.
Completeness(ex) ==
  LET a == _assistant_text(ex).words
      p == AtLeast1(_prompt_text(ex).words)
  IN  Assess("completeness",
             IF a = 0 THEN 0 ELSE IF 20 * a >= p /\ a <= 8 * p THEN 100 ELSE 60, 80)

Format(ex) ==
  LET a == _assistant_text(ex)
  IN  Assess("format", IF a.words = 0 THEN 0 ELSE IF a.manner = "long" THEN 70 ELSE 100, 80)

IsRefusal(ex) == _assistant_text(ex).manner \in {"refusal", "unable"}

Refusal(ex, texts) ==
  Assess("refusal", IF IsRefusal(ex) /\ Cited(ex, texts) # {} THEN 30 ELSE 100, 80)

SaidBy(msgs, role) == \E i \in DOMAIN msgs : msgs[i].role = role

\* Mutant: a citation that does not resolve is ignored.
SchemaOKUnresolved(ex, texts) ==
  /\ \A i \in DOMAIN AllMessages(ex) : AllMessages(ex)[i].text.words > 0
  /\ SaidBy(ex.chosen, "assistant") /\ ex.spans # {}

SchemaOK(ex, texts) ==
  /\ \A i \in DOMAIN AllMessages(ex) : AllMessages(ex)[i].text.words > 0
  /\ SaidBy(ex.chosen, "assistant")
  /\ IF ex.topology = "preference" THEN SaidBy(ex.rejected, "assistant")
     ELSE ex.prompt = <<>> \/ ex.prompt[1].role \in {"system", "user"}
  /\ ex.spans # {} /\ ex.spans \subseteq DOMAIN texts

Schema(ex, texts) == Assess("schema", IF SchemaOK(ex, texts) THEN 100 ELSE 0, 90)

\* A refusal is judged by its prompt: a fifth of the prompt's words in the
\* evidence make it false.
Answerability(ex, texts) ==
  LET e == Cited(ex, texts)
      p == _prompt_text(ex).tokens
      answerable == p # {} /\ 100 * Cardinality(p \cap e) >= 20 * Cardinality(p)
  IN  Assess("answerability",
             IF e = {} THEN 0 ELSE IF IsRefusal(ex) /\ answerable THEN 30 ELSE 100, 80)

\* What can contradict a claim of the answer: a verdict that gives a reason code,
\* or one that gives none, as a judge may (module Semantic).
Contradictory == {"reasoned", "bare"}

\* Without evidence or answer it fails; otherwise the reason codes of the
\* contradictions decide, not the contradictions.
SemanticConsistency(ex, texts, contradicted) ==
  Assess("semantic_consistency",
         IF Cited(ex, texts) = {} \/ _assistant_text(ex).words = 0 \/ "reasoned" \in contradicted
         THEN 0 ELSE 100, 90)

\* The answer of one side of a pair, which is one assistant message.
_preference_texts(msgs) ==
  IF SaidBy(msgs, "assistant") THEN Roles(msgs, {"assistant"})[1].text ELSE Empty

\* The artifact diagnosis executes without a floor of its own, so its state
\* stays unverified; the policy holds its score against 75.
diagnose_example(ex) ==
  LET a == _assistant_text(ex)
      p == _prompt_text(ex)
      c == _preference_texts(ex.chosen)
      r == _preference_texts(ex.rejected)
      pairwise == ex.topology = "preference"
      lost == (IF a.manner = "injection" \/ p.injected THEN 40 ELSE 0)
            + (IF pairwise /\ ~ check_length_band(c, r) THEN 20 ELSE 0)
            + (IF pairwise /\ preference_is_trivially_separable(c, r) THEN 30 ELSE 0)
            + (IF ex.topology = "sft" /\ a.words = 0 THEN 50 ELSE 0)
            + (IF a.manner = "refusal" /\ ~ p.injected /\ p.words > 0 /\ ex.spans # {} THEN 20 ELSE 0)
  IN  [name |-> "artifact_resistance", score |-> IF lost > 100 THEN 0 ELSE 100 - lost,
       verify |-> "unverified"]

default_validators(ex, texts, contradicted) ==
  {Grounding(ex, texts), Completeness(ex), Format(ex), Refusal(ex, texts), Schema(ex, texts),
   Answerability(ex, texts), SemanticConsistency(ex, texts, contradicted)}

-----------------------------------------------------------------------------
(* The decision *)

\* Completeness stands in for instruction fulfilment; a preference signal
\* nobody assessed counts 0 and unverified.
Dimensions(assessed, is_preference) ==
  LET names == {a.name : a \in assessed}
      by(n) == CHOOSE a \in assessed : a.name = n
  IN  assessed
      \cup (IF "completeness" \in names /\ "instruction_fulfillment" \notin names
            THEN {[by("completeness") EXCEPT !.name = "instruction_fulfillment"]} ELSE {})
      \cup (IF is_preference /\ "preference_signal" \notin names
            THEN {[name |-> "preference_signal", score |-> 0, verify |-> "unverified"]} ELSE {})

ScoreOf(dims, n) == IF \E d \in dims : d.name = n THEN (CHOOSE d \in dims : d.name = n).score ELSE 0

Total(dims) ==
  LET sum[S \in SUBSET dims] ==
        IF S = {} THEN 0 ELSE LET d == CHOOSE x \in S : TRUE IN d.score + sum[S \ {d}]
  IN  sum[dims]

\* AcceptancePolicy.assess: the floors that decide beside the critical ones.
PolicyAccepts(dims, is_preference) ==
  /\ ScoreOf(dims, "grounding") >= 90
  /\ ScoreOf(dims, "instruction_fulfillment") >= 80
  /\ Total(dims) >= 82 * AtLeast1(Cardinality(dims))
  /\ is_preference => ScoreOf(dims, "preference_signal") >= 70
  /\ ScoreOf(dims, "artifact_resistance") >= 75

InState(dims, state) == {n \in Critical : \E d \in dims : d.name = n /\ d.verify = state}

assemble_decision(assessed, is_preference) ==
  LET dims == Dimensions(assessed, is_preference)
      status == IF InState(dims, "failed") # {} THEN "rejected"
                ELSE IF InState(dims, "verified") = Critical /\ PolicyAccepts(dims, is_preference)
                     THEN "accepted" ELSE "review"
  IN  [status |-> status, dims |-> dims]

\* ProjectService._validate, and the body of Workspace.validate_dataset.
_validate(ex, texts, contradicted) ==
  assemble_decision(default_validators(ex, texts, contradicted) \cup {diagnose_example(ex)},
                    ex.topology = "preference")

-----------------------------------------------------------------------------
(* A pipeline run *)

NoReport == [total |-> 0, accepted |-> 0, rejected |-> 0, review |-> 0,
             train |-> 0, validation |-> 0, test |-> 0]

AcceptInit == batch = <<>> /\ results = <<>> /\ examples = {} /\ report = NoReport
              /\ runStep = "idle"

Generate ==
  /\ runStep = "idle" /\ runStep' = "generated"
  /\ \E n \in 1 .. MaxBatch : \E b \in [1 .. n -> Candidates] : batch' = b
  /\ UNCHANGED <<results, examples, report>>

\* The decision just taken, kept or not.
Kept(status) == IF status = "accepted" THEN examples \cup {Len(results) + 1} ELSE examples

\* One candidate: assessed against the texts of all spans of the run, kept
\* only when accepted.  What contradicts its claims is left open.
ValidateNext ==
  /\ runStep = "generated" /\ batch # <<>> /\ batch' = Tail(batch)
  /\ \E contradicted \in SUBSET Contradictory :
       LET ex == ToExample(Head(batch))
           decision == _validate(ex, SpanTexts, contradicted)
           entry == [ex |-> ex, contradicted |-> contradicted, decision |-> decision]
       IN  /\ results' = Append(results, entry)
           /\ examples' = Kept(decision.status)
  /\ UNCHANGED <<report, runStep>>

Tally(which) == Cardinality({i \in DOMAIN results : results[i].decision.status = which})
InSplit(s) == Cardinality({i \in examples : results[i].ex.split = s})

\* The quality report and the counts of the version the run creates.
Finish ==
  /\ runStep = "generated" /\ batch = <<>> /\ runStep' = "done"
  /\ report' = [total |-> Len(results), accepted |-> Tally("accepted"),
                rejected |-> Tally("rejected"), review |-> Tally("review"),
                train |-> InSplit("train"), validation |-> InSplit("validation"),
                test |-> InSplit("test")]
  /\ UNCHANGED <<batch, results, examples>>

AcceptNext == Generate \/ ValidateNext \/ Finish

AcceptSpec == AcceptInit /\ [][AcceptNext]_acceptVars

-----------------------------------------------------------------------------

\* What is kept: every cited span exists, at most one answer word in twenty
\* is missing from the cited text, the answer is no refusal of a question
\* the evidence answers, and no contradiction of its claims gave a reason.
AcceptedIsCertified ==
  \A i \in examples :
    LET ex == results[i].ex
        a == _assistant_text(ex).tokens
    IN  /\ ex.spans # {} /\ ex.spans \subseteq DOMAIN SpanTexts
        /\ 20 * Cardinality(a \ Cited(ex, SpanTexts)) <= Cardinality(a)
        /\ a # {} /\ "reasoned" \notin results[i].contradicted
        /\ IsRefusal(ex) =>
             LET p == _prompt_text(ex).tokens
             IN  5 * Cardinality(p \cap Cited(ex, SpanTexts)) < Cardinality(p) \/ p = {}

=============================================================================
