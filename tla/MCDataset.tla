----------------------------- MODULE MCDataset -----------------------------
(* The making of a dataset on small instances, one scene per behaviour: a    *)
(* claim, a preference pair or a batch of candidates is judged; a plan is    *)
(* made; sources are split; examples are reviewed and frozen in versions;    *)
(* rights are cleared; rows are exported; a release is bundled and verified; *)
(* a document is cut into chunks.                                            *)
EXTENDS Curation, Semantic, Acceptance, Planning, Licensing, Release, Chunking

(* Claims and evidence *)
Name(x) == Word("name", x, "none")
Verb(x) == Word("verb", x, "none")
Not == Word("not", "not", "none")
Bob == Name("Bob")
Ann == Name("Ann")
Cable(n, unit) == <<Verb("cable"), Amount(n, unit)>>
Depot(x, y) == <<Verb(x), Verb("ships"), Verb("parts"), Verb(y)>>
Triggers == Marker("cause", "triggers", 10)
ClaimTexts ==
  { <<Bob, Verb("pays"), Ann>>, <<Ann, Verb("pays"), Bob>>,
    Cable(2, "meters"), Cable(200, "cm"), Cable(2, "cm"), Cable(3, "meters"),
    Cable(1, "mm"), Cable(2, "mm"), Cable(9, "mm"), Cable(1, "cm"),
    Cable(2, "ms"), <<Verb("cable"), Verb("meters")>>,
    Cable(2, "meters") \o <<Amount(3, "meters")>>, <<Not, Verb("cable")>>,
    <<Verb("stock"), Not, Word("un", "instock", "none")>>,
    <<Word("fill", "the", "cap"), Verb("alarm"), Triggers, Verb("stop")>>,
    <<Verb("stop"), Marker("passive", "caused", 2), Verb("alarm")>>,
    <<Verb("alarm"), Triggers, Verb("stop"), Marker("cause", "causes", 1), Verb("loss")>>,
    <<Word("fill", "the", "cap"), Verb("team"), Verb("pays"), Ann, Verb("pays"), Bob>>,
    Depot("depot", "plant"), Depot("plant", "depot"), <<>> }
MCAnswers ==
  {<<t>> : t \in ClaimTexts}
  \cup {<<t, u>> : t \in {<<Bob, Verb("pays"), Ann>>, Cable(2, "meters")},
                  u \in {Cable(200, "cm"), Cable(2, "meters")}}
MCEvidence == ClaimTexts \ {<<>>}
MCItems == [id : 0..2, verdict : {"entailed", "contradicted", "maybe"},
            codes : {{}, {"c"}}]

(* Preference pairs and the replies of a judge *)
Said(tokens, words, manner) == Text(tokens, words, <<0, 0, 0, 0, 0>>, manner)
Plainly(tokens, words) == Said(tokens, words, "plain")
Good == Plainly(1..5, 6)
Near == Plainly({1, 2, 3, 6, 7}, 6)
Far == Plainly(6..9, 6)
Pair(c, r, alike) == [chosen |-> c, rejected |-> r, alike |-> alike]
MCPairs ==
  { Pair(Good, Far, 20), Pair(Good, Near, 40), Pair(Good, Good, 100),
    Pair(Good, Plainly(1..5, 7), 90),
    Pair(Plainly(1..5, 16), Plainly({1, 2, 3, 4}, 6), 50),
    Pair(Plainly(1..5, 11), Plainly(1..6, 7), 50),
    Pair(Said(1..5, 6, "boilerplate"), Far, 10),
    Pair(Plainly({1, 2}, 3), Far, 10), Pair(Empty, Far, 0), Pair(Good, Empty, 0),
    Pair(Text(1..5, 6, <<2, 0, 0, 0, 0>>, "plain"), Far, 20),
    Pair(Plainly(1..9, 15), Plainly({1, 20, 21, 22}, 6), 20) }
Defect == "contradicts_evidence"
Reply(q, preferred, defects) ==
  [first_quality |-> q[1], second_quality |-> q[2], preferred |-> preferred,
   defects_first |-> defects[1], defects_second |-> defects[2]]
MCReplies ==
  {Reply(q, p, d) : q \in {<<50, 10>>, <<10, 50>>, <<34, 30>>, <<50, 45>>, <<20, 20>>},
                    p \in {"first", "second", "tie"},
                    d \in {<<{Defect}, {}>>, <<{}, {Defect}>>, <<{"style_only_difference"}, {}>>}}

(* Candidates *)
MCSpanTexts == [s1 |-> 1..20, s2 |-> 30..40, s0 |-> {}]
Asked(t) == Msg("user", t)
Answered(t) == Msg("assistant", t)
Question == Plainly({1, 40}, 4)
Unrelated == Plainly({50, 51, 52}, 4)
Cand(topology, messages, chosen, rejected, split) ==
  [topology |-> topology, messages |-> messages, chosen |-> chosen, rejected |-> rejected,
   spans |-> {"s1"}, split |-> split]
Sft(q, a) == Cand("sft", <<Asked(q), Answered(a)>>, <<>>, <<>>, "train")
Citing(spans, a) == [Sft(Question, a) EXCEPT !.spans = spans]
MCCandidates ==
  { Sft(Question, a) : a \in
      { Good, Plainly(1..20 \cup {99}, 30), Plainly(2..20 \cup {99}, 25), Plainly(3..20 \cup {99}, 25),
        Plainly(30..34, 5), Said({1}, 4, "refusal"), Said({1, 2}, 30, "long"), Plainly({1}, 50), Empty,
        Said({1, 2}, 5, "injection"), Plainly({}, 3) } }
  \cup {Sft(Unrelated, Said({1}, 4, m)) : m \in {"refusal", "unable"}}
  \cup {Citing(s, Good) : s \in {{}, {"zz"}, {"s1", "zz"}, {"s0"}}}
  \cup { Citing({"s1", "s2"}, Plainly({1, 2, 30, 31}, 5)),
         Sft(Said({1, 2}, 5, "injection"), Good),
         Cand("sft", <<Msg("system", Question), Asked(Unrelated), Answered(Good)>>, <<>>, <<>>, "test"),
         Cand("kto", <<Asked(Question), Answered(Good)>>, <<>>, <<>>, "validation"),
         Cand("kto", <<Answered(Good), Asked(Question)>>, <<>>, <<>>, "validation"),
         Cand("kto", <<Answered(Good)>>, <<>>, <<>>, "test"),
         Cand("evaluation", <<Asked(Question), Answered(Empty)>>, <<>>, <<>>, "test"),
         Cand("evaluation", <<Asked(Question), Answered(Good)>>, <<>>, <<>>, "test"),
         Cand("preference", <<Asked(Question)>>, <<Answered(Good)>>, <<Answered(Far)>>, "train"),
         Cand("preference", <<Asked(Question)>>, <<Answered(Good)>>, <<Asked(Far)>>, "train"),
         Cand("preference", <<>>, <<Answered(Plainly(1..20, 30))>>, <<Answered(Far)>>, "train") }

(* Plans *)
Comp(t, f, d) == [topology |-> t, family |-> f, difficulty |-> d]
MCCompositions ==
  { Comp(<<>>, <<>>, <<>>),
    Comp(<<>>, <<<<"fact", 5>>, <<"procedure", 3>>, <<"comparison", 2>>>>, <<>>),
    Comp(<<<<"sft", 1>>, <<"kto", 1>>>>, <<>>, <<<<"basic", 1>>>>),
    Comp(<<<<"sft", 1>>, <<"other", 9>>>>, <<<<"fact", 0>>, <<"procedure", 1>>>>,
         <<<<"basic", 1>>, <<"advanced", 2>>>>),
    Comp(<<<<"other", 1>>>>, <<>>, <<>>),
    Comp(<<>>, <<<<"fact", 0>>>>, <<>>) }

(* Sources, groups and buckets *)
Src(i, g, t) == [id |-> i, group |-> g, time |-> t]
MCSources == {Src("a", "g", 1), Src("b", "g", 3), Src("c", "h", 2), Src("d", "", 2)}
Keys == {"g", "h", "d"}
MCBucketMaps == {f \in [Keys \cup {"a", "b", "c"} -> SplitNames] :
                   f["a"] = "train" /\ f["b"] = "test" /\ f["c"] = "validation"}
MCManualMaps == { [x \in {"g"} |-> "test"], [x \in {"a", "g"} |-> IF x = "a" THEN "train" ELSE "test"],
                  [x \in {"a", "h"} |-> IF x = "a" THEN "nowhere" ELSE "validation"] }

(* Documents: licences and texts *)
Doc(i, l, k, t) == [id |-> i, licence |-> l, kind |-> k, text |-> t]
Id(k, short, context, valid) == [kind |-> k, short |-> short, context |-> context, valid |-> valid]
Mail == Id("email", FALSE, FALSE, TRUE)
MCDocuments ==
  { Doc("d2", "cc-by", "binary", <<Mail, Mail>>),
    Doc("d3", "cc-by-nc-nd", "text", <<Mail>>),
    Doc("d4", "gpl-3.0", "text", <<>>),
    Doc("d5", "limited use", "text", <<Id("credit_card", FALSE, FALSE, TRUE)>>),
    Doc("d6", "", "text", <<Id("ipv4", FALSE, TRUE, FALSE), Id("phone", FALSE, FALSE, TRUE)>>) }
MCMentions == [x \in {d.licence : d \in MCDocuments} |->
                 CASE x = "cc-by-nc-nd" -> {"cc-by"} [] x = "limited use" -> {"mit"}
                   [] x \in {"", "gpl-3.0"} -> {} [] OTHER -> {x}]

(* Examples, lineage and damage *)
Turn(r, c) == [role |-> r, content |-> c]
Gen(t, m, l) == [topology |-> t, messages |-> m, label |-> l]
MCGenerated ==
  { Gen("sft", <<Turn("system", "s"), Turn("user", "q"), Turn("assistant", "a")>>, "none"),
    Gen("kto", <<Turn("user", "q"), Turn("assistant", "a")>>, "bad"),
    Gen("preference", <<Turn("user", "q"), Turn("assistant", "a"), Turn("rejected", "r")>>, "none"),
    Gen("evaluation", <<Turn("user", "q"), Turn("assistant", "")>>, "none"),
    Gen("sft", <<Turn("user", "q"), Turn("assistant", "a"), Turn("user", "p"), Turn("assistant", "b")>>,
        "none") }
Line(d, s, c) == [docs |-> d, spans |-> s, cands |-> c]
Offer0(g, p, s, l) == [made |-> g, project |-> p, split |-> s, line |-> l]
Kto == CHOOSE g \in MCGenerated : g.topology = "kto"
LineP == Line({"x1"}, {"s1"}, {"c1"})
MCOffers ==
  {Offer0(g, "P", "train", LineP) : g \in MCGenerated}
  \cup {Offer0(Kto, "Q", "test", Line({"x2"}, {"s2"}, {"c2"}))}
  \cup {Offer0(Kto, "P", "test", l) :
           l \in {Line({"x1"}, {"s2"}, {"c1"}), Line({"x3"}, {"s4"}, {"c1"}),
                  Line({"x1"}, {"s1"}, {"c2"})}}
MCDocs == [x1 |-> "P", x2 |-> "Q", x3 |-> "P"]
MCParsed == [r1 |-> "x1", r2 |-> "x2", r3 |-> "x3"]
MCSpans == [s1 |-> "r1", s2 |-> "r2", s3 |-> "r3", s4 |-> "lost"]
MCCands == [c1 |-> "P", c2 |-> "Q"]
MCPrefix == [p \in {"P", "Q"} |-> "prj"]

(* Documents as blocks *)
Block(type, tokens, path, pages, boxes) ==
  [type |-> type, tokens |-> tokens, path |-> path, pages |-> pages, boxes |-> boxes]
MCBlocks ==
  { Block("heading", 1, <<"h">>, {1}, <<1>>), Block("list_item", 2, <<"h">>, {}, <<>>),
    Block("table", 3, <<>>, {2}, <<2, 0>>), Block("paragraph", 2, <<"h">>, {1}, <<>>),
    Block("paragraph", 6, <<>>, {1, 3, 0}, <<>>), Block("paragraph", 0, <<>>, {}, <<>>),
    Block("title", 7, <<>>, {2}, <<>>) }
MCLayouts ==
  {[docling |-> d, blocks |-> bs] : d \in BOOLEAN, bs \in UNION {[1..n -> MCBlocks] : n \in 0..4}}

\* Review requests are interchangeable.
RequestSymmetry == Permutations(Reviewers)

VARIABLE scene   \* the work this behaviour does
datasetVars == <<semVars, pairVars, acceptVars, planVars, splitVars, licenceVars, releaseVars,
                 chunkVars>>

MCInit ==
  /\ scene \in {"claims", "pair", "run", "plan", "split", "review", "rights", "export", "bundle",
                "chunks"}
  /\ Init /\ SemInit /\ PairInit /\ AcceptInit /\ PlanInit /\ SplitInit /\ LicenceInit /\ ReleaseInit
  /\ ChunkInit
  /\ scene # "export" => \A f \in SpanFields : ~ recorded[f]
  /\ scene # "split" => hash = CHOOSE f \in BucketMaps : TRUE

Judging ==
  \/ /\ scene = "claims" /\ SemNext /\ UNCHANGED <<pairVars, acceptVars>>
  \/ /\ scene = "pair" /\ PairNext /\ UNCHANGED <<semVars, acceptVars>>
  \/ /\ scene = "run" /\ AcceptNext /\ UNCHANGED <<semVars, pairVars>>

Releasing ==
  \/ /\ scene = "plan" /\ PlanNext /\ UNCHANGED <<splitVars, licenceVars, releaseVars>>
  \/ /\ scene = "split" /\ SplitNext /\ UNCHANGED <<planVars, licenceVars, releaseVars>>
  \/ /\ scene = "rights" /\ LicenceNext /\ UNCHANGED <<planVars, splitVars, releaseVars>>
  \/ /\ UNCHANGED <<planVars, splitVars, licenceVars>>
     /\ \/ /\ scene = "export" /\ (\A f \in SpanFields : ~ recorded[f])
           /\ (AcceptExample \/ ExportFormatted)
        \/ /\ scene = "bundle"
           /\ \/ archive = NoArchive /\ AcceptExample
              \/ BuildRelease \/ Verify
              \/ archive = built /\ Damage

MCNext ==
  /\ UNCHANGED scene
  /\ \/ Judging /\ UNCHANGED <<vars, planVars, splitVars, licenceVars, releaseVars, chunkVars>>
     \/ Releasing /\ UNCHANGED <<vars, semVars, pairVars, acceptVars, chunkVars>>
     \/ /\ scene = "review" /\ Next /\ UNCHANGED datasetVars
     \/ /\ scene = "chunks" /\ ChunkNext
        /\ UNCHANGED <<vars, semVars, pairVars, acceptVars, planVars, splitVars, licenceVars, releaseVars>>

MCSpec == MCInit /\ [][MCNext]_<<scene, vars, datasetVars>>
=============================================================================
