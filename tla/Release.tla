------------------------------ MODULE Release ------------------------------
(***************************************************************************)
(* From accepted examples to files: the export gate and the location       *)
(* precision (pipeline/export/gate.py), the formats (formats.py,           *)
(* exporters.py), Workspace.export_dataset_formatted, the release bundle   *)
(* (release.py) and its verification (verify_release.py).  A digest is the *)
(* value it is taken of.                                                   *)
(***************************************************************************)
EXTENDS Integers, Sequences, FiniteSets, SequencesExt

CONSTANTS Docs,        \* document id -> project
          Parsed,      \* parsed document id -> document id
          Spans,       \* span id -> parsed document id
          Cands,       \* candidate id -> project
          Offers,      \* accepted candidates: [made, project, split, line], where made is
                       \* [topology, messages, label] and line is [docs, spans, cands]
          Formats,     \* formats asked for
          Projects, Prefix,  \* projects and the part of the id file names use
          Damages,     \* paths an archive may be damaged at
          MaxExamples, MaxExports  \* bounds

ASSUME ReleaseAssumption ==
  /\ MaxExamples \in Nat /\ MaxExports \in Nat
  /\ \A o \in Offers : o.project \in Projects

VARIABLES stored,    \* project -> its accepted examples in the database
          exports,   \* what export calls returned
          files,     \* download directory: file name -> bytes
          archive,   \* the release being verified
          built,     \* history: the release as it was built
          verdict,   \* what verification said of it
          recorded   \* what the span a reader follows recorded

releaseVars == <<stored, exports, files, archive, built, verdict, recorded>>

None == "none"
Contents(msgs) == [i \in DOMAIN msgs |-> msgs[i].content]
Only(msgs, roles) == SelectSeq(msgs, LAMBDA m : m.role \in roles)

-----------------------------------------------------------------------------
(* Examples and their hashes *)

\* _candidate_to_example: the hash is taken of the conversation as generated,
\* a pair's of its two sides.  An evaluation item is a question and an answer.
_candidate_to_example(g, project, split, line) ==
  LET m == g.messages
      lists ==
        IF g.topology = "preference" THEN
          [system |-> <<>>, prompt |-> Only(m, {"user"}), chosen |-> Only(m, {"assistant"}),
           rejected |-> Only(m, {"rejected"})]
        ELSE IF g.topology = "kto" THEN
          [system |-> <<>>, prompt |-> SubSeq(m, 1, Len(m) - 1),
           chosen |-> SubSeq(m, Len(m), Len(m)), rejected |-> <<>>]
        ELSE IF g.topology = "evaluation" THEN
          [system |-> <<>>, prompt |-> <<m[1]>>, chosen |-> <<m[2]>>, rejected |-> <<>>]
        ELSE
          [system |-> Only(m, {"system"}), prompt |-> Only(m, {"user"}),
           chosen |-> Only(m, {"assistant"}), rejected |-> <<>>]
  IN  [project |-> project, topology |-> g.topology, split |-> split, lists |-> lists,
       label |-> IF g.topology = "kto" THEN g.label ELSE None,
       docs |-> line.docs, spans |-> line.spans, cands |-> line.cands,
       content_hash |-> IF g.topology = "preference"
                        THEN <<Contents(lists.chosen), Contents(lists.rejected)>>
                        ELSE Contents(m)]

recompute_content_hash(ex) ==
  LET l == ex.lists
  IN  IF ex.topology = "preference" THEN <<Contents(l.chosen), Contents(l.rejected)>>
      ELSE IF ex.topology = "evaluation" THEN <<Head(l.prompt).content, Head(l.chosen).content>>
      ELSE Contents(l.system) \o Contents(l.prompt) \o Contents(l.chosen)

Traceable(ex) ==
  /\ ex.docs # {} /\ ex.spans # {} /\ ex.cands # {}
  /\ \A d \in ex.docs : d \in DOMAIN Docs /\ Docs[d] = ex.project
  /\ \A s \in ex.spans : /\ s \in DOMAIN Spans /\ Spans[s] \in DOMAIN Parsed
                         /\ Parsed[Spans[s]] \in ex.docs
  /\ \A c \in ex.cands : c \in DOMAIN Cands /\ Cands[c] = ex.project

\* One bad example blocks the whole export.
verify_provenance_before_export(exs) ==
  \A i \in DOMAIN exs : recompute_content_hash(exs[i]) = exs[i].content_hash /\ Traceable(exs[i])

-----------------------------------------------------------------------------
(* Location precision *)

\* What a span may have recorded, and the levels that follow from it.
SpanFields == {"boxes", "page", "pages", "section", "text"}
Precisions == <<"unknown", "chunk", "section", "page_range", "exact_page", "exact_bbox">>

of_span(sp) ==
  IF sp.boxes /\ sp.page THEN "exact_bbox"
  ELSE IF sp.page THEN "exact_page"
  ELSE IF sp.pages THEN "page_range"
  ELSE IF sp.section THEN "section"
  ELSE IF sp.text THEN "chunk" ELSE "unknown"

Level(p) == CHOOSE i \in DOMAIN Precisions : Precisions[i] = p
at_least(actual, claimed) == Level(actual) >= Level(claimed)

-----------------------------------------------------------------------------
(* Rows.  Every row carries the provenance of its example; what differs is  *)
(* which texts are kept. *)

SUPPORTED_FORMATS == {"openai_chat", "sharegpt", "alpaca", "trl_sft", "trl_preference", "kto",
                      "evaluation", "huggingface_layout"}

_provenance(ex) == [docs |-> ex.docs, spans |-> ex.spans, cands |-> ex.cands,
                    content_hash |-> ex.content_hash, split |-> ex.split]

\* Mutant: chat rows lose the system texts.
SystemsNone(format) == format = "jsonl"

\* Formats that keep the system texts, the prompt, the rejected side.  trl_sft joins
\* its texts with their roles into one string, which tells no less.
Systems(format) == format \in {"jsonl", "openai_chat", "trl_sft", "huggingface_layout"}

Texts(ex, format) ==
  LET l == ex.lists
      pairs == format = "trl_preference" \/ (format = "jsonl" /\ ex.topology = "preference")
      asked == IF format = "alpaca" THEN Only(l.prompt, {"user", "system"}) ELSE l.prompt
      conversation == (IF Systems(format) THEN Contents(l.system) ELSE <<>>)
                        \o Contents(asked) \o Contents(l.chosen)
  IN  IF pairs THEN conversation \o Contents(l.rejected) ELSE conversation

\* A missing label exports as desirable in the kto format only.
Label(ex, format) ==
  IF format = "kto" THEN IF ex.label = None THEN "good" ELSE ex.label
  ELSE IF format = "jsonl" THEN ex.label ELSE None

example_row_for(ex, format) ==
  [texts |-> Texts(ex, format), label |-> Label(ex, format), from |-> _provenance(ex)]

export_format(exs, format) == [i \in DOMAIN exs |-> example_row_for(exs[i], format)]

-----------------------------------------------------------------------------
(* Bundles.  A file's content is [body, crlf]; an archive is [entries,      *)
(* manifest, detached]. *)

Plain(body) == [body |-> body, crlf |-> FALSE]

\* A reproducible archive is written without carriage returns.
Zipped(data) == Plain(data.body)

Metadata == {"README.md", "dataset_card.json", "quality_report.json", "license_summary.json",
             "privacy_summary.json", "source_manifest.json"}
SplitPath == [train |-> "data/train.jsonl", validation |-> "data/validation.jsonl",
              test |-> "data/test.jsonl"]
_split_bytes(exs) ==
  [p \in {SplitPath[s] : s \in DOMAIN SplitPath} |->
     Plain(export_format(SelectSeq(exs, LAMBDA e : SplitPath[e.split] = p), "jsonl"))]

\* The digest of the file list: the listed digests in path order.
Root(listed) == {<<p, listed[p]>> : p \in DOMAIN listed}
ZipDigest(entries, manifest) == {<<entries, manifest>>}

build_release_bundle(splits, meta) ==
  LET given == [p \in DOMAIN splits \cup DOMAIN meta |->
                  IF p \in DOMAIN splits THEN splits[p] ELSE meta[p]]
      listed == [p \in DOMAIN given |-> Plain(given[p].body)]
      manifest == [schema |-> TRUE, files |-> listed, root |-> Root(listed), selfref |-> FALSE]
      entries == [p \in DOMAIN given |-> Zipped(given[p])]
  IN  [entries |-> entries, manifest |-> manifest, readable |-> TRUE,
       detached |-> ZipDigest(entries, manifest)]

_REQUIRED == {"data/train.jsonl", "README.md", "dataset_card.json", "quality_report.json",
              "license_summary.json", "privacy_summary.json", "source_manifest.json"}

DetachedHolds(a) == a.detached = ZipDigest(a.entries, a.manifest)

\* Entries nobody lists are fine; listed ones must be there and agree.
PerFileHolds(a) ==
  \A p \in DOMAIN a.manifest.files : p \in DOMAIN a.entries /\ a.entries[p] = a.manifest.files[p]

\* Mutant: the checksum of the archive is enough.
run_verify_releaseTrusting(a) ==
  IF a.detached = {} \/ ~ a.readable THEN "failed"
  ELSE IF DetachedHolds(a) /\ _REQUIRED \subseteq DOMAIN a.entries THEN "ok" ELSE "invalid"

\* verify_release and run_verify_release: 2 without checksum file or zip, a
\* crash when a listed file is absent and a content root is stated, else 0 or
\* 1.
run_verify_release(a) ==
  IF a.detached = {} \/ ~ a.readable THEN "failed"
  ELSE IF a.manifest.root # {} /\ ~ (DOMAIN a.manifest.files \subseteq DOMAIN a.entries)
  THEN "crashed"
  ELSE IF /\ DetachedHolds(a) /\ PerFileHolds(a) /\ _REQUIRED \subseteq DOMAIN a.entries
          /\ a.manifest.schema /\ ~ a.manifest.selfref /\ a.manifest.root # {}
          /\ a.manifest.root = Root([p \in DOMAIN a.manifest.files |-> a.entries[p]])
       THEN "ok" ELSE "invalid"

-----------------------------------------------------------------------------
(* Behaviour *)

NoArchive == [entries |-> <<>>]
ReleaseInit == stored = [p \in Projects |-> <<>>] /\ exports = {} /\ files = <<>>
               /\ archive = NoArchive /\ built = NoArchive /\ verdict = None
               /\ recorded \in [SpanFields -> BOOLEAN]

AcceptExample ==
  /\ \E o \in Offers :
        /\ Len(stored[o.project]) < MaxExamples
        /\ stored' = [stored EXCEPT ![o.project] =
             Append(@, _candidate_to_example(o.made, o.project, o.split, o.line))]
  /\ UNCHANGED <<exports, files, archive, built, verdict, recorded>>

\* export_dataset_formatted: unknown formats and an empty selection are
\* refused, then the gate, then the artifact, then the download file.  The
\* format "parquet" gets past the first check and is refused by the second.
ExportFormatted ==
  /\ Cardinality(exports) < MaxExports
  /\ \E p \in Projects, format \in Formats \cap (SUPPORTED_FORMATS \cup {"jsonl"}) :
       /\ stored[p] # <<>> /\ verify_provenance_before_export(stored[p])
       /\ LET bytes == export_format(stored[p], format)
              name == <<Prefix[p], format>>
          IN  /\ files' = [n \in DOMAIN files \cup {name} |->
                             IF n = name THEN bytes ELSE files[n]]
              /\ exports' = exports \cup
                   {[project |-> p, name |-> name, format |-> format, artifact |-> bytes,
                     examples |-> stored[p]]}
  /\ UNCHANGED <<stored, archive, built, verdict, recorded>>

BuildRelease ==
  /\ archive = NoArchive
  /\ \E p \in Projects, crlf \in BOOLEAN :
       LET meta == [m \in Metadata |-> [body |-> <<m>>, crlf |-> crlf /\ m = "README.md"]]
       IN  archive' = build_release_bundle(_split_bytes(stored[p]), meta)
  /\ built' = archive'
  /\ UNCHANGED <<stored, exports, files, verdict, recorded>>

LostManifest == [schema |-> FALSE, files |-> <<>>, root |-> {}, selfref |-> FALSE]

\* Packed again, a checksum file that is there may be written again.
Repacked(a) ==
  {a, IF a.detached = {} THEN a ELSE [a EXCEPT !.detached = ZipDigest(a.entries, a.manifest)]}

\* What may happen to an archive on its way: a lost, changed or added entry,
\* a changed manifest, a lost or rewritten checksum file, a broken zip.
Damage ==
  /\ archive # NoArchive /\ verdict = None
  /\ LET e == archive.entries
         changed == Plain(<<>>)
     IN  \/ \E p \in Damages :
              archive' \in Repacked([archive EXCEPT !.entries = [q \in DOMAIN e \ {p} |-> e[q]]])
         \/ \E p \in Damages \cap DOMAIN e :
              archive' \in Repacked([archive EXCEPT !.entries[p] = changed])
         \/ \E p \in Damages \cap DOMAIN archive.manifest.files :
              archive' \in Repacked([archive EXCEPT !.manifest.files[p] = changed])
         \/ archive' \in Repacked([archive EXCEPT !.entries = [q \in DOMAIN e \cup {"extra"} |->
                                     IF q = "extra" THEN changed ELSE e[q]]])
         \/ archive' \in Repacked([archive EXCEPT !.manifest.schema = FALSE])
         \/ archive' \in Repacked([archive EXCEPT !.manifest.selfref = TRUE])
         \/ archive' \in Repacked([archive EXCEPT !.manifest = LostManifest])
         \/ archive' = [archive EXCEPT !.detached = {}]
         \/ archive' = [archive EXCEPT !.readable = FALSE]
  /\ UNCHANGED <<stored, exports, files, built, verdict, recorded>>

Verify ==
  /\ archive # NoArchive /\ verdict = None
  /\ verdict' = run_verify_release(archive)
  /\ UNCHANGED <<stored, exports, files, archive, built, recorded>>

ReleaseNext == AcceptExample \/ ExportFormatted \/ BuildRelease \/ Damage \/ Verify

ReleaseSpec == ReleaseInit /\ [][ReleaseNext]_releaseVars

-----------------------------------------------------------------------------
(* Properties *)

\* The hash in a row can be checked from the row: in the formats that keep
\* the whole conversation, the texts of an SFT, KTO or evaluation row hash to
\* the content hash it carries.
RowsAreVerifiable ==
  \A x \in exports : \A i \in DOMAIN x.artifact :
    /\ x.format \in {"jsonl", "openai_chat", "trl_sft", "huggingface_layout"}
    /\ x.examples[i].topology # "preference"
    =>
      x.artifact[i].texts = x.artifact[i].from.content_hash

\* Every release verifies as it was built, without examples and with carriage
\* returns in its texts too; and an archive that verifies still has every file
\* it was built with, whatever was lost, changed, added or packed again since.
VerifyIsExact ==
  /\ verdict # None /\ archive = built => verdict = "ok"
  /\ verdict = "ok" =>
      \A p \in DOMAIN built.entries :
        p \in DOMAIN archive.entries /\ archive.entries[p] = built.entries[p]
=============================================================================
