------------------------------ MODULE Chunking ------------------------------
(***************************************************************************)
(* The structure-aware chunker (infrastructure/chunking/structure_aware.py) *)
(* and the chunks and source spans ProjectService.chunk_document makes of  *)
(* its groups.  A text is named by the block it is from; what is looked at *)
(* is its number of words (0: no text) and where it is.                    *)
(***************************************************************************)
EXTENDS Integers, Sequences, FiniteSets, SequencesExt

CONSTANTS Layouts,        \* documents: [docling, blocks], each block with
                          \* [type, tokens, path, pages, boxes]; page 0 is no page
          TargetTokens, MinTokens, MaxTokens, ContextTokens,  \* ChunkCfg
          KeepChoices     \* what is kept together, of "table" and "list_item"

ASSUME ChunkingAssumption ==
  /\ {TargetTokens, MinTokens, MaxTokens, ContextTokens} \subseteq Nat
  /\ KeepChoices \subseteq SUBSET {"table", "list_item"}

\* Blocks come with a count of words and with pages, both not negative.
ASSUME LayoutsAssumption ==
  \A doc \in Layouts :
    /\ doc.blocks \in Seq(Range(doc.blocks))
    /\ \A b \in Range(doc.blocks) :
         b.tokens \in Nat /\ b.pages \subseteq Nat /\ IsFiniteSet(b.pages)

VARIABLES chunker,  \* the loop of _group_units: units, place, groups, group in the making
          chunked   \* chunks with their spans, once the document is done

chunkVars == <<chunker, chunked>>

NoDocument == [phase |-> "none"]
ChunkInit == chunker = NoDocument /\ chunked = <<>>

-----------------------------------------------------------------------------
(* Units *)

_extract_docling_blocks(doc) ==
  FlattenSeq([i \in DOMAIN doc.blocks |->
                IF doc.blocks[i].tokens > 0 THEN <<doc.blocks[i]>> ELSE <<>>])

\* A title is a heading in Docling's output, a cell a table elsewhere.
Kind(doc, type) ==
  CASE type = "heading" \/ (type = "title" /\ doc.docling) -> "heading"
    [] type = "list_item" -> "list_item"
    [] type = "table" \/ (type = "table_cell" /\ ~ doc.docling) -> "table"
    [] OTHER -> "text"

\* Docling's blocks have no heading path, but each has a reference.
normalize_blocks(doc) ==
  LET blocks == IF doc.docling THEN _extract_docling_blocks(doc) ELSE doc.blocks
  IN  [i \in DOMAIN blocks |->
         LET b == blocks[i] IN
         [id |-> i, kind |-> Kind(doc, b.type), tokens |-> b.tokens,
          path |-> IF doc.docling THEN <<>> ELSE b.path,
          pages |-> b.pages \ {0}, boxes |-> b.boxes,
          refs |-> IF doc.docling THEN {i} ELSE {}]]

Tokens(units) == FoldLeft(LAMBDA n, u : n + u.tokens, 0, units)

-----------------------------------------------------------------------------
(* Groups: one action per branch of the loop *)

Unit == chunker.units[chunker.at]
Branch == IF Unit.kind \in {"heading"} \cup chunker.kept THEN Unit.kind ELSE "text"
Taking(kind) == chunker.phase = "units" /\ chunker.at <= Len(chunker.units) /\ Branch = kind

Flush(c) ==
  [c EXCEPT !.groups = IF c.cur = <<>> THEN @ ELSE Append(@, c.cur),
            !.cur = <<>>, !.tokens = 0, !.inList = FALSE]

Add(c) == [c EXCEPT !.cur = Append(@, Unit), !.tokens = @ + Unit.tokens, !.at = @ + 1]

\* Mutant: the unit about to be added is not counted.
OverflowsLate(c, limit) == c.tokens > limit

Overflows(c, limit) == c.tokens + Unit.tokens > limit

ReadDocument ==
  /\ chunker = NoDocument
  /\ \E doc \in Layouts, kept \in KeepChoices :
       chunker' = [phase |-> "units", units |-> normalize_blocks(doc), kept |-> kept, at |-> 1,
                   groups |-> <<>>, cur |-> <<>>, tokens |-> 0, inList |-> FALSE]
  /\ UNCHANGED chunked

TakeHeading == Taking("heading") /\ chunker' = Add(Flush(chunker)) /\ UNCHANGED chunked

TakeTable ==
  /\ Taking("table")
  /\ LET c == IF chunker.cur # <<>> /\ Overflows(chunker, MaxTokens) THEN Flush(chunker) ELSE chunker
     IN  chunker' = Flush(Add(c))
  /\ UNCHANGED chunked

\* A list starts as if the tokens of a lead were there, whatever is.
TakeListItem ==
  /\ Taking("list_item")
  /\ LET led == IF chunker.inList THEN chunker
                ELSE [chunker EXCEPT !.tokens = IF @ > MinTokens THEN @ ELSE MinTokens, !.inList = TRUE]
         c == IF Overflows(led, MaxTokens) THEN [Flush(led) EXCEPT !.inList = TRUE] ELSE led
     IN  chunker' = Add(c)
  /\ UNCHANGED chunked

TakeText ==
  /\ Taking("text")
  /\ LET aimed == IF Overflows(chunker, TargetTokens) /\ chunker.tokens >= MinTokens
                  THEN Flush(chunker) ELSE chunker
         over == Overflows(aimed, MaxTokens)
         alone == over /\ aimed.cur # <<>> /\ aimed.tokens = 0
         added == Add(IF over /\ ~ alone THEN Flush(aimed) ELSE aimed)
     IN  chunker' = IF alone \/ added.tokens >= MaxTokens THEN Flush(added) ELSE added
  /\ UNCHANGED chunked

-----------------------------------------------------------------------------
(* Chunks and spans *)

_merge_locations(units) ==
  [pages |-> UNION {units[i].pages : i \in DOMAIN units},
   refs  |-> UNION {units[i].refs : i \in DOMAIN units},
   boxes |-> FlattenSeq([i \in DOMAIN units |-> units[i].boxes])]

\* The neighbours shown with a group: whole, or not at all.
Context(groups, i) ==
  {j \in {i - 1, i + 1} \cap DOMAIN groups : Tokens(groups[j]) \in 1..ContextTokens}

BoundaryReasons(group) ==
  (IF Tokens(group) > MaxTokens THEN {"hard_max_tokens"} ELSE {})
  \cup (IF Tokens(group) = 0 THEN {"empty"} ELSE {})

FirstPage(pages) == CHOOSE p \in pages : \A q \in pages : p <= q
LastPage(pages) == CHOOSE p \in pages : \A q \in pages : q <= p

\* The page is given only when all that is located lies on it; 0 is none.
Span(group, i) ==
  LET at == _merge_locations(group) IN
  [first |-> IF at.pages = {} THEN 0 ELSE FirstPage(at.pages),
   last  |-> IF at.pages = {} THEN 0 ELSE LastPage(at.pages),
   page  |-> IF Cardinality(at.pages) = 1 THEN FirstPage(at.pages) ELSE 0,
   boxes |-> at.boxes, section |-> group[Len(group)].path, refs |-> at.refs, ordinal |-> i]

with_derived_precision(span) ==
  IF span.page # 0 THEN IF span.boxes # <<>> THEN "exact_bbox" ELSE "exact_page"
  ELSE IF span.first # 0 THEN "page_range"
  ELSE IF span.section # <<>> THEN "section" ELSE "chunk"

chunk_document ==
  /\ chunker.phase = "units" /\ chunker.at > Len(chunker.units)
  /\ chunker' = [Flush(chunker) EXCEPT !.phase = "done"]
  /\ chunked' = [i \in DOMAIN chunker'.groups |->
       LET group == chunker'.groups[i] IN
       [units |-> group, reasons |-> BoundaryReasons(group), context |-> Context(chunker'.groups, i),
        span |-> Span(group, i), precision |-> with_derived_precision(Span(group, i))]]

ChunkNext == ReadDocument \/ TakeHeading \/ TakeTable \/ TakeListItem \/ TakeText \/ chunk_document

ChunkSpec == ChunkInit /\ [][ChunkNext]_chunkVars

-----------------------------------------------------------------------------
(* Property *)

\* However headings, lists, tables and long or empty blocks follow each other:
\* every unit is in one chunk, in its order; only a chunk with a single unit of
\* text is over the hard limit, and it says so; a table ends its chunk and a
\* heading starts one; and a span claims the page or the pages that the located
\* units of its chunk are on, never another (chunk_document, defect 3.7).
ChunksAreFaithful ==
  chunker.phase = "done" =>
    /\ FlattenSeq([i \in DOMAIN chunked |-> chunked[i].units]) = chunker.units
    /\ \A i \in DOMAIN chunked :
         LET c == chunked[i]
             on == UNION {c.units[u].pages : u \in DOMAIN c.units}
         IN  /\ Tokens(c.units) > MaxTokens =>
                  /\ "hard_max_tokens" \in c.reasons
                  /\ Cardinality({u \in DOMAIN c.units : c.units[u].tokens > 0}) = 1
             /\ \A u \in DOMAIN c.units :
                  /\ c.units[u].kind = "heading" => u = 1
                  /\ c.units[u].kind = "table" /\ "table" \in chunker.kept => u = Len(c.units)
             /\ c.precision \in {"exact_page", "exact_bbox"} => on = {c.span.page}
             /\ c.precision = "page_range" => {c.span.first, c.span.last} \subseteq on
             /\ on \subseteq c.span.first..c.span.last
=============================================================================
