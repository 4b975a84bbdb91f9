------------------------------- MODULE Claims -------------------------------
(***************************************************************************)
(* The deterministic claim checks of pipeline/quality/claims.py.  A text   *)
(* is a sequence of classified words.  The regular expressions and word    *)
(* tables of the source decide the class of a word; the checks, modelled   *)
(* here, decide from the classes whether a claim departs from its          *)
(* evidence.                                                               *)
(***************************************************************************)
EXTENDS Integers, Sequences, FiniteSets

CONSTANTS PolarityWindow,   \* words looked at for negations (15 in the code)
          EqualAtEdge       \* pairs of amounts just at the tolerance that rounding
                            \* brings within it

ASSUME WindowAssumption == PolarityWindow \in Nat \ {0}

\* The tolerance is one thousandth of a base unit, the unit of amounts here.
ASSUME EdgeAssumption == \A pair \in EqualAtEdge : \E a \in pair : pair = {a, a + 1}

(* Word classes.  "not": not, no, never, neither, nor; "neg": any other    *)
(* negation word; "un": a word that makes a double negation after "not";   *)
(* "fill": articles, prepositions, discourse words, capitalised or not     *)
(* ("cap" in u); "name": any other capitalised word, with its singular in  *)
(* u; "verb": any other content word; "cause", "passive", "depends": the   *)
(* causal markers, with their place n in the table; "num": a whole number  *)
(* n with unit, currency or percent sign u.                                *)
Word(k, v, u) == [k |-> k, v |-> v, u |-> u, n |-> 0]
Marker(k, v, n) == [k |-> k, v |-> v, u |-> "none", n |-> n]
Amount(n, u) == [k |-> "num", v |-> "none", u |-> u, n |-> n]

At(t, i, k) == i \in DOMAIN t /\ t[i].k = k
Indexes(t, k) == {i \in DOMAIN t : t[i].k = k}
Least(S) == CHOOSE i \in S : \A j \in S : i <= j

-----------------------------------------------------------------------------
(* Polarity *)

NEGATION_WORDS == {"not", "neg"}

\* "not un" and its like are looked for as text, so "cannot" will do as well.
DoubleNegation(t) ==
  \E i \in DOMAIN t : t[i].v \in {"not", "cannot"} /\ At(t, i + 1, "un")

\* A double negation decides first, then a leading denial, then the parity
\* of the negations in the window.
detect_polarity(t) ==
  LET negations == {i \in DOMAIN t : i <= PolarityWindow /\ t[i].k \in NEGATION_WORDS}
  IN  CASE t = <<>> -> "unknown"
        [] DoubleNegation(t) -> "affirmed"
        [] OTHER -> IF At(t, 1, "not") \/ Cardinality(negations) % 2 = 1
                    THEN "negated" ELSE "affirmed"

check_negation_reversal(c, e) ==
  /\ detect_polarity(c) # "unknown" /\ detect_polarity(e) # "unknown"
  /\ detect_polarity(c) # detect_polarity(e)

-----------------------------------------------------------------------------
(* Causal direction *)

CAUSAL_RELATIONS == {"cause", "passive", "depends"}
Markers(t) == {i \in DOMAIN t : t[i].k \in CAUSAL_RELATIONS}

\* Each marker counts where it occurs first, if something stands before it, and
\* the first marker in the order of the table decides.  "is caused by" is found
\* at "caused", so the word before it is the copula.
ExtractSubject(t) ==
  LET first  == {i \in Markers(t) : \A j \in Markers(t) : t[j].n = t[i].n => i <= j}
      inner  == {i \in first : i > 1 \/ t[i].k = "passive"}
      chosen == CHOOSE i \in inner : \A j \in inner : t[i].n <= t[j].n
  IN  IF inner # {} THEN IF t[chosen].k = "passive" THEN "is" ELSE t[chosen - 1].v
      ELSE IF \E i \in DOMAIN t : t[i].k # "fill"
           THEN t[Least({i \in DOMAIN t : t[i].k # "fill"})].v ELSE "none"

\* detect_causal_direction and the comparison its caller makes.
CausalReversal(c, e) ==
  /\ Markers(c) # {} /\ Markers(e) # {}
  /\ ExtractSubject(c) # "none" /\ ExtractSubject(e) # "none"
  /\ ExtractSubject(c) # ExtractSubject(e)

-----------------------------------------------------------------------------
(* Roles of entities *)

Capital(w) == w.k = "name" \/ w.u = "cap"

\* Two capitalised words with one to four others, none a number, between them.
Frames(t) ==
  {p \in (DOMAIN t) \X (DOMAIN t) :
     /\ p[1] + 1 < p[2] /\ p[2] - p[1] <= 5
     /\ Capital(t[p[1]]) /\ Capital(t[p[2]])
     /\ \A m \in p[1] + 1 .. p[2] - 1 : ~ Capital(t[m]) /\ t[m].k # "num"}

\* finditer reads from the left: a frame that begins where a found one ends is
\* passed over.
Found(t) ==
  CHOOSE F \in SUBSET Frames(t) : \A p \in Frames(t) : p \in F <=> \A q \in F : q[2] # p[1]

\* <<first, verb, second>>, the verb being the last word between the two.
Triples(t) ==
  {<<t[p[1]], t[p[2] - 1], t[p[2]]>> :
     p \in {q \in Frames(t) : q \in Found(t) /\ t[q[2] - 1].k = "verb"}}

RolesSwapped(c, e) ==
  \E x \in Triples(c), y \in Triples(e) : x[2] = y[2] /\ x[1] = y[3] /\ x[3] = y[1]

\* The claim is PRE MID SUF where a sentence of the evidence is SUF MID PRE, and
\* MID holds a content word; PRE has i words and MID has m.  Evidence is taken
\* here as one sentence.
Exchanged(c, e, i, m) ==
  LET pre == SubSeq(c, 1, i)
      mid == SubSeq(c, i + 1, i + m)
      suf == SubSeq(c, i + m + 1, Len(c))
  IN  /\ i + m < Len(c) /\ pre # suf
      /\ e = suf \o mid \o pre
      /\ \E x \in DOMAIN mid : mid[x].k \notin {"fill", "num"}

ExchangeReversal(c, e) ==
  /\ Len(c) >= 4 /\ Len(c) = Len(e)
  /\ \E i \in 1 .. 4, m \in 1 .. 6 : Exchanged(c, e, i, m)

check_entity_role_reversal(c, e) == RolesSwapped(c, e) \/ ExchangeReversal(c, e)

-----------------------------------------------------------------------------
(* Numbers and units *)

\* Two families of the table suffice; multipliers in thousandths of the base
\* units, metres and seconds.
UNIT_MAP == [meters  |-> [type |-> "distance", mult |-> 1000],
             cm      |-> [type |-> "distance", mult |-> 10],
             mm      |-> [type |-> "distance", mult |-> 1],
             minutes |-> [type |-> "time",     mult |-> 60000],
             secs    |-> [type |-> "time",     mult |-> 1000],
             ms      |-> [type |-> "time",     mult |-> 1]]

\* abs(a - b) <= 0.001, in floating point.
Close(a, b) == a = b \/ {a, b} \in EqualAtEdge

\* Numbers carry a unit of their own only for percentages and currencies.
OwnUnit(w) == IF w.u \in {"%", "$"} THEN w.u ELSE "none"

\* A percentage is one number; a currency amount is also a plain number.
Numbers(t) ==
  UNION {IF t[i].u = "$" THEN {<<t[i].n, "$">>, <<t[i].n, "none">>}
                         ELSE {<<t[i].n, OwnUnit(t[i])>>} : i \in Indexes(t, "num")}

Quantities(t) ==
  {[raw |-> t[i].n, base |-> t[i].n * UNIT_MAP[t[i].u].mult, type |-> UNIT_MAP[t[i].u].type] :
     i \in {j \in Indexes(t, "num") : t[j].u \in DOMAIN UNIT_MAP}}

\* Words of four letters and more but for stopwords, spelled-out units included:
\* names, verbs and markers stand for such words.
ContextWords(t) ==
  ({t[i].v : i \in {j \in DOMAIN t : t[j].k \notin {"fill", "num"}}} \ {"not", "no", "nor"})
    \cup ({t[i].u : i \in Indexes(t, "num")} \cap {"meters", "minutes", "secs"})

ConversionEquivalent(c, e, cv, ev) ==
  \E q \in Quantities(c), r \in Quantities(e) :
     q.raw = cv /\ r.raw = ev /\ q.type = r.type /\ Close(q.base, r.base)

check_number_mismatch(c, e) ==
  {cn \in Numbers(c) : \E en \in Numbers(e) :
     /\ cn[2] = en[2]
     /\ cn[2] # "none" \/ ContextWords(c) \cap ContextWords(e) # {}
     /\ cn[1] # en[1]
     /\ ~ ConversionEquivalent(c, e, cn[1], en[1])}

\* A word such as "second" counts wherever it stands.
LoneUnits(t) == {t[i].v : i \in DOMAIN t} \cap DOMAIN UNIT_MAP
Units(t) == LoneUnits(t) \cup ({t[i].u : i \in Indexes(t, "num")} \cap DOMAIN UNIT_MAP)

\* Mutant: quantities are equal only as written.
BaseEquivalentRaw(c, e, type) ==
  \E q \in Quantities(c), r \in Quantities(e) : q.type = type /\ r.type = type /\ q.raw = r.raw

BaseEquivalent(c, e, type) ==
  \E q \in Quantities(c), r \in Quantities(e) :
     q.type = type /\ r.type = type /\ Close(q.base, r.base)

check_unit_mismatch(c, e) ==
  {u \in Units(c) :
     LET same == {v \in Units(e) : UNIT_MAP[v].type = UNIT_MAP[u].type}
     IN  same # {} /\ u \notin same /\ ~ BaseEquivalent(c, e, UNIT_MAP[u].type)}

-----------------------------------------------------------------------------
(* Entities *)

\* Any word of the evidence supports a name, or the name's singular.
EntityInEvidence(w, e) ==
  \E i \in DOMAIN e : e[i].v = w.v \/ (w.u # "none" /\ w.u = e[i].v)

check_unsupported_entities(c, e) ==
  {c[i].v : i \in {j \in Indexes(c, "name") : ~ EntityInEvidence(c[j], e)}}

-----------------------------------------------------------------------------
(* Properties of the checks for one claim and one evidence text *)

\* A reversal is mutual: if two phrases of up to four words each have changed
\* places around the same middle, the claim reverses the evidence and the
\* evidence the claim.  A text that repeats no word does not reverse itself.
ReversalMutual(c, e) ==
  /\ \A i \in 1 .. 4, m \in 1 .. 6 :
        Len(c) >= 4 /\ Exchanged(c, e, i, m) /\ Len(c) - (i + m) <= 4 =>
           ExchangeReversal(c, e) /\ ExchangeReversal(e, c)
  /\ (\A i, j \in DOMAIN c : c[i] = c[j] => i = j) => ~ check_entity_role_reversal(c, c)

\* Two texts with one measured quantity each, no other number and no unit word by
\* itself, about the same thing: a conversion is never a mismatch, and quantities
\* more than a thousandth of a base unit apart always are one.  Just at a
\* thousandth (1 mm and 2 mm) rounding decides.
QuantitiesByBase(c, e) ==
  \A q \in Quantities(c), r \in Quantities(e) :
    ( /\ Quantities(c) = {q} /\ Quantities(e) = {r}
      /\ Cardinality(Numbers(c)) = 1 /\ Cardinality(Numbers(e)) = 1
      /\ LoneUnits(c) = {} /\ LoneUnits(e) = {}
      /\ q.type = r.type /\ ContextWords(c) \cap ContextWords(e) # {} )
    => LET mismatch == check_number_mismatch(c, e) # {} \/ check_unit_mismatch(c, e) # {}
       IN  /\ q.base = r.base => ~ mismatch
           /\ r.base \notin {q.base, q.base + 1} /\ q.base # r.base + 1 => mismatch

\* The text with a "not" put before word i.
Denied(t, i) == SubSeq(t, 1, i - 1) \o <<Word("not", "not", "none")>> \o SubSeq(t, i, Len(t))

\* Denying a text, by a "not" before one of its verbs inside the window, is a
\* negation reversal of it; in front of the whole text only if that affirms.
DenialFlagged(t) ==
  \A i \in DOMAIN t :
    ( /\ t[i].k = "verb" /\ Len(t) < PolarityWindow /\ ~ At(t, 1, "not")
      /\ ~ DoubleNegation(t)
      /\ i > 1 \/ detect_polarity(t) = "affirmed" )
    => check_negation_reversal(Denied(t, i), t)
=============================================================================
