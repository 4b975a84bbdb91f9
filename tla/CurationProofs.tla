--------------------------- MODULE CurationProofs ---------------------------
(***************************************************************************)
(* Curation for any number of examples, versions and overlapping requests. *)
(*                                                                         *)
(* Reviews: a request that is about to decide names a revision that is on  *)
(* record, or bootstraps the first one (RequestsRooted); tokens are issued *)
(* once (TokensIssuedOnce).  Races can number two revisions alike, but     *)
(* they cannot make a decision point at a token that is not there.         *)
(*                                                                         *)
(* Versions: until something disturbs it, a version in the making holds    *)
(* exactly what a listing would give now (MakersTrack).                    *)
(***************************************************************************)
EXTENDS Curation, FiniteSetTheorems, TLAPS

\* Every token on record was issued, and to one revision of an example.
TokensIssuedOnce ==
    \A e \in Examples :
        /\ \A x \in revs[e] : x.token <= issued
        /\ \A x, y \in revs[e] : x.token = y.token => x = y
        /\ \A d \in decisions[e] : d.token <= issued

\* What request q has seen is on record.
Rooted(q) ==
    q.pc # "idle" =>
        /\ q.example \in Examples /\ rows[q.example].status # "absent"
        /\ q.pc # "decide" => q.base = 0
        /\ q.pc = "decide" /\ q.base = 0 => q.rev = 1 /\ q.given = 0
        /\ q.pc = "decide" /\ q.base # 0 =>
              /\ \E x \in revs[q.example] : x.token = q.base /\ x.rev = q.rev
              /\ q.given # 0 => q.given = q.base

RequestsRooted == \A r \in Reviewers : Rooted(review[r])

\* Only examples that exist are reviewed.
AbsentUnreviewed ==
    \A e \in Examples : rows[e].status = "absent" => revs[e] = {} /\ decisions[e] = {}

CInv == /\ CurationTypeOK
        /\ TokensIssuedOnce
        /\ RequestsRooted
        /\ AbsentUnreviewed
        /\ DecisionsRooted
        /\ TokenMeansWhatWasSeen
        /\ ShownStatusIsOpen

-----------------------------------------------------------------------------
(* Reviews. *)

\* At the start nothing has been sent or written.
LEMMA InitHolds == Init => CInv
<1> SUFFICES ASSUME Init PROVE CInv
  OBVIOUS
<1>1. 0 \in 0..MaxRevisions /\ 0 \in 0..MaxVersions /\ 0 \in 0..NumExamples /\ 0 \in Nat
  BY CurationSizes
<1>2. NoRequest \in Request /\ NoMaking \in Making
  BY <1>1 DEF NoRequest, NoMaking, Request, Making
<1>3. [status |-> "absent", stamp |-> 0] \in ExampleRow
  BY <1>1 DEF ExampleRow
<1>4. [state |-> "unused", parent |-> 0, members |-> {}] \in Version
  BY <1>1 DEF Version
<1>5. CurationTypeOK
  BY <1>1, <1>2, <1>3, <1>4 DEF Init, CurationTypeOK
<1>6. TokensIssuedOnce /\ AbsentUnreviewed /\ DecisionsRooted /\ TokenMeansWhatWasSeen
      /\ ShownStatusIsOpen
  BY DEF Init, TokensIssuedOnce, AbsentUnreviewed, DecisionsRooted, TokenMeansWhatWasSeen,
         ShownStatusIsOpen
<1>7. RequestsRooted
  BY DEF Init, RequestsRooted, Rooted, NoRequest
<1>8. QED
  BY <1>5, <1>6, <1>7 DEF CInv

\* A step that only moves one request, to one that is rooted, keeps the invariant.
LEMMA RequestStep ==
    ASSUME CInv, NEW r \in Reviewers, NEW q \in Request, Rooted(q),
           review' = [review EXCEPT ![r] = q],
           UNCHANGED <<rows, revs, decisions, issued, versions, maker, disturbed>>
    PROVE  CInv'
<1>1. CurationTypeOK'
  BY DEF CInv, CurationTypeOK
<1>2. RequestsRooted'
  BY DEF CInv, CurationTypeOK, RequestsRooted, Rooted
<1>3. QED
  BY <1>1, <1>2 DEF CInv, TokensIssuedOnce, AbsentUnreviewed, DecisionsRooted,
                    TokenMeansWhatWasSeen, ShownStatusIsOpen

\* A request is sent.
LEMMA SendKeeps ==
    ASSUME CInv, NEW r \in Reviewers, NEW e \in Examples, Send(r, e)
    PROVE  CInv'
<1>1. PICK named \in BOOLEAN, given \in {0} \cup {x.token : x \in revs[e]} :
        \E rev \in IF ~named THEN {0}
                    ELSE IF given = 0 THEN {1} \cup {x.rev : x \in revs[e]}
                    ELSE {x.rev : x \in {y \in revs[e] : y.token = given}} :
             review' = [review EXCEPT ![r] =
                           [pc |-> IF named THEN "read" ELSE "resolve",
                            example |-> e, rev |-> rev, given |-> given, base |-> 0]]
  BY DEF Send
<1>2. PICK rev \in IF ~named THEN {0}
                    ELSE IF given = 0 THEN {1} \cup {x.rev : x \in revs[e]}
                    ELSE {x.rev : x \in {y \in revs[e] : y.token = given}} :
             review' = [review EXCEPT ![r] =
                           [pc |-> IF named THEN "read" ELSE "resolve",
                            example |-> e, rev |-> rev, given |-> given, base |-> 0]]
  BY <1>1
<1> DEFINE q == [pc |-> IF named THEN "read" ELSE "resolve",
                 example |-> e, rev |-> rev, given |-> given, base |-> 0]
<1>3. \A x \in revs[e] : x.token \in RevisionTokens /\ x.rev \in Nat
  BY DEF CInv, CurationTypeOK, Revision
<1>4. given \in 0..MaxRevisions /\ rev \in Nat /\ 0 \in 0..MaxRevisions /\ e \in 0..NumExamples
  BY <1>2, <1>3, CurationSizes DEF RevisionTokens, Examples
<1>5. q \in Request
  BY <1>4 DEF Request
<1>6. Rooted(q)
  BY DEF Rooted, Send
<1>7. QED
  BY <1>2, <1>5, <1>6, RequestStep DEF Send

\* What a request becomes as it reads.
LEMMA RequestFields ==
    ASSUME NEW q \in Request, NEW pc, NEW n
    PROVE  /\ [q EXCEPT !.pc = pc, !.rev = n]
                = [pc |-> pc, example |-> q.example, rev |-> n, given |-> q.given,
                   base |-> q.base]
           /\ [q EXCEPT !.pc = pc, !.base = n]
                = [pc |-> pc, example |-> q.example, rev |-> q.rev, given |-> q.given,
                   base |-> n]
           /\ [q EXCEPT !.pc = pc]
                = [pc |-> pc, example |-> q.example, rev |-> q.rev, given |-> q.given,
                   base |-> q.base]
<1> DEFINE p == [pc |-> pc, example |-> q.example, rev |-> q.rev, given |-> q.given,
                 base |-> q.base]
<1>1. [q EXCEPT !.pc = pc] = p
  BY DEF Request
<1>2. /\ [p EXCEPT !.rev = n]
           = [pc |-> pc, example |-> q.example, rev |-> n, given |-> q.given,
              base |-> q.base]
      /\ [p EXCEPT !.base = n]
           = [pc |-> pc, example |-> q.example, rev |-> q.rev, given |-> q.given,
              base |-> n]
  OBVIOUS
<1> HIDE DEF p
<1>3. /\ [q EXCEPT !.pc = pc, !.rev = n] = [p EXCEPT !.rev = n]
      /\ [q EXCEPT !.pc = pc, !.base = n] = [p EXCEPT !.base = n]
  BY <1>1
<1>4. QED
  BY <1>1, <1>2, <1>3 DEF p

LEMMA ReadingKeeps ==
    ASSUME CInv, NEW r \in Reviewers, Resolve(r) \/ ReadBase(r) \/ Conflict(r)
    PROVE  CInv'
<1> DEFINE q == review[r]
           e == q.example
<1>1. q \in Request /\ Rooted(q) /\ q.pc # "idle"
  BY DEF CInv, CurationTypeOK, RequestsRooted, Resolve, ReadBase, Conflict
<1>2. e \in Examples /\ rows[e].status # "absent"
  BY <1>1 DEF Rooted
<1>3. \A x \in revs[e] : x.token \in RevisionTokens /\ x.rev \in Nat /\ x.token # 0
  BY <1>2, CurationSizes DEF CInv, CurationTypeOK, Revision, RevisionTokens
<1>4. CASE Resolve(r)
  <2>1. PICK n \in IF revs[e] = {} THEN {1} ELSE {x.rev : x \in Latest(e)} :
            review' = [review EXCEPT ![r].pc = "read", ![r].rev = n]
    BY <1>4 DEF Resolve
  <2>2. n \in Nat
    BY <2>1, <1>3 DEF Latest
  <2> DEFINE p == [pc |-> "read", example |-> e, rev |-> n, given |-> q.given, base |-> q.base]
  <2>3. p \in Request
    BY <1>1, <2>2 DEF Request
  <2>4. [q EXCEPT !.pc = "read", !.rev = n] = p
    BY <1>1, RequestFields
  <2>5. review' = [review EXCEPT ![r] = p]
    BY <2>1, <2>4
  <2>6. Rooted(p)
    BY <1>1, <1>2, <1>4 DEF Rooted, Resolve
  <2>7. QED
    BY <1>4, <2>3, <2>5, <2>6, RequestStep DEF Resolve
<1>5. CASE ReadBase(r)
  <2>1. CASE /\ revs[e] = {} /\ q.rev = 1 /\ TokenFits(r, 0)
             /\ review' = [review EXCEPT ![r].pc = "decide"]
    <3> DEFINE p == [pc |-> "decide", example |-> e, rev |-> q.rev, given |-> q.given,
                     base |-> q.base]
    <3>1. p \in Request
      BY <1>1 DEF Request
    <3>2. [q EXCEPT !.pc = "decide"] = p
      BY <1>1, RequestFields
    <3>3. review' = [review EXCEPT ![r] = p]
      BY <3>2, <2>1
    <3>4. q.base = 0
      BY <1>1, <1>5 DEF Rooted, ReadBase
    <3>5. Rooted(p)
      BY <1>2, <2>1, <3>4 DEF Rooted, TokenFits
    <3>6. QED
      BY <1>5, <3>1, <3>3, <3>5, RequestStep DEF ReadBase
  <2>2. CASE \E x \in Latest(e) :
                /\ q.rev = x.rev /\ TokenFits(r, x.token)
                /\ review' = [review EXCEPT ![r].pc = "decide", ![r].base = x.token]
    <3>1. PICK x \in Latest(e) :
                /\ q.rev = x.rev /\ TokenFits(r, x.token)
                /\ review' = [review EXCEPT ![r].pc = "decide", ![r].base = x.token]
      BY <2>2
    <3>2. x \in revs[e] /\ x.token \in 0..MaxRevisions /\ x.token # 0
      BY <1>3, <3>1, CurationSizes DEF Latest, RevisionTokens
    <3> DEFINE p == [pc |-> "decide", example |-> e, rev |-> q.rev, given |-> q.given,
                     base |-> x.token]
    <3>3. p \in Request
      BY <1>1, <3>2 DEF Request
    <3>4. [q EXCEPT !.pc = "decide", !.base = x.token] = p
      BY <1>1, RequestFields
    <3>5. review' = [review EXCEPT ![r] = p]
      BY <3>1, <3>4
    <3>6. Rooted(p)
      BY <1>2, <3>1, <3>2 DEF Rooted, TokenFits
    <3>7. QED
      BY <1>5, <3>3, <3>5, <3>6, RequestStep DEF ReadBase
  <2>3. QED
    BY <1>5, <2>1, <2>2 DEF ReadBase
<1>6. CASE Conflict(r)
  <2>1. NoRequest \in Request
    <3>1. 0 \in 0..MaxRevisions /\ 0 \in 0..NumExamples /\ 0 \in Nat
      BY CurationSizes
    <3>2. QED
      BY <3>1 DEF NoRequest, Request
  <2>2. Rooted(NoRequest)
    BY DEF Rooted, NoRequest
  <2>3. QED
    BY <1>6, <2>1, <2>2, RequestStep DEF Conflict
<1>7. QED
  BY <1>4, <1>5, <1>6

\* What a commit does to the makers and the disturbed versions is within types.
LEMMA DisturbTypes ==
    ASSUME CurationTypeOK, NEW v, Disturbs(v)
    PROVE  maker' \in [Makers -> Making] /\ disturbed' \subseteq Versions
<1>1. NoMaking \in Making
  <2>1. 0 \in 0..MaxVersions
    BY CurationSizes
  <2>2. QED
    BY <2>1 DEF NoMaking, Making
<1>2. \A k \in Making : [k EXCEPT !.quiet = FALSE] \in Making
  BY DEF Making
<1>3. QED
  BY <1>1, <1>2 DEF Disturbs, CurationTypeOK

\* A decision adds records under tokens nobody has seen, so what is on record
\* stays as it is and no decision names the revision it adds.
LEMMA DecideKeeps ==
    ASSUME CInv, NEW r \in Reviewers, NEW verdict \in UsedVerdicts, Decide(r, verdict)
    PROVE  CInv'
<1> DEFINE q == review[r]
           e == q.example
           base == IF q.base = 0 THEN issued + 1 ELSE q.base
           last == IF q.base = 0 THEN issued + 2 ELSE issued + 1
           d == [rev |-> q.rev, token |-> base, verdict |-> verdict,
                 given |-> q.given, made |-> last]
           x == [rev |-> q.rev + 1, parent |-> q.rev, token |-> last,
                 status |-> StatusOf(verdict)]
           b == [rev |-> 1, parent |-> 0, token |-> issued + 1, status |-> rows[e].status]
           old == revs[e] \cup (IF q.base = 0 THEN {b} ELSE {})
<1>1. q \in Request /\ Rooted(q) /\ q.pc = "decide"
  BY DEF CInv, CurationTypeOK, RequestsRooted, Decide
<1>2. /\ e \in Examples /\ rows[e].status # "absent"
      /\ q.base = 0 => q.rev = 1 /\ q.given = 0
      /\ q.base # 0 => /\ \E y \in revs[e] : y.token = q.base /\ y.rev = q.rev
                       /\ q.given # 0 => q.given = q.base
  BY <1>1 DEF Rooted
<1>3. /\ last <= MaxRevisions
      /\ issued' = last
      /\ decisions' = [decisions EXCEPT ![e] = @ \cup {d}]
      /\ revs' = [revs EXCEPT ![e] = old \cup {x}]
      /\ rows' = [rows EXCEPT ![e].status = StatusOf(verdict)]
      /\ review' = [review EXCEPT ![r] = NoRequest]
      /\ Disturbs(0)
      /\ versions' = versions
  BY <1>1, <1>2 DEF Decide, Bootstrap, Show
<1>4. /\ rows \in [Examples -> ExampleRow] /\ rows[e].status \in Statuses
      /\ revs \in [Examples -> SUBSET Revision]
      /\ decisions \in [Examples -> SUBSET Decision]
      /\ issued \in Nat /\ review \in [Reviewers -> Request]
      /\ StatusOf(verdict) \in Statuses
  <2>1. StatusOf(verdict) \in Statuses
    BY CurationVerdicts DEF StatusOf, Statuses
  <2>2. QED
    BY <1>2, <2>1, CurationSizes DEF CInv, CurationTypeOK, ExampleRow
<1>5. /\ issued + 1 \in RevisionTokens /\ last \in RevisionTokens /\ last > issued
      /\ base \in RevisionTokens /\ base < last /\ q.rev \in Nat \ {0}
  <2>1. CASE q.base = 0
    BY <1>2, <1>3, <1>4, <2>1, CurationSizes DEF RevisionTokens
  <2>2. CASE q.base # 0
    <3>1. PICK y \in revs[e] : y.token = q.base /\ y.rev = q.rev
      BY <1>2, <2>2
    <3>2. y \in Revision /\ y.token <= issued
      BY <1>2, <1>4 DEF CInv, TokensIssuedOnce
    <3>3. y.token \in RevisionTokens /\ y.rev \in Nat \ {0}
      BY <3>2 DEF Revision
    <3>4. QED
      BY <1>3, <1>4, <2>2, <3>1, <3>2, <3>3, CurationSizes DEF RevisionTokens
  <2>3. QED
    BY <2>1, <2>2
<1>6. d \in Decision /\ x \in Revision /\ b \in Revision
  <2>1. d \in Decision
    <3>1. verdict \in ReviewVerdicts /\ q.given \in 0..MaxRevisions
      BY <1>1, CurationVerdicts DEF ReviewVerdicts, Request
    <3>2. QED
      BY <1>5, <3>1 DEF Decision
  <2>2. x \in Revision
    <3>1. q.rev + 1 \in Nat \ {0} /\ q.rev \in Nat
      BY <1>5
    <3>2. QED
      BY <1>4, <1>5, <3>1 DEF Revision
  <2>3. b \in Revision
    BY <1>4, <1>5 DEF Revision
  <2>4. QED
    BY <2>1, <2>2, <2>3
<1>7. /\ \A y \in revs[e] : y \in Revision /\ y.token \in Nat /\ y.token <= issued
      /\ \A c \in decisions[e] : /\ c.token \in Nat /\ c.token <= issued
                                 /\ c.given # 0 => c.given = c.token
  BY <1>2, <1>4 DEF CInv, TokensIssuedOnce, TokenMeansWhatWasSeen, Revision, Decision, RevisionTokens
<1>8. \E y \in old : y.token = base /\ y.rev = q.rev
  <2>1. CASE q.base = 0
    <3>1. b \in old /\ b.token = base /\ b.rev = q.rev
      BY <1>2, <2>1
    <3>2. QED
      BY <3>1
  <2>2. CASE q.base # 0
    BY <1>2, <2>2
  <2>3. QED
    BY <2>1, <2>2
<1>9. \A y \in old : y.token < last
  BY <1>4, <1>7
<1>10. \A y, z \in old : y.token = z.token => y = z
  BY <1>2, <1>4, <1>7 DEF CInv, TokensIssuedOnce
<1> HIDE DEF d, x, b, old, last, base
<1>11. /\ x.token = last /\ x.rev = q.rev + 1 /\ x.parent = q.rev /\ x.status = StatusOf(verdict)
       /\ d.made = last /\ d.token = base /\ d.rev = q.rev /\ d.given = q.given
       /\ old \in SUBSET Revision /\ revs[e] \subseteq old
       /\ \A y \in old \ revs[e] : y.rev = 1
       /\ \A y \in old \ revs[e] : y.token > issued
  BY <1>4, <1>6, <1>2 DEF x, d, b, old
<1>12. CurationTypeOK'
  <2>1. issued' \in 0..MaxRevisions
    BY <1>3, <1>5 DEF RevisionTokens
  <2>2. rows' \in [Examples -> ExampleRow]
    <3>1. \A row \in ExampleRow, s \in Statuses : [row EXCEPT !.status = s] \in ExampleRow
      BY DEF ExampleRow
    <3>2. rows' = [rows EXCEPT ![e] = [rows[e] EXCEPT !.status = StatusOf(verdict)]]
      BY <1>3
    <3>3. QED
      BY <1>2, <1>4, <3>1, <3>2
  <2>3. review' \in [Reviewers -> Request]
    <3>1. 0 \in 0..MaxRevisions /\ 0 \in 0..NumExamples /\ 0 \in Nat
      BY CurationSizes
    <3>2. NoRequest \in Request
      BY <3>1 DEF NoRequest, Request
    <3>3. QED
      BY <1>3, <1>4, <3>2
  <2>4. maker' \in [Makers -> Making] /\ disturbed' \subseteq Versions
    BY <1>3, DisturbTypes DEF CInv
  <2>5. revs' \in [Examples -> SUBSET Revision]
    BY <1>2, <1>3, <1>4, <1>6, <1>11
  <2>6. decisions' \in [Examples -> SUBSET Decision]
    BY <1>2, <1>3, <1>4, <1>6
  <2>7. QED
    BY <1>3, <2>1, <2>2, <2>3, <2>4, <2>5, <2>6 DEF CurationTypeOK, CInv
<1>13. \A f \in Examples \ {e} : /\ revs'[f] = revs[f] /\ decisions'[f] = decisions[f]
                                 /\ rows'[f] = rows[f]
  BY <1>2, <1>3, <1>4
<1>14. /\ revs'[e] = old \cup {x} /\ decisions'[e] = decisions[e] \cup {d}
       /\ rows'[e].status = StatusOf(verdict)
  <2>1. \A row \in ExampleRow, s \in Statuses : [row EXCEPT !.status = s].status = s
    BY DEF ExampleRow
  <2>2. QED
    BY <1>2, <1>3, <1>4, <2>1
<1>15. TokensIssuedOnce'
  <2> SUFFICES ASSUME NEW f \in Examples
               PROVE  /\ \A y \in revs'[f] : y.token <= issued'
                      /\ \A y, z \in revs'[f] : y.token = z.token => y = z
                      /\ \A c \in decisions'[f] : c.token <= issued'
    BY DEF TokensIssuedOnce
  <2>1. CASE f = e
    <3>1. \A y \in old : y.token \in Nat
      BY <1>11 DEF Revision, RevisionTokens
    <3>2. \A y \in revs'[f] : y.token <= last
      BY <1>5, <1>9, <1>11, <1>14, <2>1, <3>1 DEF RevisionTokens
    <3>3. \A y, z \in revs'[f] : y.token = z.token => y = z
      BY <1>5, <1>9, <1>10, <1>11, <1>14, <2>1, <3>1 DEF RevisionTokens
    <3>4. \A c \in decisions'[f] : c.token <= last
      <4>1. last \in Nat /\ base \in Nat /\ base <= last /\ issued <= last
        BY <1>4, <1>5 DEF RevisionTokens
      <4>2. \A c \in decisions[e] : c.token <= last
        BY <1>4, <1>7, <4>1
      <4>3. d.token <= last
        BY <1>11, <4>1
      <4>4. QED
        BY <1>14, <2>1, <4>2, <4>3
    <3>5. QED
      BY <1>3, <3>2, <3>3, <3>4
  <2>2. CASE f # e
    <3>1. /\ \A y \in revs[f] : y.token \in Nat /\ y.token <= issued
          /\ \A c \in decisions[f] : c.token \in Nat /\ c.token <= issued
      BY <1>4 DEF CInv, TokensIssuedOnce, Revision, Decision, RevisionTokens
    <3>2. /\ \A y \in revs'[f] : y.token <= issued'
          /\ \A c \in decisions'[f] : c.token <= issued'
      BY <1>3, <1>4, <1>5, <1>13, <2>2, <3>1 DEF RevisionTokens
    <3>3. QED
      BY <1>13, <2>2, <3>2 DEF CInv, TokensIssuedOnce
  <2>3. QED
    BY <2>1, <2>2
<1>16. RequestsRooted'
  <2> SUFFICES ASSUME NEW s \in Reviewers PROVE Rooted(review[s])'
    BY DEF RequestsRooted
  <2>1. CASE s = r
    BY <1>3, <1>4, <2>1 DEF Rooted, NoRequest
  <2>2. CASE s # r
    <3>1. review'[s] = review[s] /\ Rooted(review[s])
      BY <1>3, <1>4, <2>2 DEF CInv, RequestsRooted
    <3>2. \A f \in Examples : /\ revs[f] \subseteq revs'[f]
                              /\ rows[f].status # "absent" => rows'[f].status # "absent"
      BY <1>4, <1>11, <1>13, <1>14 DEF Statuses
    <3>3. QED
      <4>1. PICK k : k = review[s] /\ k = review'[s] /\ Rooted(k)
        BY <3>1
      <4>2. k.pc # "idle" => /\ k.example \in Examples /\ rows'[k.example].status # "absent"
                             /\ revs[k.example] \subseteq revs'[k.example]
        BY <3>2, <4>1 DEF Rooted
      <4>3. Rooted(k)'
        BY <4>1, <4>2 DEF Rooted
      <4>4. QED
        BY <4>1, <4>3 DEF Rooted
  <2>3. QED
    BY <2>1, <2>2
<1>17. AbsentUnreviewed'
  BY <1>4, <1>13, <1>14 DEF CInv, AbsentUnreviewed, Statuses
<1>18. DecisionsRooted'
  <2> SUFFICES ASSUME NEW f \in Examples, NEW y \in revs'[f], y.rev > 1
               PROVE  \E c \in decisions'[f], z \in revs'[f] :
                          /\ c.made = y.token /\ c.token = z.token
                          /\ c.rev = z.rev /\ y.parent = z.rev /\ y.rev = z.rev + 1
    BY DEF DecisionsRooted
  <2>1. CASE y \in revs[f]
    <3>1. revs[f] \subseteq revs'[f] /\ decisions[f] \subseteq decisions'[f]
      BY <1>11, <1>13, <1>14
    <3>2. QED
      BY <2>1, <3>1 DEF CInv, DecisionsRooted
  <2>2. CASE y \notin revs[f]
    <3>1. f = e /\ y = x
      BY <1>11, <1>13, <1>14, <2>2
    <3>2. PICK z \in old : z.token = base /\ z.rev = q.rev
      BY <1>8
    <3>3. d \in decisions'[f] /\ z \in revs'[f]
      BY <1>14, <3>1
    <3>4. QED
      BY <1>11, <3>1, <3>2, <3>3
  <2>3. QED
    BY <2>1, <2>2
<1>19. TokenMeansWhatWasSeen'
  <2> SUFFICES ASSUME NEW f \in Examples, NEW c \in decisions'[f], c.given # 0
               PROVE  /\ c.token = c.given
                      /\ \A y \in revs'[f] : y.token = c.given => y.rev = c.rev
    BY DEF TokenMeansWhatWasSeen
  <2>1. CASE f # e
    BY <1>13, <2>1 DEF CInv, TokenMeansWhatWasSeen
  <2>2. CASE f = e /\ c \in decisions[e]
    <3>1. c.token = c.given /\ c.given \in Nat /\ c.given <= issued
      <4>1. c.given = c.token
        BY <1>7, <2>2
      <4>2. c.token \in Nat /\ c.token <= issued
        BY <1>7, <2>2
      <4>3. QED
        BY <1>4, <4>1, <4>2
    <3>2. \A y \in revs[e] : y.token = c.given => y.rev = c.rev
      BY <1>2, <2>2 DEF CInv, TokenMeansWhatWasSeen
    <3>3. \A y \in revs'[e] \ revs[e] : y.token \in Nat /\ y.token > issued
      BY <1>4, <1>5, <1>11, <1>14 DEF Revision, RevisionTokens
    <3>4. \A y \in revs'[e] \ revs[e] : y.token # c.given
      BY <1>4, <3>1, <3>3
    <3>5. QED
      BY <2>2, <3>1, <3>2, <3>4
  <2>3. CASE f = e /\ c = d
    <3>1. q.given # 0 /\ q.base # 0 /\ q.given = q.base
      BY <1>2, <1>11, <2>3
    <3>2. base = q.base
      BY <3>1 DEF base
    <3>3. \A y \in old : y.token = base => y.rev = q.rev
      BY <1>8, <1>10
    <3>4. x.token # base
      BY <1>5, <1>11 DEF RevisionTokens
    <3>5. QED
      BY <1>11, <1>14, <2>3, <3>1, <3>2, <3>3, <3>4
  <2>4. QED
    BY <1>14, <2>1, <2>2, <2>3
<1>20. ShownStatusIsOpen'
  <2> SUFFICES ASSUME NEW f \in Examples, revs'[f] # {}
               PROVE  \E y \in revs'[f] : /\ y.status = rows'[f].status
                                          /\ \A c \in decisions'[f] : c.token # y.token
    BY DEF ShownStatusIsOpen
  <2>1. CASE f # e
    BY <1>13, <2>1 DEF CInv, ShownStatusIsOpen
  <2>2. CASE f = e
    <3>1. \A c \in decisions'[e] : c.token # last
      <4>1. last \in Nat /\ base \in Nat /\ base < last /\ issued < last
        BY <1>4, <1>5 DEF RevisionTokens
      <4>2. \A c \in decisions[e] : c.token # last
        BY <1>4, <1>7, <4>1
      <4>3. d.token # last
        BY <1>11, <4>1
      <4>4. QED
        BY <1>14, <4>2, <4>3
    <3>2. x \in revs'[e] /\ x.status = rows'[e].status
      BY <1>11, <1>14
    <3>3. QED
      BY <1>11, <2>2, <3>1, <3>2
  <2>3. QED
    BY <2>1, <2>2
<1>21. QED
  BY <1>12, <1>15, <1>16, <1>17, <1>18, <1>19, <1>20 DEF CInv

-----------------------------------------------------------------------------
(* Versions. *)

\* What the makers of versions hold.
MakersTrack ==
    \A m \in Makers :
        /\ maker[m].pc = "listed" /\ maker[m].quiet => maker[m].members = Newest(Accepted)
        /\ maker[m].pc = "composed" =>
              /\ maker[m].version \in Versions
              /\ versions[maker[m].version].state = "composed"
              /\ versions[maker[m].version].members = maker[m].members
              /\ maker[m].version \notin disturbed => maker[m].members = Newest(Accepted)

\* No two makers make the same version.
MakersApart ==
    \A m, n \in Makers :
        maker[m].pc = "composed" /\ maker[n].pc = "composed" /\ maker[m].version = maker[n].version
            => m = n

DisturbedUsed == \A v \in disturbed : versions[v].state # "unused"

VInv == /\ MakersTrack
        /\ MakersApart
        /\ DisturbedUsed
        /\ QuietVersionExportsMembers

\* Taking the newest of the newest changes nothing.
LEMMA NewestAgain ==
    ASSUME NEW S \in SUBSET Examples
    PROVE  Newest(Newest(S)) = Newest(S)
<1>1. ASSUME NEW e \in Newest(S)
      PROVE  Cardinality({f \in Newest(S) : f > e}) < PageLimit
  <2> DEFINE T == {f \in S : f > e}
             U == {f \in Newest(S) : f > e}
  <2>1. IsFiniteSet(Examples)
    BY FS_Interval, CurationSizes DEF Examples
  <2>2. IsFiniteSet(T)
    BY <2>1, FS_Subset
  <2>3. U \subseteq T
    BY DEF Newest
  <2>4. IsFiniteSet(U) /\ Cardinality(U) <= Cardinality(T)
    BY <2>2, <2>3, FS_Subset
  <2>5. Cardinality(U) \in Nat /\ Cardinality(T) \in Nat
    BY <2>2, <2>4, FS_CardinalityType
  <2>6. Cardinality(T) < PageLimit
    BY DEF Newest
  <2>7. QED
    BY <2>4, <2>5, <2>6, CurationSizes
<1>2. QED
  BY <1>1 DEF Newest

\* A step that leaves the reviews alone and only adds examples keeps their invariant.
LEMMA ReviewsUntouched ==
    ASSUME CInv, UNCHANGED <<revs, decisions, issued, review>>,
           rows' \in [Examples -> ExampleRow], versions' \in [Versions -> Version],
           maker' \in [Makers -> Making], disturbed' \subseteq Versions,
           \A e \in Examples : \/ rows'[e].status = rows[e].status
                               \/ rows[e].status = "absent" /\ rows'[e].status # "absent"
    PROVE  CInv'
<1>1. CurationTypeOK' /\ TokensIssuedOnce' /\ DecisionsRooted' /\ TokenMeansWhatWasSeen'
  BY DEF CInv, CurationTypeOK, TokensIssuedOnce, DecisionsRooted, TokenMeansWhatWasSeen
<1>2. RequestsRooted'
  BY DEF CInv, RequestsRooted, Rooted
<1>3. AbsentUnreviewed'
  BY DEF CInv, AbsentUnreviewed
<1>4. ShownStatusIsOpen'
  <2> SUFFICES ASSUME NEW e \in Examples, revs[e] # {}
               PROVE  rows'[e].status = rows[e].status
    BY DEF CInv, ShownStatusIsOpen
  <2>1. QED
    BY DEF CInv, AbsentUnreviewed
<1>5. QED
  BY <1>1, <1>2, <1>3, <1>4 DEF CInv

\* Stamping changes no status.
LEMMA StampTypes ==
    ASSUME NEW table \in [Examples -> ExampleRow], NEW v \in Versions
    PROVE  /\ StampAccepted(table, v) \in [Examples -> ExampleRow]
           /\ \A e \in Examples :
                 /\ StampAccepted(table, v)[e].status = table[e].status
                 /\ table[e].status = "accepted" => StampAccepted(table, v)[e].stamp = v
<1>1. v \in 0..MaxVersions
  BY CurationSizes DEF Versions
<1>2. \A k \in ExampleRow : /\ [k EXCEPT !.stamp = v] \in ExampleRow
                            /\ [k EXCEPT !.stamp = v].status = k.status
                            /\ [k EXCEPT !.stamp = v].stamp = v
  BY <1>1 DEF ExampleRow
<1>3. QED
  BY <1>2 DEF StampAccepted

\* After a stamp, what a version exports is the newest of what is accepted.
LEMMA StampedExport ==
    ASSUME NEW table \in [Examples -> ExampleRow], NEW v \in Versions,
           rows' = StampAccepted(table, v)
    PROVE  Exported(v)' = Newest({e \in Examples : table[e].status = "accepted"})
<1>1. {e \in Accepted' : rows'[e].stamp = v} = {e \in Examples : table[e].status = "accepted"}
  BY StampTypes DEF Accepted
<1>2. QED
  BY <1>1 DEF Exported, Newest

LEMMA ListKeeps ==
    ASSUME CInv, VInv, NEW m \in Makers, List(m)
    PROVE  CInv' /\ VInv'
<1> DEFINE k == [pc |-> "listed", version |-> 0, members |-> MembersToBe, quiet |-> TRUE]
<1>1. k \in Making
  <2>1. 0 \in 0..MaxVersions /\ MembersToBe \subseteq Examples
    BY CurationSizes DEF MembersToBe, Newest, Accepted
  <2>2. QED
    BY <2>1 DEF Making
<1>2. maker \in [Makers -> Making] /\ maker' = [maker EXCEPT ![m] = k]
  BY DEF List, CInv, CurationTypeOK
<1>3. UNCHANGED <<rows, revs, decisions, issued, versions, review, disturbed>>
  BY DEF List
<1>4. CInv'
  BY <1>1, <1>2, <1>3, ReviewsUntouched DEF CInv, CurationTypeOK
<1>5. MakersTrack'
  <2>1. Newest(Accepted)' = Newest(Accepted)
    BY <1>3 DEF Newest, Accepted
  <2> SUFFICES ASSUME NEW n \in Makers
               PROVE  /\ maker'[n].pc = "listed" /\ maker'[n].quiet
                            => maker'[n].members = Newest(Accepted)
                      /\ maker'[n].pc = "composed" =>
                            /\ maker'[n].version \in Versions
                            /\ versions[maker'[n].version].state = "composed"
                            /\ versions[maker'[n].version].members = maker'[n].members
                            /\ maker'[n].version \notin disturbed
                                  => maker'[n].members = Newest(Accepted)
    BY <1>3, <2>1 DEF MakersTrack
  <2>2. CASE n = m
    BY <1>2, <2>2 DEF MembersToBe
  <2>3. CASE n # m
    BY <1>2, <2>3 DEF VInv, MakersTrack
  <2>4. QED
    BY <2>2, <2>3
<1>6. MakersApart'
  BY <1>2 DEF VInv, MakersApart
<1>7. DisturbedUsed' /\ QuietVersionExportsMembers'
  BY <1>3 DEF VInv, DisturbedUsed, QuietVersionExportsMembers, Exported, Newest, Accepted
<1>8. QED
  BY <1>4, <1>5, <1>6, <1>7 DEF VInv

LEMMA ComposeKeeps ==
    ASSUME CInv, VInv, NEW m \in Makers, Compose(m)
    PROVE  CInv' /\ VInv'
<1>1. PICK v \in Versions, prior \in PriorVersion :
          /\ NextVersion(v)
          /\ versions' = [versions EXCEPT ![v] = [state |-> "composed", parent |-> prior,
                                                  members |-> maker[m].members]]
          /\ maker' = [maker EXCEPT ![m].pc = "composed", ![m].version = v]
          /\ disturbed' = IF maker[m].quiet THEN disturbed ELSE disturbed \cup {v}
  BY DEF Compose
<1> DEFINE k == [pc |-> "composed", version |-> v, members |-> maker[m].members,
                 quiet |-> maker[m].quiet]
           p == [pc |-> "composed", version |-> maker[m].version,
                 members |-> maker[m].members, quiet |-> maker[m].quiet]
           w == [state |-> "composed", parent |-> prior, members |-> maker[m].members]
<1>2. /\ maker \in [Makers -> Making] /\ maker[m].pc = "listed"
      /\ versions \in [Versions -> Version] /\ versions[v].state = "unused"
      /\ rows \in [Examples -> ExampleRow] /\ disturbed \subseteq Versions
      /\ UNCHANGED <<rows, revs, decisions, issued, review>>
  BY <1>1 DEF Compose, CInv, CurationTypeOK, NextVersion
<1>3. k \in Making /\ w \in Version
  <2>1. v \in 0..MaxVersions /\ prior \in 0..MaxVersions
    BY <1>1, CurationSizes DEF Versions, PriorVersion
  <2>2. maker[m] \in Making
    BY <1>2
  <2>3. QED
    BY <2>1, <2>2 DEF Making, Version
<1>4. maker' = [maker EXCEPT ![m] = k]
  <2>1. [maker[m] EXCEPT !.pc = "composed"] = p
    BY <1>2 DEF Making
  <2>2. [p EXCEPT !.version = v] = k
    OBVIOUS
  <2> HIDE DEF p, k
  <2>3. [maker[m] EXCEPT !.pc = "composed", !.version = v] = k
    BY <2>1, <2>2
  <2>4. QED
    BY <1>1, <2>3
<1>5. CInv'
  <2>1. maker' \in [Makers -> Making] /\ versions' \in [Versions -> Version]
        /\ disturbed' \subseteq Versions
    BY <1>1, <1>2, <1>3, <1>4
  <2>2. QED
    BY <1>2, <2>1, ReviewsUntouched
<1>6. /\ Newest(Accepted)' = Newest(Accepted)
      /\ \A u \in Versions : Exported(u)' = Exported(u)
  BY <1>2 DEF Newest, Accepted, Exported
<1>7. \A u \in Versions : versions'[u] = IF u = v THEN w ELSE versions[u]
  BY <1>1, <1>2
<1>8. \A n \in Makers : maker'[n] = IF n = m THEN k ELSE maker[n]
  BY <1>2, <1>4
<1>9. MakersTrack'
  <2> SUFFICES ASSUME NEW n \in Makers
               PROVE  /\ maker'[n].pc = "listed" /\ maker'[n].quiet
                            => maker'[n].members = Newest(Accepted)
                      /\ maker'[n].pc = "composed" =>
                            /\ maker'[n].version \in Versions
                            /\ versions'[maker'[n].version].state = "composed"
                            /\ versions'[maker'[n].version].members = maker'[n].members
                            /\ maker'[n].version \notin disturbed'
                                  => maker'[n].members = Newest(Accepted)
    BY <1>6 DEF MakersTrack
  <2>1. CASE n = m
    <3>1. maker'[n] = k /\ versions'[v] = w
      BY <1>7, <1>8, <2>1
    <3>2. v \notin disturbed' => maker[m].quiet
      BY <1>1
    <3>3. maker[m].quiet => maker[m].members = Newest(Accepted)
      BY <1>2 DEF VInv, MakersTrack
    <3>4. QED
      BY <3>1, <3>2, <3>3
  <2>2. CASE n # m
    <3>1. maker'[n] = maker[n] /\ disturbed \subseteq disturbed'
      BY <1>1, <1>8, <2>2
    <3>2. maker[n].pc = "composed" => /\ maker[n].version \in Versions
                                      /\ maker[n].version # v
      BY <1>2 DEF VInv, MakersTrack
    <3>3. maker[n].pc = "composed" => versions'[maker[n].version] = versions[maker[n].version]
      BY <1>7, <3>2
    <3>4. QED
      BY <3>1, <3>3 DEF VInv, MakersTrack
  <2>3. QED
    BY <2>1, <2>2
<1>10. MakersApart'
  <2>1. \A n \in Makers : n # m /\ maker[n].pc = "composed" => maker[n].version # v
    BY <1>2 DEF VInv, MakersTrack
  <2>2. QED
    BY <1>8, <2>1 DEF VInv, MakersApart
<1>11. DisturbedUsed'
  <2>1. \A u \in disturbed' : u = v \/ u \in disturbed
    BY <1>1
  <2>2. QED
    BY <1>2, <1>7, <2>1 DEF VInv, DisturbedUsed
<1>12. QuietVersionExportsMembers'
  <2> SUFFICES ASSUME NEW u \in Versions, versions'[u].state = "made", u \notin disturbed'
               PROVE  Exported(u)' = Newest(versions'[u].members)
    BY DEF QuietVersionExportsMembers
  <2>1. u # v /\ versions'[u] = versions[u] /\ u \notin disturbed
    BY <1>1, <1>7
  <2>2. Exported(u) = Newest(versions[u].members)
    BY <2>1 DEF VInv, QuietVersionExportsMembers
  <2>3. QED
    BY <1>6, <2>1, <2>2 DEF Newest
<1>13. QED
  BY <1>5, <1>9, <1>10, <1>11, <1>12 DEF VInv

\* A commit other than the pipeline's disturbs every version in use but its own, and
\* only those.
LEMMA DisturbFacts ==
    ASSUME CInv, VInv, NEW own, Disturbs(own)
    PROVE  /\ \A u \in Versions \ {own} : u \in disturbed' <=> versions[u].state # "unused"
           /\ own \in disturbed' <=> own \in disturbed
           /\ \A n \in Makers :
                 \/ maker'[n].pc = "idle"
                 \/ /\ maker'[n].pc = maker[n].pc /\ maker'[n].version = maker[n].version
                    /\ maker'[n].members = maker[n].members /\ ~maker'[n].quiet
                    /\ ~(maker[n].pc = "composed" /\ maker[n].version = own)
<1>1. disturbed \subseteq Versions /\ maker \in [Makers -> Making]
  BY DEF CInv, CurationTypeOK
<1>2. \A k \in Making : LET c == [k EXCEPT !.quiet = FALSE]
                        IN /\ c.pc = k.pc /\ c.version = k.version
                           /\ c.members = k.members /\ ~c.quiet
  BY DEF Making
<1>3. QED
  BY <1>1, <1>2 DEF Disturbs, NoMaking, VInv, DisturbedUsed

\* After a commit only its own version, if it has one, is undisturbed, and no maker
\* believes in its listing.
LEMMA AfterCommit ==
    ASSUME VInv, NEW own,
           disturbed' \subseteq Versions,
           \A u \in Versions \ {own} : u \in disturbed' <=> versions[u].state # "unused",
           \A n \in Makers :
              \/ maker'[n].pc = "idle"
              \/ /\ maker'[n].pc = maker[n].pc /\ maker'[n].version = maker[n].version
                 /\ maker'[n].members = maker[n].members /\ ~maker'[n].quiet
                 /\ ~(maker[n].pc = "composed" /\ maker[n].version = own),
           \A u \in Versions \ {own} : versions'[u] = versions[u],
           own \in disturbed' => versions'[own].state # "unused",
           own \in Versions /\ own \notin disturbed' /\ versions'[own].state = "made"
              => Exported(own)' = Newest(versions'[own].members)
    PROVE  VInv'
<1>1. MakersTrack'
  <2> SUFFICES ASSUME NEW n \in Makers
               PROVE  /\ ~(maker'[n].pc = "listed" /\ maker'[n].quiet)
                      /\ maker'[n].pc = "composed" =>
                            /\ maker'[n].version \in Versions
                            /\ versions'[maker'[n].version].state = "composed"
                            /\ versions'[maker'[n].version].members = maker'[n].members
                            /\ maker'[n].version \in disturbed'
    BY DEF MakersTrack
  <2>1. ~(maker'[n].pc = "listed" /\ maker'[n].quiet)
    OBVIOUS
  <2>2. ASSUME maker'[n].pc = "composed"
        PROVE  /\ maker'[n].version \in Versions
               /\ versions'[maker'[n].version].state = "composed"
               /\ versions'[maker'[n].version].members = maker'[n].members
               /\ maker'[n].version \in disturbed'
    <3>1. /\ maker[n].pc = "composed" /\ maker'[n].version = maker[n].version
          /\ maker'[n].members = maker[n].members /\ maker[n].version # own
      BY <2>2
    <3>2. /\ maker[n].version \in Versions \ {own}
          /\ versions[maker[n].version].state = "composed"
          /\ versions[maker[n].version].members = maker[n].members
      BY <3>1 DEF VInv, MakersTrack
    <3>3. versions'[maker[n].version] = versions[maker[n].version]
      BY <3>2
    <3>4. maker[n].version \in disturbed'
      BY <3>2
    <3>5. QED
      BY <3>1, <3>2, <3>3, <3>4
  <2>3. QED
    BY <2>1, <2>2
<1>2. MakersApart'
  BY DEF VInv, MakersApart
<1>3. DisturbedUsed'
  <2>1. \A u \in disturbed' : u \in Versions /\ (u # own => versions[u].state # "unused")
    OBVIOUS
  <2>2. QED
    BY <2>1 DEF DisturbedUsed
<1>4. QuietVersionExportsMembers'
  <2> SUFFICES ASSUME NEW u \in Versions, versions'[u].state = "made", u \notin disturbed'
               PROVE  Exported(u)' = Newest(versions'[u].members)
    BY DEF QuietVersionExportsMembers
  <2>1. u = own
    OBVIOUS
  <2>2. QED
    BY <2>1
<1>5. QED
  BY <1>1, <1>2, <1>3, <1>4 DEF VInv

LEMMA StampKeeps ==
    ASSUME CInv, VInv, NEW m \in Makers, Stamp(m)
    PROVE  CInv' /\ VInv'
<1>1. PICK v : v = maker[m].version
  OBVIOUS
<1>2. /\ versions' = [versions EXCEPT ![v].state = "made"]
      /\ rows' = StampAccepted(rows, v) /\ Disturbs(v)
      /\ UNCHANGED <<revs, decisions, issued, review>>
      /\ v \in Versions /\ versions[v].members = maker[m].members
      /\ v \notin disturbed => maker[m].members = Newest(Accepted)
  BY <1>1 DEF Stamp, VInv, MakersTrack
<1>3. /\ rows \in [Examples -> ExampleRow] /\ versions \in [Versions -> Version]
  BY DEF CInv, CurationTypeOK
<1>4. /\ versions' \in [Versions -> Version] /\ versions'[v].state = "made"
      /\ versions'[v].members = versions[v].members
      /\ \A u \in Versions \ {v} : versions'[u] = versions[u]
  <2>1. \A k \in Version : LET c == [k EXCEPT !.state = "made"]
                           IN c \in Version /\ c.state = "made" /\ c.members = k.members
    BY DEF Version
  <2>2. versions' = [versions EXCEPT ![v] = [versions[v] EXCEPT !.state = "made"]]
    BY <1>2
  <2>3. QED
    BY <1>2, <1>3, <2>1, <2>2
<1>5. CInv'
  <2>1. maker' \in [Makers -> Making] /\ disturbed' \subseteq Versions
    BY <1>2, DisturbTypes DEF CInv
  <2>2. QED
    BY <1>2, <1>3, <1>4, <2>1, StampTypes, ReviewsUntouched
<1>6. v \notin disturbed' => Exported(v)' = Newest(versions'[v].members)
  <2>1. v \notin disturbed' => v \notin disturbed
    BY <1>2 DEF Disturbs
  <2>2. Exported(v)' = Newest(Accepted)
    BY <1>2, <1>3, StampedExport DEF Accepted
  <2>3. Newest(Newest(Accepted)) = Newest(Accepted)
    BY NewestAgain DEF Accepted
  <2>4. Newest(versions'[v].members) = Newest(versions[v].members)
    BY <1>4
  <2>5. QED
    BY <1>2, <2>1, <2>2, <2>3, <2>4
<1>7. VInv'
  BY <1>2, <1>4, <1>5, <1>6, AfterCommit, DisturbFacts DEF CInv, CurationTypeOK
<1>8. QED
  BY <1>5, <1>7

LEMMA DecideKeepsVersions ==
    ASSUME CInv, VInv, NEW r \in Reviewers, NEW verdict, Decide(r, verdict)
    PROVE  VInv'
<1>1. 0 \notin Versions
  BY CurationSizes DEF Versions
<1>2. Disturbs(0) /\ versions' = versions
  BY DEF Decide
<1>3. disturbed' \subseteq Versions
  BY <1>2, DisturbTypes DEF CInv
<1>4. QED
  BY <1>1, <1>2, <1>3, AfterCommit, DisturbFacts

LEMMA PersistKeeps ==
    ASSUME CInv, VInv, NEW last \in Examples, PersistResult(last)
    PROVE  CInv' /\ VInv'
<1> DEFINE new == {e \in 1..last : rows[e].status = "absent"}
           table == [e \in Examples |-> IF e \in new THEN [status |-> "accepted", stamp |-> 0]
                                        ELSE rows[e]]
<1>1. PICK v \in Versions :
          /\ NextVersion(v)
          /\ rows' = StampAccepted(table, v)
          /\ versions' = [versions EXCEPT ![v] =
                             [state |-> "made", parent |-> 0, members |-> new]]
          /\ disturbed' = {u \in Versions : versions[u].state # "unused"} \cup
                             IF Accepted = {} THEN {} ELSE {v}
  BY DEF PersistResult
<1>2. /\ maker' = [n \in Makers |-> [maker[n] EXCEPT !.quiet = FALSE]]
      /\ UNCHANGED <<revs, decisions, issued, review>>
  BY DEF PersistResult
<1>3. /\ rows \in [Examples -> ExampleRow] /\ versions \in [Versions -> Version]
      /\ maker \in [Makers -> Making] /\ versions[v].state = "unused"
  BY <1>1 DEF CInv, CurationTypeOK, NextVersion
<1>4. new \subseteq Examples
  BY CurationSizes DEF Examples
<1>5. table \in [Examples -> ExampleRow]
  <2>1. 0 \in 0..MaxVersions
    BY CurationSizes
  <2>2. [status |-> "accepted", stamp |-> 0] \in ExampleRow
    BY <2>1 DEF ExampleRow, Statuses
  <2>3. QED
    BY <1>3, <2>2
<1>6. ASSUME NEW e \in Examples
      PROVE  \/ table[e].status = rows[e].status
             \/ rows[e].status = "absent" /\ table[e].status = "accepted"
  <2>1. CASE e \in new
    <3>1. table[e] = [status |-> "accepted", stamp |-> 0]
      BY <2>1
    <3>2. QED
      BY <2>1, <3>1
  <2>2. CASE e \notin new
    BY <2>2
  <2>3. QED
    BY <2>1, <2>2
<1>7. /\ rows' \in [Examples -> ExampleRow]
      /\ \A e \in Examples : rows'[e].status = table[e].status
      /\ Exported(v)' = Newest({e \in Examples : table[e].status = "accepted"})
  <2> HIDE DEF table
  <2>1. QED
    BY <1>1, <1>5, StampTypes, StampedExport
<1>8. /\ versions' \in [Versions -> Version]
      /\ \A u \in Versions \ {v} : versions'[u] = versions[u]
      /\ versions'[v].state = "made" /\ versions'[v].members = new
  <2>1. 0 \in 0..MaxVersions
    BY CurationSizes
  <2>2. [state |-> "made", parent |-> 0, members |-> new] \in Version
    BY <1>4, <2>1 DEF Version
  <2>3. QED
    BY <1>1, <1>3, <2>2
<1>9. disturbed' \subseteq Versions
  BY <1>1
<1>10. /\ maker' \in [Makers -> Making]
       /\ \A n \in Makers :
             /\ maker'[n].pc = maker[n].pc /\ maker'[n].version = maker[n].version
             /\ maker'[n].members = maker[n].members /\ ~maker'[n].quiet
  <2>1. \A k \in Making : LET c == [k EXCEPT !.quiet = FALSE]
                          IN /\ c \in Making /\ c.pc = k.pc /\ c.version = k.version
                             /\ c.members = k.members /\ ~c.quiet
    BY DEF Making
  <2>2. QED
    BY <1>2, <1>3, <2>1
<1>11. CInv'
  <2>1. \A e \in Examples : \/ rows'[e].status = rows[e].status
                            \/ rows[e].status = "absent" /\ rows'[e].status # "absent"
    BY <1>6, <1>7
  <2>2. QED
    BY <1>2, <1>7, <1>8, <1>9, <1>10, <2>1, ReviewsUntouched
<1>12. v \notin disturbed' => Exported(v)' = Newest(versions'[v].members)
  <2> SUFFICES ASSUME v \notin disturbed'
               PROVE  Exported(v)' = Newest(new)
    BY <1>8
  <2>1. Accepted = {}
    BY <1>1
  <2>2. {e \in Examples : table[e].status = "accepted"} = new
    BY <1>4, <2>1 DEF Accepted
  <2>3. QED
    BY <1>7, <2>2
<1>13. \A u \in Versions \ {v} : u \in disturbed' <=> versions[u].state # "unused"
  BY <1>1
<1>14. \A n \in Makers : ~(maker[n].pc = "composed" /\ maker[n].version = v)
  BY <1>3 DEF VInv, MakersTrack
<1>15. VInv'
  BY <1>8, <1>9, <1>10, <1>12, <1>13, <1>14, AfterCommit
<1>16. QED
  BY <1>11, <1>15

\* A step that leaves rows, versions, makers and disturbances alone.
LEMMA VersionsUntouched ==
    ASSUME VInv, UNCHANGED <<rows, versions, maker, disturbed>>
    PROVE  VInv'
<1>1. /\ Newest(Accepted)' = Newest(Accepted)
      /\ \A u \in Versions : Exported(u)' = Exported(u)
  BY DEF Newest, Accepted, Exported
<1>2. MakersTrack'
  BY <1>1 DEF VInv, MakersTrack
<1>3. MakersApart' /\ DisturbedUsed'
  BY DEF VInv, MakersApart, DisturbedUsed
<1>4. QuietVersionExportsMembers'
  BY <1>1 DEF VInv, QuietVersionExportsMembers
<1>5. QED
  BY <1>2, <1>3, <1>4 DEF VInv

-----------------------------------------------------------------------------
(* Theorems. *)

\* The inductive invariants hold of every behaviour.
THEOREM CurationInvariance == Spec => [](CInv /\ VInv)
<1>1. Init => CInv /\ VInv
  <2> SUFFICES ASSUME Init PROVE VInv
    BY InitHolds
  <2>1. \A m \in Makers : maker[m].pc = "idle"
    BY DEF Init, NoMaking
  <2>2. disturbed = {} /\ \A v \in Versions : versions[v].state = "unused"
    BY DEF Init
  <2>3. QED
    BY <2>1, <2>2 DEF VInv, MakersTrack, MakersApart, DisturbedUsed, QuietVersionExportsMembers
<1>2. CInv /\ VInv /\ [Next]_vars => CInv' /\ VInv'
  <2> SUFFICES ASSUME CInv, VInv, [Next]_vars
               PROVE  CInv' /\ VInv'
    OBVIOUS
  <2>1. ASSUME NEW r \in Reviewers, NEW e \in Examples, Send(r, e)
        PROVE  CInv' /\ VInv'
    BY <2>1, SendKeeps, VersionsUntouched DEF Send
  <2>2. ASSUME NEW r \in Reviewers, Resolve(r) \/ ReadBase(r) \/ Conflict(r)
        PROVE  CInv' /\ VInv'
    BY <2>2, ReadingKeeps, VersionsUntouched DEF Resolve, ReadBase, Conflict
  <2>3. ASSUME NEW r \in Reviewers, NEW verdict \in UsedVerdicts, Decide(r, verdict)
        PROVE  CInv' /\ VInv'
    BY <2>3, DecideKeeps, DecideKeepsVersions
  <2>4. ASSUME NEW m \in Makers, Versioning(m)
        PROVE  CInv' /\ VInv'
    BY <2>4, ListKeeps, ComposeKeeps, StampKeeps DEF Versioning
  <2>5. ASSUME NEW last \in Examples, PersistResult(last)
        PROVE  CInv' /\ VInv'
    BY <2>5, PersistKeeps
  <2>6. CASE UNCHANGED vars
    <3>1. CInv'
      BY <2>6 DEF vars, CInv, CurationTypeOK, TokensIssuedOnce, RequestsRooted, Rooted,
                  AbsentUnreviewed, DecisionsRooted, TokenMeansWhatWasSeen, ShownStatusIsOpen
    <3>2. QED
      BY <2>6, <3>1, VersionsUntouched DEF vars
  <2>7. QED
    BY <2>1, <2>2, <2>3, <2>4, <2>5, <2>6 DEF Next, Reviewing
<1>3. QED
  BY <1>1, <1>2, PTL DEF Spec

\* The state stays within its types.
THEOREM CurationTypes == Spec => []CurationTypeOK
BY CurationInvariance, PTL DEF CInv

\* However many reviews race, a revision continues the one its decision names
\* (review_example).
THEOREM AuditTrail == Spec => []DecisionsRooted
BY CurationInvariance, PTL DEF CInv

\* A review that presents a token decides on the revision its client saw.
THEOREM TokenExact == Spec => []TokenMeansWhatWasSeen
BY CurationInvariance, PTL DEF CInv

\* A replaced decision never shows again (update_quality_status).
THEOREM ShownIsOpen == Spec => []ShownStatusIsOpen
BY CurationInvariance, PTL DEF CInv

\* A version nobody disturbed exports its members, for any limit of a page
\* (create_version, export_dataset).
THEOREM QuietVersionIsExact == Spec => []QuietVersionExportsMembers
BY CurationInvariance, PTL DEF VInv

=============================================================================
