------------------------------ MODULE Curation ------------------------------
(***************************************************************************)
(* What happens to training examples after the pipeline: reviews append    *)
(* revisions, versions freeze the accepted examples, exports serialize     *)
(* them, and later pipeline runs add more.                                 *)
(*                                                                         *)
(* All of it is read-then-write transactions.  Neither backend makes a     *)
(* plain SELECT wait for another transaction, nothing is locked FOR UPDATE *)
(* and no constraint makes (example, revision) unique, so the reads of a   *)
(* transaction and its writes, which become visible at its commit, are     *)
(* different steps here.                                                   *)
(*                                                                         *)
(* Examples are numbered in the order of created_at, and so are versions.  *)
(***************************************************************************)
EXTENDS Naturals, FiniteSets

CONSTANTS
    NumExamples,   \* examples the pipeline may ever produce
    Reviewers,     \* review requests in flight at once
    Makers,        \* create_version requests in flight at once
    PageLimit,     \* the limit of list_by_project
    UsedVerdicts,  \* the verdicts reviewers give
    MaxRevisions,  \* bound on revisions, of all examples together
    MaxVersions    \* bound on versions

ASSUME CurationSizes ==
    /\ NumExamples \in Nat /\ PageLimit \in Nat
    /\ MaxRevisions \in Nat /\ MaxVersions \in Nat

ASSUME CurationVerdicts == UsedVerdicts \subseteq {"approve", "reject", "needs_work"}

VARIABLES
    rows,       \* training_examples: quality_status and version_id
    revs,       \* example_revisions of each example
    decisions,  \* review_decisions on each example
    issued,     \* concurrency tokens issued
    versions,   \* dataset_versions
    review,     \* each review request
    maker,      \* each create_version request
    disturbed   \* versions whose examples were touched since they were listed

vars == <<rows, revs, decisions, issued, versions, review, maker, disturbed>>

Examples == 1..NumExamples
Versions == 1..MaxVersions
RevisionTokens == 1..MaxRevisions

ReviewVerdicts == {"approve", "reject", "needs_work"}
Statuses == {"accepted", "rejected", "review"}

\* _DECISION_TO_STATUS.
StatusOf(verdict) == CASE verdict = "approve" -> "accepted"
                       [] verdict = "reject" -> "rejected"
                       [] verdict = "needs_work" -> "review"

ExampleRow == [status : Statuses \cup {"absent"}, stamp : 0..MaxVersions]

Revision == [rev : Nat \ {0}, parent : Nat, token : RevisionTokens, status : Statuses]

\* `given` is the token the client presented, 0 for none; `made` identifies the
\* record, by the token of the revision written with it.
Decision == [rev : Nat \ {0}, token : RevisionTokens, verdict : ReviewVerdicts,
             given : 0..MaxRevisions, made : RevisionTokens]

Version == [state : {"unused", "composed", "made"}, parent : 0..MaxVersions,
            members : SUBSET Examples]

\* "resolve": the latest revision is still to be looked up for the client.
Request == [pc : {"idle", "resolve", "read", "decide"}, example : 0..NumExamples,
            rev : Nat, given : 0..MaxRevisions, base : 0..MaxRevisions]

Making == [pc : {"idle", "listed", "composed"}, version : 0..MaxVersions,
           members : SUBSET Examples, quiet : BOOLEAN]

NoRequest == [pc |-> "idle", example |-> 0, rev |-> 0, given |-> 0, base |-> 0]
NoMaking  == [pc |-> "idle", version |-> 0, members |-> {}, quiet |-> FALSE]

Init == /\ rows = [e \in Examples |-> [status |-> "absent", stamp |-> 0]]
        /\ revs = [e \in Examples |-> {}]
        /\ decisions = [e \in Examples |-> {}]
        /\ issued = 0
        /\ versions = [v \in Versions |->
                          [state |-> "unused", parent |-> 0, members |-> {}]]
        /\ review = [r \in Reviewers |-> NoRequest]
        /\ maker = [m \in Makers |-> NoMaking]
        /\ disturbed = {}

Accepted == {e \in Examples : rows[e].status = "accepted"}

\* ORDER BY created_at DESC LIMIT.
Newest(set) == {e \in set : Cardinality({f \in set : f > e}) < PageLimit}

\* assign_version.
StampAccepted(table, v) ==
    [e \in Examples |-> IF table[e].status = "accepted"
                           THEN [table[e] EXCEPT !.stamp = v] ELSE table[e]]

\* export_dataset and export_dataset_formatted: filtered by status and version_id.
Exported(v) == Newest({e \in Accepted : rows[e].stamp = v})

\* A commit that may change what a version exports, other than version `own`.
Disturbs(own) ==
    /\ disturbed' = disturbed \cup {v \in Versions \ {own} : versions[v].state # "unused"}
    /\ maker' = [m \in Makers |->
                    IF maker[m].pc = "composed" /\ maker[m].version = own
                       THEN NoMaking ELSE [maker[m] EXCEPT !.quiet = FALSE]]

-----------------------------------------------------------------------------
(* Reviews. *)

\* RevisionRepository.latest; by then two rows may have the same number.
Latest(e) == {x \in revs[e] : \A y \in revs[e] : y.rev <= x.rev}

\* A client sends a review, naming the revision it looked at, or its token, or
\* both, or neither.
Send(r, e) ==
    /\ review[r].pc = "idle" /\ rows[e].status # "absent"
    /\ \E named \in BOOLEAN, given \in {0} \cup {x.token : x \in revs[e]} :
          \E rev \in IF ~named THEN {0}
                    ELSE IF given = 0 THEN {1} \cup {x.rev : x \in revs[e]}
                    ELSE {x.rev : x \in {y \in revs[e] : y.token = given}} :
             review' = [review EXCEPT ![r] =
                           [pc |-> IF named THEN "read" ELSE "resolve",
                            example |-> e, rev |-> rev, given |-> given, base |-> 0]]
    /\ UNCHANGED <<rows, revs, decisions, issued, versions, maker, disturbed>>

\* revision_id None: the latest one, read in a session of its own.
Resolve(r) ==
    /\ review[r].pc = "resolve"
    /\ LET e == review[r].example
       IN \E n \in IF revs[e] = {} THEN {1} ELSE {x.rev : x \in Latest(e)} :
             review' = [review EXCEPT ![r].pc = "read", ![r].rev = n]
    /\ UNCHANGED <<rows, revs, decisions, issued, versions, maker, disturbed>>

\* Mutant: a token is not looked at when the revision number fits.
TokenFitsAny(r, token) == TRUE

TokenFits(r, token) == review[r].given # 0 => review[r].given = token

\* ReviewService.review_example up to its first write: the latest revision, or
\* the one it is going to bootstrap (base 0), must be the one reviewed.
ReadBase(r) ==
    /\ review[r].pc = "read"
    /\ LET e == review[r].example
       IN \/ /\ revs[e] = {} /\ review[r].rev = 1 /\ TokenFits(r, 0)
             /\ review' = [review EXCEPT ![r].pc = "decide"]
          \/ \E x \in Latest(e) :
                /\ review[r].rev = x.rev /\ TokenFits(r, x.token)
                /\ review' = [review EXCEPT ![r].pc = "decide", ![r].base = x.token]
    /\ UNCHANGED <<rows, revs, decisions, issued, versions, maker, disturbed>>

\* ConcurrencyError.
Conflict(r) ==
    /\ review[r].pc = "read"
    /\ LET e == review[r].example
       IN \/ revs[e] = {} /\ ~(review[r].rev = 1 /\ TokenFits(r, 0))
          \/ \E x \in Latest(e) : ~(review[r].rev = x.rev /\ TokenFits(r, x.token))
    /\ review' = [review EXCEPT ![r] = NoRequest]
    /\ UNCHANGED <<rows, revs, decisions, issued, versions, maker, disturbed>>

\* Mutant: revision 1 is only kept in memory.
BootstrapUnsaved(r) == {}

\* Revision 1, written together with the first decision.  Its status is the one of
\* the row as read at ReadBase; nothing looks at it, and the row's is taken here.
Bootstrap(r) ==
    IF review[r].base # 0 THEN {}
    ELSE {[rev |-> 1, parent |-> 0, token |-> issued + 1,
           status |-> rows[review[r].example].status]}

\* Mutant: the decision is on record and the row keeps its status (P0-9).
ShowNothing(e, status) == rows

\* update_quality_status.
Show(e, status) == [rows EXCEPT ![e].status = status]

\* The transaction commits: decision, new revision and the row's new status.
Decide(r, verdict) ==
    /\ review[r].pc = "decide"
    /\ LET e == review[r].example
           base == IF review[r].base = 0 THEN issued + 1 ELSE review[r].base
           last == IF review[r].base = 0 THEN issued + 2 ELSE issued + 1
       IN /\ last <= MaxRevisions
          /\ issued' = last
          /\ decisions' = [decisions EXCEPT ![e] = @ \cup
                {[rev |-> review[r].rev, token |-> base, verdict |-> verdict,
                  given |-> review[r].given, made |-> last]}]
          /\ revs' = [revs EXCEPT ![e] = @ \cup Bootstrap(r) \cup
                {[rev |-> review[r].rev + 1, parent |-> review[r].rev, token |-> last,
                  status |-> StatusOf(verdict)]}]
          /\ rows' = Show(e, StatusOf(verdict))
    /\ review' = [review EXCEPT ![r] = NoRequest]
    /\ Disturbs(0)
    /\ UNCHANGED versions

-----------------------------------------------------------------------------
(* Versions. *)

\* Mutant: the listing forgets the status filter.
MembersToBeAll == Newest({e \in Examples : rows[e].status # "absent"})

\* create_version's list_by_project(status="accepted").
MembersToBe == Newest(Accepted)

List(m) ==
    /\ maker[m].pc = "idle"
    /\ \E v \in Versions : versions[v].state = "unused"
    /\ maker' = [maker EXCEPT ![m] = [pc |-> "listed", version |-> 0,
                                      members |-> MembersToBe, quiet |-> TRUE]]
    /\ UNCHANGED <<rows, revs, decisions, issued, versions, review, disturbed>>

\* The next version in order of creation.
NextVersion(v) == versions[v].state = "unused"
                  /\ \A u \in Versions : u < v => versions[u].state # "unused"

\* VersionRepository.latest: committed versions only.
PriorVersion ==
    LET made == {v \in Versions : versions[v].state = "made"}
    IN IF made = {} THEN {0} ELSE {v \in made : \A u \in made : u <= v}

Compose(m) ==
    /\ maker[m].pc = "listed"
    /\ \E v \in Versions, prior \in PriorVersion :
          /\ NextVersion(v)
          /\ versions' = [versions EXCEPT ![v] = [state |-> "composed", parent |-> prior,
                                                  members |-> maker[m].members]]
          /\ maker' = [maker EXCEPT ![m].pc = "composed", ![m].version = v]
          /\ disturbed' = IF maker[m].quiet THEN disturbed ELSE disturbed \cup {v}
    /\ UNCHANGED <<rows, revs, decisions, issued, review>>

\* The version row and assign_version are committed.
Stamp(m) ==
    /\ maker[m].pc = "composed"
    /\ LET v == maker[m].version
       IN /\ versions' = [versions EXCEPT ![v].state = "made"]
          /\ rows' = StampAccepted(rows, v)
          /\ Disturbs(v)
    /\ UNCHANGED <<revs, decisions, issued, review>>

\* persist_pipeline_result: a run of the pipeline adds examples, those up to
\* `last`, and a version of its own, without a parent, whose stamp every accepted
\* example of the project gets.
PersistResult(last) ==
    /\ rows[last].status = "absent"
    /\ \E v \in Versions :
          LET new == {e \in 1..last : rows[e].status = "absent"}
          IN /\ NextVersion(v)
             /\ rows' = StampAccepted([e \in Examples |->
                            IF e \in new THEN [status |-> "accepted", stamp |-> 0]
                            ELSE rows[e]], v)
             /\ versions' = [versions EXCEPT ![v] =
                                [state |-> "made", parent |-> 0, members |-> new]]
             /\ disturbed' = {u \in Versions : versions[u].state # "unused"} \cup
                                IF Accepted = {} THEN {} ELSE {v}
    /\ maker' = [m \in Makers |-> [maker[m] EXCEPT !.quiet = FALSE]]
    /\ UNCHANGED <<revs, decisions, issued, review>>

-----------------------------------------------------------------------------

Reviewing(r) == \/ \E e \in Examples : Send(r, e)
                \/ Resolve(r) \/ ReadBase(r) \/ Conflict(r)
                \/ \E verdict \in UsedVerdicts : Decide(r, verdict)

Versioning(m) == List(m) \/ Compose(m) \/ Stamp(m)

Next == \/ \E r \in Reviewers : Reviewing(r)
        \/ \E m \in Makers : Versioning(m)
        \/ \E last \in Examples : PersistResult(last)

Spec == Init /\ [][Next]_vars

-----------------------------------------------------------------------------
(* Properties. *)

\* The state stays within its types.
CurationTypeOK ==
    /\ rows \in [Examples -> ExampleRow]
    /\ revs \in [Examples -> SUBSET Revision]
    /\ decisions \in [Examples -> SUBSET Decision]
    /\ issued \in 0..MaxRevisions
    /\ versions \in [Versions -> Version]
    /\ review \in [Reviewers -> Request]
    /\ maker \in [Makers -> Making]
    /\ disturbed \subseteq Versions

\* "The revision chain is the immutable audit trail" (review_example): however
\* reviews race, every revision after the first was decided on a revision that is
\* on record, the one whose token its decision names, and continues its number.
DecisionsRooted ==
    \A e \in Examples :
        \A x \in revs[e] : x.rev > 1 =>
            \E d \in decisions[e], b \in revs[e] :
                /\ d.made = x.token /\ d.token = b.token
                /\ d.rev = b.rev /\ x.parent = b.rev /\ x.rev = b.rev + 1

\* A review that presents a token decides on exactly the revision its client
\* looked at, even when races have given one revision number to several
\* revisions (the token check of review_example).
TokenMeansWhatWasSeen ==
    \A e \in Examples : \A d \in decisions[e] :
        d.given # 0 =>
            /\ d.token = d.given
            /\ \A b \in revs[e] : b.token = d.given => b.rev = d.rev

\* The status a reviewed example shows is that of a revision nobody has decided
\* on since: a decision that a later review replaced never shows again
\* (update_quality_status in the same transaction as the revision).
ShownStatusIsOpen ==
    \A e \in Examples : revs[e] # {} =>
        \E x \in revs[e] : /\ x.status = rows[e].status
                           /\ \A d \in decisions[e] : d.token # x.token

\* As long as nothing is reviewed, run or versioned after its members were
\* listed, a version exports exactly its members, the newest of them where the
\* pipeline made more than an export takes (create_version, export_dataset).
QuietVersionExportsMembers ==
    \A v \in Versions :
        (versions[v].state = "made" /\ v \notin disturbed) =>
            Exported(v) = Newest(versions[v].members)

=============================================================================
