----------------------------- MODULE Licensing -----------------------------
(***************************************************************************)
(* Rights and privacy of a project's sources and the publication they      *)
(* gate: infrastructure/validation/scanners.py, infrastructure/privacy,    *)
(* pipeline/license.py, Workspace.publish_dataset with its attempt limit   *)
(* (application/abuse.py) and the publisher (infrastructure/publish/hf.py).*)
(* A publication is several steps: the rights are read in one transaction, *)
(* the examples in another, the hub is called last; sources and examples   *)
(* may arrive in between.  A text is the sequence of identifiers in it.    *)
(***************************************************************************)
EXTENDS Integers, Sequences, FiniteSets, SequencesExt

CONSTANTS Documents,    \* sources that may be added: [id, licence, kind, text]
          Mentions,     \* licence -> tokens of the allowed table found in it
          ListLimit,    \* sources one listing returns (1000 in the code)
          Principals,
          PublishCap,   \* attempts per window; 0 disables the limit
          Window,       \* length of the window (an hour in the code)
          MaxTime, MaxSources, MaxUploads  \* bounds

ASSUME LicensingAssumption ==
  /\ PublishCap \in Nat /\ ListLimit \in Nat \ {0} /\ Window \in Nat \ {0}
  /\ MaxTime \in Nat /\ MaxSources \in Nat /\ MaxUploads \in Nat
  /\ \A d, e \in Documents : d.id = e.id => d = e

VARIABLES sources,   \* sources of the project, in listing order
          accepted,  \* ids of sources with accepted examples
          recent,    \* attempts a principal's window still holds, oldest first
          tried,     \* every attempt let through: <<principal, time>>
          now,
          pub,       \* the publication in progress
          uploads    \* what reached the hub

licenceVars == <<sources, accepted, recent, tried, now, pub, uploads>>

-----------------------------------------------------------------------------
(* Scanners *)

_HIGH_CONFIDENCE == {"email", "ssn", "credit_card"}
_PATTERNS == _HIGH_CONFIDENCE \cup {"phone", "ipv4"}

\* An identifier is [kind, short, context, valid]: valid means that an address
\* has four octets and a card number its check digit.
Confidence(f) ==
  IF f.short \/ (f.kind \notin _HIGH_CONFIDENCE /\ ~ f.context) THEN "medium" ELSE "high"

scan_pii(text) == SelectSeq(text, LAMBDA f : f.kind \notin {"ipv4", "credit_card"} \/ f.valid)

classify_text(text) ==
  LET found == ToSet(scan_pii(text))
      high == Len(SelectSeq(scan_pii(text), LAMBDA f : Confidence(f) = "high"))
      level == IF high >= 2 \/ \E f \in found : f.kind \in {"ssn", "credit_card"} THEN "high"
               ELSE IF high = 1 THEN "moderate"
               ELSE IF found # {} THEN "low" ELSE "clean"
  IN  [classification |-> level, high_confidence_count |-> high,
       sample_kinds |-> {f.kind : f \in found}]

Undeclared == ""
_ALLOWED == {"cc0", "cc-by", "cc-by-sa", "mit", "apache-2.0", "public domain"}
_REVIEW == {"cc-by-nc", "cc-by-nc-sa", "cc-by-nc-nd", "gpl-3.0", "proprietary", "unknown"}
_BLOCKED == {"cc-by-nd", "cc-by-nc-nd", "all rights reserved"}

\* Mutant: the blocked table is looked up last.
license_statusBlockedLast(declared) ==
  IF declared = Undeclared THEN "review"
  ELSE IF declared \in _ALLOWED \/ Mentions[declared] # {} THEN "allowed"
  ELSE IF declared \in _BLOCKED THEN "blocked" ELSE "review"

\* The blocked table first, then the allowed one, by name or by any token the
\* text contains; the review table and everything else come last.
license_status(declared) ==
  IF declared = Undeclared THEN "review"
  ELSE IF declared \in _BLOCKED THEN "blocked"
  ELSE IF declared \in _ALLOWED \/ Mentions[declared] # {} THEN "allowed" ELSE "review"

-----------------------------------------------------------------------------
(* The report *)

\* Text kept with the source; for a binary source there is none.
_source_content(s) == IF s.kind = "text" THEN s.text ELSE <<>>

inspect(s) == [id |-> s.id, license_status |-> license_status(s.licence),
               privacy |-> classify_text(_source_content(s))]

is_approved_for_public_release(r) ==
  r.license_status = "allowed" /\ r.privacy.classification # "high"

license_report(listed) == {inspect(listed[i]) : i \in 1 .. Len(listed)}

\* The most restrictive status governs; no source at all is "allowed".
license_summary(records) ==
  LET some(s) == \E r \in records : r.license_status = s
  IN  IF some("blocked") THEN "blocked" ELSE IF some("review") THEN "review" ELSE "allowed"

privacy_summary(records) ==
  LET blocked == {r \in records : r.privacy.classification = "high"}
  IN  [blocked |-> {r.id : r \in blocked},
       high_confidence |-> \E r \in records : r.privacy.high_confidence_count > 0]

publication_gate(records) ==
  LET unresolved == {r.id : r \in {x \in records : ~ is_approved_for_public_release(x)}}
      allowed == license_summary(records) = "allowed" /\ unresolved = {}
      count(s) == Cardinality({r \in records : r.license_status = s})
  IN  [allowed |-> allowed, unresolved |-> unresolved,
       reason |-> IF allowed THEN "all approved"
                  ELSE IF count("blocked") > 0 THEN "blocked"
                  ELSE IF count("review") > 0 THEN "review" ELSE "not approved"]

-----------------------------------------------------------------------------
(* Behaviour *)

NoPub == [phase |-> "idle"]

LicenceInit ==
  /\ sources = <<>> /\ accepted = {} /\ tried = {} /\ now = 0 /\ pub = NoPub /\ uploads = {}
  /\ recent = [p \in Principals |-> <<>>]

AddDocument ==
  /\ Len(sources) < MaxSources
  /\ \E d \in Documents \ ToSet(sources) : sources' = Append(sources, d)
  /\ UNCHANGED <<accepted, recent, tried, now, pub, uploads>>

\* A pipeline run commits accepted examples of a source.
AcceptExamples ==
  /\ \E s \in ToSet(sources) : accepted' = accepted \cup {s.id}
  /\ UNCHANGED <<sources, recent, tried, now, pub, uploads>>

Tick ==
  /\ now < MaxTime /\ now' = now + 1
  /\ UNCHANGED <<sources, accepted, recent, tried, pub, uploads>>

StillHeld(p) == SelectSeq(recent[p], LAMBDA t : now - t < Window)

LimitReached(held) == Len(held) >= PublishCap

\* enforce_publish_attempts, the first thing publish_dataset does: a refused
\* attempt is not counted.
Attempt ==
  /\ pub.phase = "idle"
  /\ \E p \in Principals, dry \in BOOLEAN :
       LET held == StillHeld(p)
       IN  IF PublishCap = 0
           THEN /\ pub' = [phase |-> "attempted", dry |-> dry]
                /\ tried' = tried \cup {<<p, now, Cardinality(tried)>>} /\ UNCHANGED recent
           ELSE IF LimitReached(held)
           THEN recent' = [recent EXCEPT ![p] = held] /\ UNCHANGED <<pub, tried>>
           ELSE /\ recent' = [recent EXCEPT ![p] = Append(held, now)]
                /\ tried' = tried \cup {<<p, now, Cardinality(tried)>>}
                /\ pub' = [phase |-> "attempted", dry |-> dry]
  /\ UNCHANGED <<sources, accepted, now, uploads>>

ReadRights ==
  /\ pub.phase = "attempted"
  /\ LET listed == SubSeq(sources, 1, IF Len(sources) < ListLimit THEN Len(sources) ELSE ListLimit)
     IN  pub' = [phase |-> "informed", dry |-> pub.dry, records |-> license_report(listed)]
  /\ UNCHANGED <<sources, accepted, recent, tried, now, uploads>>

\* The hub extra is missing.
Unavailable ==
  /\ pub.phase = "informed" /\ pub' = NoPub
  /\ UNCHANGED <<sources, accepted, recent, tried, now, uploads>>

\* The examples are read, then the gate decides on the report read before; a
\* dry run ends with a plan.
ReadExamples ==
  /\ pub.phase = "informed"
  /\ pub' = IF publication_gate(pub.records).allowed /\ ~ pub.dry
            THEN [phase |-> "cleared", records |-> pub.records, included |-> accepted]
            ELSE NoPub
  /\ UNCHANGED <<sources, accepted, recent, tried, now, uploads>>

\* No token, or the repository cannot be reached.
PublishRefused ==
  /\ pub.phase = "cleared" /\ pub' = NoPub
  /\ UNCHANGED <<sources, accepted, recent, tried, now, uploads>>

\* The folder is uploaded; the revision asked for afterwards may fail, which
\* the caller sees as a failed publication.
Upload ==
  /\ pub.phase = "cleared" /\ Cardinality(uploads) < MaxUploads
  /\ \E answered \in BOOLEAN :
       uploads' = uploads \cup {[records |-> pub.records, included |-> pub.included,
                                 recorded |-> answered]}
  /\ pub' = NoPub
  /\ UNCHANGED <<sources, accepted, recent, tried, now>>

LicenceNext == \/ AddDocument \/ AcceptExamples \/ Tick \/ Attempt \/ ReadRights
               \/ Unavailable \/ ReadExamples \/ PublishRefused \/ Upload

LicenceSpec == LicenceInit /\ [][LicenceNext]_licenceVars

-----------------------------------------------------------------------------
(* Properties *)

\* The licence is of the allowed table, or contains a token of it, and not of the
\* blocked one; no kept text is highly private.
Cleared(s) ==
  /\ s.licence \in _ALLOWED \/ Mentions[s.licence] # {}
  /\ s.licence \notin _BLOCKED
  /\ classify_text(_source_content(s)).classification # "high"

\* Whatever arrives while a publication is under way, what reaches the hub was
\* cleared source by source, as far as the report went: every source it lists is
\* cleared.  It does not list what came after the rights were read, nor what is
\* past the listing's limit (IncludedIsApproved).
UploadsAreCleared ==
  \A u \in uploads : \A s \in ToSet(sources) : (\E r \in u.records : r.id = s.id) => Cleared(s)

-----------------------------------------------------------------------------
(* What the documentation says and the code does not do. *)

\* "every included source has an approved redistribution decision"
\* (publish_dataset): one in the report the gate decided on.
IncludedIsApproved ==
  \A u \in uploads : \A i \in u.included :
    \E r \in u.records : r.id = i /\ is_approved_for_public_release(r)

=============================================================================
