------------------------------- MODULE Intake -------------------------------
(***************************************************************************)
(* The intake of sources: Workspace.add_source and the IntakeService       *)
(* behind it (infrastructure/intake), and the guarded fetch of a URL       *)
(* (url.py).  A file is what its checks look at; an artifact is named by   *)
(* its file.  Storing an artifact is one step here; Storage has its parts. *)
(***************************************************************************)
EXTENDS Integers, Sequences, FiniteSets, Totals

CONSTANTS Files,          \* uploads: [name, suffix, magic, size, sound, members, injects]
          Uploaders,      \* concurrent calls of add_source
          Projects,       \* project handles callers use
          KnownProjects,  \* those that exist
          Scans,          \* outcomes of the malware hook, "none" without one
          Locators,       \* where a caller says the file is from
          MaxFile,        \* max_file_bytes
          MaxMembers,     \* members an archive may have
          MaxRatio,       \* compression a member may have
          AllowNested,    \* archives inside archives
          Sites,          \* URLs: [scheme, host, listed, metadata, addresses, login]
          Enabled, AllowHttp, Allowlisting, MaxRedirects,  \* URLPolicy
          MaxRows, MaxOutages  \* bounds

ASSUME IntakeAssumption ==
  /\ KnownProjects \subseteq Projects /\ AllowNested \in BOOLEAN
  /\ {MaxFile, MaxMembers, MaxRatio, MaxRedirects, MaxRows, MaxOutages} \subseteq Nat
  /\ \A f \in Files : f.members \in Seq([path : {"plain", "absolute", "parent"},
       kind : {"file", "dir", "archive"}, size : Nat, packed : Nat])

VARIABLES intake,      \* uploader -> call in progress
          quarantine,  \* files with a torn and with a whole copy
          artifacts,   \* files in the artifact store
          documents,   \* source rows
          audit,       \* source handles with an audit entry
          outages,     \* history: crashes of the process
          visit        \* a fetch: requests sent and the URL it is at

intakeVars == <<intake, quarantine, artifacts, documents, audit, outages>>

NoIntake == [phase |-> "idle"]
Touched == quarantine.torn \cup quarantine.whole

IntakeInit ==
  /\ intake = [u \in Uploaders |-> NoIntake]
  /\ quarantine = [torn |-> {}, whole |-> {}] /\ artifacts = {}
  /\ documents = {} /\ audit = {} /\ outages = 0

-----------------------------------------------------------------------------
(* Checks *)

_ALLOWED_SUFFIXES ==
  {"pdf", "docx", "pptx", "xlsx", "html", "htm", "md", "markdown", "txt", "csv", "tsv",
   "png", "jpg", "jpeg", "gif", "xml", "json", "epub", "zip", "tar"}

\* Unsupported and unknown suffixes are refused alike, whatever the magic bytes.
check_allowed_extension(f) == f.suffix \in _ALLOWED_SUFFIXES \cup {"none"}

_zip_subtype(f) == IF f.suffix \in {"docx", "pptx", "xlsx", "epub"} THEN f.suffix ELSE "zip"

\* A media type is named by the suffix that stands for it.
sniff_media_type(f) ==
  IF f.magic # "none" THEN f.magic ELSE IF f.suffix = "none" THEN "octet-stream" ELSE f.suffix

MediaType(f) == IF sniff_media_type(f) = "zip" THEN _zip_subtype(f) ELSE sniff_media_type(f)

TextTypes == {"md", "markdown", "txt", "html", "htm", "csv", "tsv", "xml"}

\* A scanner that fails is taken to have found something.
PassesScan(scan) == scan \in {"none", "clean"}

-----------------------------------------------------------------------------
(* Archives *)

\* Mutant: each member is compared with the limit by itself.
UnpackedAlone(members, i) == members[i].size

Sizes(members) == [n \in DOMAIN members |-> members[n].size]
Unpacked(members, i) == SumTo(Sizes(members), i)

MemberProblem(members, i) ==
  LET m == members[i] IN
  CASE m.path = "absolute" -> "absolute path"
    [] m.path = "parent" -> "traversal"
    [] m.path = "plain" /\ m.kind = "archive" /\ ~ AllowNested -> "nested"
    [] OTHER -> IF m.packed > 0 /\ m.size > MaxRatio * m.packed THEN "ratio"
                ELSE IF Unpacked(members, i) > MaxFile THEN "total" ELSE "none"

\* The problem of the first member that has one.
validate_zip_archive(f) ==
  IF ~ f.sound THEN "malformed"
  ELSE IF Len(f.members) > MaxMembers THEN "too many members"
  ELSE LET bad == {i \in DOMAIN f.members : MemberProblem(f.members, i) # "none"}
       IN  IF bad = {} THEN "none"
           ELSE MemberProblem(f.members, CHOOSE i \in bad : \A j \in bad : i <= j)

-----------------------------------------------------------------------------
(* Intake *)

\* Credentials, query and fragment of a URL are dropped; what does not parse as
\* one is kept.
redact_locator(locator) ==
  CASE locator = "empty" -> "-"
    [] locator = "url with secret" -> "url"
    [] OTHER -> locator

Goto(u, phase) == intake' = [intake EXCEPT ![u].phase = phase]
Refuse(u) == intake' = [intake EXCEPT ![u] = NoIntake]

\* ingest_bytes up to the quarantine: nothing is kept of what is refused here.
\* (Workspace.add_source passes no malware hook; other callers may.)
Receive(u) ==
  /\ intake[u].phase = "idle"
  /\ \E f \in Files, p \in Projects, scan \in Scans, locator \in Locators :
       /\ f.size \in 1..MaxFile /\ check_allowed_extension(f) /\ PassesScan(scan)
       /\ intake' = [intake EXCEPT ![u] =
            [phase |-> "copy", file |-> f, project |-> p, from |-> redact_locator(locator)]]
  /\ UNCHANGED <<quarantine, artifacts, documents, audit, outages>>

\* A copy that is there is left alone, complete or not.
OpenCopy(u) ==
  /\ intake[u].phase = "copy"
  /\ IF intake[u].file \notin Touched
     THEN quarantine' = [quarantine EXCEPT !.torn = @ \cup {intake[u].file}] /\ Goto(u, "write")
     ELSE Goto(u, "store") /\ UNCHANGED quarantine
  /\ UNCHANGED <<artifacts, documents, audit, outages>>

WriteCopy(u) ==
  /\ intake[u].phase = "write" /\ Goto(u, "store")
  /\ quarantine' = [torn |-> quarantine.torn \ {intake[u].file},
                    whole |-> quarantine.whole \cup {intake[u].file}]
  /\ UNCHANGED <<artifacts, documents, audit, outages>>

StoreArtifact(u) ==
  /\ intake[u].phase = "store" /\ Goto(u, "verify")
  /\ artifacts' = artifacts \cup {intake[u].file}
  /\ UNCHANGED <<quarantine, documents, audit, outages>>

\* Only what is still called a zip is looked into; the artifact of a refused
\* archive stays.
VerifyArchive(u) ==
  /\ intake[u].phase = "verify"
  /\ IF MediaType(intake[u].file) = "zip" /\ validate_zip_archive(intake[u].file) # "none"
     THEN Refuse(u) ELSE Goto(u, "commit")
  /\ UNCHANGED <<quarantine, artifacts, documents, audit, outages>>

\* The row and its audit entry are one transaction.  The project is looked for
\* only now.
CommitSource(u) ==
  /\ intake[u].phase = "commit" /\ Refuse(u)
  /\ LET f == intake[u].file
         row == [id |-> Cardinality(documents) + 1, file |-> f, project |-> intake[u].project,
                 media |-> MediaType(f), from |-> intake[u].from,
                 flagged |-> f.injects /\ MediaType(f) \in TextTypes,
                 content |-> MediaType(f) \in TextTypes]
     IN  IF row.project \in KnownProjects
         THEN /\ Cardinality(documents) < MaxRows
              /\ documents' = documents \cup {row} /\ audit' = audit \cup {row.id}
         ELSE UNCHANGED <<documents, audit>>
  /\ UNCHANGED <<quarantine, artifacts, outages>>

\* The process dies; files and rows stay as they are.
Outage ==
  /\ outages < MaxOutages /\ outages' = outages + 1
  /\ intake' = [u \in Uploaders |-> NoIntake]
  /\ UNCHANGED <<quarantine, artifacts, documents, audit>>

IntakeNext ==
  \/ \E u \in Uploaders : \/ Receive(u) \/ OpenCopy(u) \/ WriteCopy(u) \/ StoreArtifact(u)
                          \/ VerifyArchive(u) \/ CommitSource(u)
  \/ Outage

IntakeSpec == IntakeInit /\ [][IntakeNext]_intakeVars

-----------------------------------------------------------------------------
(* Fetching a URL.  Names keep their addresses during a fetch. *)

\* An entry of the allowlist matches a host that equals it; one with a leading
\* "*." matches none.  A name without addresses passes.
_validate_url(site) ==
  /\ Enabled
  /\ site.scheme = "https" \/ (AllowHttp /\ site.scheme = "http")
  /\ site.host /\ (Allowlisting => site.listed) /\ ~ site.metadata
  /\ site.addresses \subseteq {"public"} /\ ~ site.login

VisitInit == visit = [phase |-> "none", sent |-> <<>>]

\* httpx.URL(location).join(current) resolves the current, absolute, URL
\* against the new one, which yields the current one.
NextUrl(location, current) == current

\* Headers spelled exactly Authorization and Cookie go with the first request only;
\* another spelling would go with all of them.
CarriesLogin(hop) == hop = 0

StartFetch(site) ==
  /\ visit.phase = "none"
  /\ visit' = [phase |-> IF _validate_url(site) THEN "request" ELSE "refused",
               sent |-> <<>>, at |-> site, hop |-> 0]

SendRequest ==
  /\ visit.phase = "request"
  /\ visit' = [visit EXCEPT !.phase = IF visit.hop <= MaxRedirects THEN "answer" ELSE "refused",
                 !.sent = IF visit.hop <= MaxRedirects
                          THEN Append(@, [to |-> visit.at, login |-> CarriesLogin(visit.hop)]) ELSE @]

Redirected ==
  /\ visit.phase = "answer"
  /\ \E location \in Sites :
       LET next == NextUrl(location, visit.at) IN
       visit' = [visit EXCEPT !.phase = IF _validate_url(next) THEN "request" ELSE "refused",
                              !.at = next, !.hop = @ + 1]

\* A redirect without a target, an error or a body that is too large.
Refused ==
  /\ visit.phase = "answer" /\ visit' = [visit EXCEPT !.phase = "refused"]

Fetched ==
  /\ visit.phase = "answer" /\ visit' = [visit EXCEPT !.phase = "fetched"]

VisitNext ==
  \/ \E site \in Sites : StartFetch(site)
  \/ SendRequest \/ Redirected \/ Refused \/ Fetched

VisitSpec == VisitInit /\ [][VisitNext]_visit

-----------------------------------------------------------------------------
(* Properties *)

\* Whatever order the members of an archive come in.
Safe(f) ==
  /\ f.sound /\ Len(f.members) <= MaxMembers
  /\ \A i \in DOMAIN f.members :
       /\ f.members[i].path = "plain" /\ (f.members[i].kind = "archive" => AllowNested)
       /\ f.members[i].packed > 0 => f.members[i].size <= MaxRatio * f.members[i].packed
  /\ SumTo(Sizes(f.members), Len(f.members)) <= MaxFile

\* Every source row, however uploads overlap and fail, is of a file that passed
\* the checks of its kind, has its bytes in the store and a copy in quarantine,
\* its own audit entry and a project, and names no credentials (add_source).
RowsAreBacked ==
  /\ audit = {row.id : row \in documents}
  /\ \A row, other \in documents : row.id = other.id => row = other
  /\ \A row \in documents :
       /\ row.file \in artifacts /\ row.file \in Touched
       /\ row.file.size \in 1..MaxFile /\ row.project \in KnownProjects
       /\ row.media = "zip" => Safe(row.file)
       /\ row.from # "url with secret"

\* A fetch sends at most one request more than it may be redirected, each to a
\* URL that passes the policy, and credentials with the first only (safe_fetch).
FetchIsConfined ==
  /\ Len(visit.sent) <= MaxRedirects + 1
  /\ \A i \in DOMAIN visit.sent :
       _validate_url(visit.sent[i].to) /\ (visit.sent[i].login => i = 1)

\* Both ways in: what is taken in is backed, what is fetched is confined.
SourcesAreGuarded == RowsAreBacked /\ FetchIsConfined
=============================================================================
