------------------------------- MODULE Access -------------------------------
(***************************************************************************)
(* A request to the REST server on its way to the workspace: the rate      *)
(* limiter with its lock (rate_limit.py), the cap on bodies                *)
(* (security_middleware.py), token and scope (security.py, bearer.py), the *)
(* owner of the project (Workspace.require_project_access), the operation; *)
(* and a call of the MCP server (interfaces/mcp/server.py) next to it, with *)
(* a token in front and no owner behind.  What the operations do is in the *)
(* other modules.                                                          *)
(***************************************************************************)
EXTENDS Integers, Sequences, FiniteSets, FiniteSetsExt, Totals

CONSTANTS Requests,      \* [server, route, token, address, declared, chunks, project, example,
                         \*  owner, fits]: project is the one in the path, or of the job in
                         \*  it; example, for a review, that of the example; the last two for
                         \*  MCP, the owner asked for and whether what the tool looks at
                         \*  itself is as it should be
          ApiToken,      \* the configured token, or NoToken
          NoToken,       \* none: every caller is the local operator
          Configured,    \* server.scopes: a set, or Default when the key is left out
          Default,
          Admins,        \* server.admin_principals
          InitialOwners, \* project -> owner, or Nobody where there is no project
          Nobody,
          Errors,        \* errors an operation may end with
          RateCap,       \* requests an identity may make in a window; 0 disables
          RateWindow,    \* length of the window
          BodyCap,       \* bytes of a body; 0 disables
          MaxClock       \* bound

ASSUME AccessAssumption ==
  /\ RateCap \in Nat /\ RateWindow \in Nat \ {0} /\ BodyCap \in Nat /\ MaxClock \in Nat
  /\ InitialOwners = [p \in DOMAIN InitialOwners |-> InitialOwners[p]]
  /\ \A r \in Requests : /\ r.chunks \in Seq(Nat) /\ r.server \in {"rest", "mcp"}
                         /\ {r.project, r.example} \subseteq DOMAIN InitialOwners
                         /\ r.owner # Nobody

VARIABLES clock,
          buckets,   \* identity -> times admitted, oldest first
          queue,     \* requests at the lock; the first one holds it
          request,   \* request -> how far it is
          replies,   \* request -> status codes sent
          owners,    \* project -> owner
          acted      \* history: requests whose operation was called

accessVars == <<clock, buckets, queue, request, replies, owners, acted>>

-----------------------------------------------------------------------------
(* Routes: scope, what the guard looks at, whether the body is read *)

Route(name, scope, guard, reads) ==
  [name |-> name, scope |-> scope, guard |-> guard, reads |-> reads]

ProjectRoutes ==
  { Route("create_project", "projects:write", "none", TRUE),
    Route("list_projects", "projects:read", "none", FALSE),
    Route("get_project", "projects:read", "project", FALSE),
    Route("add_source", "sources:write", "project", TRUE),
    Route("list_sources", "projects:read", "project", FALSE),
    Route("inspect_source", "projects:read", "project", FALSE) }

\* The list of jobs is asked for with a project, or without one for all.
JobRoutes ==
  { Route("license_report", "projects:read", "project", FALSE),
    Route("start_pipeline", "runs:execute", "project", TRUE),
    Route("get_job", "runs:execute", "project", FALSE),
    Route("run_job", "runs:execute", "project", FALSE),
    Route("cancel_job", "runs:execute", "project", FALSE),
    Route("resume_job", "runs:execute", "project", FALSE),
    Route("list_jobs", "runs:execute", "project", FALSE),
    Route("list_all_jobs", "runs:execute", "none", FALSE) }

DatasetRoutes ==
  { Route("list_examples", "datasets:export", "project", FALSE),
    Route("get_example_lineage", "datasets:export", "project", FALSE),
    Route("review_example", "review:write", "project", TRUE),
    Route("validate_dataset", "datasets:export", "project", FALSE),
    Route("create_version", "datasets:export", "project", TRUE),
    Route("export_dataset", "datasets:export", "project", TRUE),
    Route("publish_dataset", "datasets:publish", "project", TRUE) }

\* What an MCP tool or resource checks by itself.
Tool(name, checks) == [name |-> name, checks |-> checks]

ProjectTools == {Tool(n, "nothing") : n \in
  {"create_project", "list_projects", "add_source", "inspect_source", "license_report"}}

RunTools == {Tool(n, "nothing") : n \in
  {"estimate_run", "start_pipeline", "get_job", "list_jobs", "run_job", "cancel_job", "resume_job"}}

\* A review is noted in the audit trail only; the example stays as it is.
DatasetTools ==
  {Tool(n, "nothing") : n \in {"preview_examples", "lineage", "validate_dataset",
                               "create_dataset_version", "export_dataset", "compare_runs"}}
  \cup {Tool("review_example", "decision"), Tool("publish_dataset", "confirmation")}

\* A job or a version is looked up by its own handle and must be of the project
\* in the URI; the others are looked for among those of the project.
ResourceTools ==
  {Tool(n, "project of the handle") : n \in {"job", "job_events", "dataset"}}
  \cup {Tool(n, "nothing") : n \in {"project", "source", "example_lineage"}}

ToolOf(r) ==
  CHOOSE t \in ProjectTools \cup RunTools \cup DatasetTools \cup ResourceTools : t.name = r.route

RouteOf(r) ==
  CHOOSE route \in ProjectRoutes \cup JobRoutes \cup DatasetRoutes : route.name = r.route

\* Anything else is not found.
ASSUME RoutesAssumption ==
  \A r \in Requests : r.server = "rest" =>
    \E route \in ProjectRoutes \cup JobRoutes \cup DatasetRoutes : route.name = r.route

Writes(r) ==
  r.route \in {"create_project", "add_source", "start_pipeline", "run_job", "cancel_job", "resume_job",
               "review_example", "validate_dataset", "create_version", "export_dataset",
               "publish_dataset"}

-----------------------------------------------------------------------------
(* Identity and rights *)

\* The limiter looks at the header, before anyone has checked the token.
_identity(r) == IF r.token # NoToken THEN <<"p", r.token>> ELSE <<"ip", r.address>>

VALID_SCOPE_NAMES ==
  {"projects:read", "projects:write", "sources:read", "sources:write", "runs:execute", "runs:read",
   "review:write", "datasets:read", "datasets:write", "datasets:export", "datasets:publish", "admin"}

\* authorize: "local", "token" or nobody.
authorize(r) == IF ApiToken = NoToken THEN "local" ELSE IF r.token = ApiToken THEN "token" ELSE Nobody

_configured_scopes(name) ==
  IF name = "local" THEN VALID_SCOPE_NAMES
  ELSE IF Configured = Default THEN VALID_SCOPE_NAMES \ {"datasets:publish", "admin"} ELSE Configured

SeesAll(name) == name = "local" \/ name \in Admins

\* With an unknown name in server.scopes load_config fails, and with it every
\* request: the limiter is the first to load the configuration.
ASSUME ScopesAssumption == Configured = Default \/ Configured \subseteq VALID_SCOPE_NAMES

-----------------------------------------------------------------------------
(* Rate limiting *)

NoRequest == [phase |-> "new"]

AccessInit ==
  /\ clock = 0 /\ queue = <<>> /\ acted = {} /\ owners = InitialOwners
  /\ buckets = [k \in {_identity(r) : r \in Requests} |-> <<>>]
  /\ request = [r \in Requests |-> NoRequest]
  /\ replies = [r \in Requests |-> <<>>]

Enter(r, phase) == request' = [request EXCEPT ![r].phase = phase]
Reply(r, code) == replies' = [replies EXCEPT ![r] = Append(@, code)]

Begin(r, phase) ==
  request' = [request EXCEPT ![r] =
    [phase |-> phase, at |-> clock, passed |-> FALSE, read |-> 0, left |-> r.chunks]]

\* The time is read before the lock is awaited.
Arrive(r) ==
  /\ r.server = "rest" /\ request[r].phase = "new"
  /\ Begin(r, IF RateCap = 0 THEN "length" ELSE "queued")
  /\ queue' = IF RateCap = 0 THEN queue ELSE Append(queue, r)
  /\ UNCHANGED <<clock, buckets, replies, owners, acted>>

\* Mutant: a time is forgotten one tick early.
RecentEarly(times, now) ==
  SubSeq(times, 1 + Max({n \in 0 .. Len(times) : \A i \in 1 .. n : now - times[i] >= RateWindow - 1}),
         Len(times))

\* The leading times outside the window.
Stale(times, now) ==
  Max({n \in 0 .. Len(times) : \A i \in 1 .. n : now - times[i] >= RateWindow})

Recent(times, now) == SubSeq(times, 1 + Stale(times, now), Len(times))

allow(times) == Len(times) < RateCap

\* The lock is kept while a refusal is sent.
Limit(r) ==
  /\ queue # <<>> /\ r = Head(queue) /\ request[r].phase = "queued"
  /\ LET k == _identity(r)
         times == Recent(buckets[k], request[r].at)
     IN  IF allow(times)
         THEN /\ buckets' = [buckets EXCEPT ![k] = Append(times, request[r].at)]
              /\ request' = [request EXCEPT ![r].phase = "length", ![r].passed = TRUE]
              /\ queue' = Tail(queue)
         ELSE /\ buckets' = [buckets EXCEPT ![k] = times]
              /\ Enter(r, "refusing") /\ UNCHANGED queue
  /\ UNCHANGED <<clock, replies, owners, acted>>

_respond_429(r) ==
  /\ request[r].phase = "refusing" /\ Enter(r, "done") /\ Reply(r, 429)
  /\ queue' = Tail(queue)
  /\ UNCHANGED <<clock, buckets, owners, acted>>

-----------------------------------------------------------------------------
(* The body *)

\* A declared length above the cap is answered, and the request goes on; what
\* the server makes of a second answer is not modelled.
CheckLength(r) ==
  /\ request[r].phase = "length"
  /\ Enter(r, IF RouteOf(r).reads THEN "body" ELSE "scope")
  /\ IF Writes(r) /\ BodyCap > 0 /\ r.declared > BodyCap THEN Reply(r, 413) ELSE UNCHANGED replies
  /\ UNCHANGED <<clock, buckets, queue, owners, acted>>

TooLarge(r) == request[r].read + Head(request[r].left) > BodyCap

ReadChunk(r) ==
  /\ request[r].phase = "body" /\ request[r].left # <<>>
  /\ IF BodyCap > 0 /\ TooLarge(r) THEN Enter(r, "oversized")
     ELSE request' = [request EXCEPT ![r].read = @ + Head(request[r].left), ![r].left = Tail(@)]
  /\ UNCHANGED <<clock, buckets, queue, replies, owners, acted>>

\* The exception comes back to the middleware, or the application answers it
\* itself and that answer is swallowed.
_respond_413(r) ==
  /\ request[r].phase = "oversized" /\ Enter(r, "done")
  /\ Reply(r, 413) \/ UNCHANGED replies
  /\ UNCHANGED <<clock, buckets, queue, owners, acted>>

BodyRead(r) ==
  /\ request[r].phase = "body" /\ request[r].left = <<>> /\ Enter(r, "scope")
  /\ UNCHANGED <<clock, buckets, queue, replies, owners, acted>>

-----------------------------------------------------------------------------
(* Rights and operation *)

Deny(r, code) == Enter(r, "done") /\ Reply(r, code)

require_scope(r) ==
  /\ request[r].phase = "scope"
  /\ LET name == authorize(r) IN
     IF name = Nobody THEN Deny(r, 401)
     ELSE IF RouteOf(r).scope \in _configured_scopes(name) THEN Enter(r, "access") /\ UNCHANGED replies
     ELSE Deny(r, 403)
  /\ UNCHANGED <<clock, buckets, queue, owners, acted>>

\* The status of an error; the first class that fits decides.
_err(error) ==
  CASE error = "NotFoundError" -> 404
    [] error \in {"AlreadyExistsError", "ConcurrencyError", "JobStateError"} -> 409
    [] error \in {"AuthorizationError", "PolicyBlockError", "BudgetExceededError"} -> 403
    [] error = "ProviderError" -> 502
    [] error = "RateLimitError" -> 429
    [] error = "ArchiveBombError" -> 413
    [] error \in {"MalwareScanError", "CorruptedArtifactError", "ValidationError", "ExportError"} -> 422
    [] OTHER -> 400

\* The operator on this machine and the admins pass unseen.  Of a review the guard
\* sees the project in the path, not the example's.
require_project_access(r) ==
  /\ request[r].phase = "access"
  /\ LET name == authorize(r) IN
     IF RouteOf(r).guard = "none" \/ SeesAll(name) \/ owners[r.project] = name
     THEN Enter(r, "act") /\ UNCHANGED replies
     ELSE Deny(r, _err(IF owners[r.project] = Nobody THEN "NotFoundError" ELSE "AuthorizationError"))
  /\ UNCHANGED <<clock, buckets, queue, owners, acted>>

Act(r) ==
  /\ request[r].phase = "act" /\ r.route # "create_project"
  /\ acted' = acted \cup {r} /\ Enter(r, "done")
  /\ \E code \in {200} \cup {_err(error) : error \in Errors} : Reply(r, code)
  /\ UNCHANGED <<clock, buckets, queue, owners>>

\* MCP: the token, then what the tool looks at.  An MCP server has neither limits
\* nor owners.
bearer_guard(r) ==
  /\ r.server = "mcp" /\ request[r].phase = "new"
  /\ IF ApiToken \in {NoToken, r.token} THEN Begin(r, "tool") /\ UNCHANGED replies
     ELSE Begin(r, "done") /\ Reply(r, 401)
  /\ UNCHANGED <<clock, buckets, queue, owners, acted>>

CallTool(r) ==
  /\ request[r].phase = "tool"
  /\ IF ToolOf(r).checks = "nothing" \/ r.fits THEN Enter(r, "act") /\ UNCHANGED replies
     ELSE Deny(r, 200)
  /\ UNCHANGED <<clock, buckets, queue, owners, acted>>

\* The slug is looked up, then inserted; it is unique in the table.
LookUpSlug(r) ==
  /\ request[r].phase = "act" /\ r.route = "create_project"
  /\ IF owners[r.project] = Nobody THEN Enter(r, "insert") /\ UNCHANGED replies
     ELSE Deny(r, _err("AlreadyExistsError"))
  /\ acted' = acted \cup {r}
  /\ UNCHANGED <<clock, buckets, queue, owners>>

create_project(r) ==
  /\ request[r].phase = "insert"
  /\ IF owners[r.project] = Nobody
     THEN /\ owners' = [owners EXCEPT ![r.project] = IF r.server = "mcp" THEN r.owner ELSE authorize(r)]
          /\ Deny(r, 201)
     ELSE Deny(r, _err("IntegrityError")) /\ UNCHANGED owners
  /\ UNCHANGED <<clock, buckets, queue, acted>>

Pass == clock < MaxClock /\ clock' = clock + 1
        /\ UNCHANGED <<buckets, queue, request, replies, owners, acted>>

AccessNext ==
  \/ \E r \in Requests :
       \/ Arrive(r) \/ Limit(r) \/ _respond_429(r) \/ CheckLength(r) \/ ReadChunk(r)
       \/ _respond_413(r) \/ BodyRead(r) \/ require_scope(r) \/ require_project_access(r)
       \/ bearer_guard(r) \/ CallTool(r) \/ Act(r) \/ LookUpSlug(r) \/ create_project(r)
  \/ Pass

AccessSpec == AccessInit /\ [][AccessNext]_accessVars

-----------------------------------------------------------------------------
(* Properties *)

\* The projects an operation acts on.  A review acts on the example it names and
\* asks nothing of its project; the list of one's projects is filtered by owner.
ActsOn(r) ==
  CASE r.route = "review_example" -> {r.example}
    [] r.route = "list_all_jobs" -> {p \in DOMAIN owners : owners[p] # Nobody}
    [] r.route \in {"create_project", "list_projects"} -> {}
    [] OTHER -> {r.project}

OnOwn(r) == SeesAll(authorize(r)) \/ \A p \in ActsOn(r) : owners[p] = authorize(r)

\* However long requests wait for each other at the lock, no identity gets more
\* than its cap into a window of arrival times; no operation is called with a
\* body over the cap, in however many pieces it came, nor without the token, nor
\* through REST, a review and the list of all jobs excepted, on a project that
\* someone else owns by then; and of those who create a project under one slug at
\* a time, over either server, one succeeds (RateLimitMiddleware,
\* BodyLimitMiddleware, authorize, require_project_access, create_project).
ActsWithinLimits ==
  /\ RateCap > 0 => \A r \in Requests : request[r].phase # "new" =>
       Cardinality({q \in Requests : /\ request[q].phase # "new" /\ request[q].passed
                                     /\ _identity(q) = _identity(r)
                                     /\ request[q].at \in request[r].at..request[r].at + RateWindow - 1})
         <= RateCap
  /\ \A r \in acted :
       /\ ApiToken # NoToken => r.token = ApiToken
       /\ r.server = "rest" =>
            /\ BodyCap > 0 /\ RouteOf(r).reads => SumTo(r.chunks, Len(r.chunks)) <= BodyCap
            /\ r.route \notin {"review_example", "list_all_jobs"} => OnOwn(r)
  /\ \A r, q \in acted :
       r.route = "create_project" /\ q.route = "create_project" /\ r.project = q.project /\ r # q =>
         ~ (201 \in {replies[r][i] : i \in DOMAIN replies[r]}
            /\ 201 \in {replies[q][i] : i \in DOMAIN replies[q]})

=============================================================================
