----------------------------- MODULE Submission -----------------------------
(***************************************************************************)
(* Pipeline jobs around their execution: Workspace.start_pipeline with its *)
(* idempotency key and the limit on running jobs (application/abuse.py);   *)
(* the pipeline stage, whose result is stored either by the worker, in one *)
(* transaction before the stage checkpoint (interfaces/cli/commands.py),   *)
(* or in the transaction of an in-process run (Workspace.run_job); and the *)
(* event log with its pages (JobRepository).  Leases, heartbeats and       *)
(* retries are in DurableJobs; here a lease may expire at any time, and a  *)
(* worker finishes, meets a conflict or dies.                              *)
(***************************************************************************)
EXTENDS Integers, Sequences, FiniteSets

CONSTANTS Clients,       \* concurrent submitters
          Keys,          \* idempotency keys
          NoKey,         \* a submission without one
          SourcesOf,     \* project -> its sources
          OwnerOf,       \* project -> its owner
          JobLimit,      \* running jobs allowed; 0 disables the limit
          PageSize,      \* events in a page
          LogWriters,    \* concurrent writers of one job's log
          MaxJobs, MaxTries, MaxEvents  \* bounds

ASSUME SubmissionAssumption ==
  /\ JobLimit \in Nat /\ PageSize \in Nat \ {0} /\ NoKey \notin Keys
  /\ MaxJobs \in Nat /\ MaxTries \in Nat /\ MaxEvents \in Nat

VARIABLES client,    \* client -> submission in progress, with what it has read
          answers,   \* history: <<key, job>> handed out
          jobs,      \* submitted jobs, in order
          row,       \* job -> state of its row; "running" covers leased
          work,      \* job -> its executions in order, each "running", "stored",
                     \* "marked" or "over"
          marks,     \* jobs whose stage has its checkpoint
          saved,     \* rows of results: <<job, execution, source>>
          spans,     \* primary keys taken in the span table
          entries,   \* the log: set of [at, id]
          logger,    \* log writer -> number it has computed
          walk       \* a reader of the log

submitVars == <<client, answers, jobs, row, work, marks, saved, spans>>
logVars == <<entries, logger, walk>>

-----------------------------------------------------------------------------
(* Submission *)

NoClient == [phase |-> "idle"]
Running(owner) == {j \in DOMAIN jobs : row[j] = "running" /\ OwnerOf[jobs[j].project] = owner}
Holders(k) == {j \in DOMAIN jobs : jobs[j].key = k}

SubmitInit ==
  /\ client = [c \in Clients |-> NoClient] /\ answers = {}
  /\ jobs = <<>> /\ row = <<>> /\ work = <<>> /\ marks = {} /\ saved = {} /\ spans = {}

enforce_concurrent_jobs(running) == JobLimit = 0 \/ running < JobLimit

\* The key is looked up, then the owner's running jobs are counted, before the row
\* is written.
Look(c, p, k) ==
  /\ client[c].phase = "idle" /\ SourcesOf[p] # {}
  /\ IF k # NoKey /\ Holders(k) # {}
     THEN answers' = answers \cup {<<k, CHOOSE j \in Holders(k) : TRUE>>} /\ UNCHANGED client
     ELSE /\ enforce_concurrent_jobs(Cardinality(Running(OwnerOf[p])))
          /\ client' = [client EXCEPT ![c] = [phase |-> "create", project |-> p, key |-> k]]
          /\ UNCHANGED answers
  /\ UNCHANGED <<jobs, row, work, marks, saved, spans>>

\* Mutant: no constraint on the key.
KeyFreeAlways(k) == TRUE

\* The key is unique in the table.
KeyFree(k) == k = NoKey \/ Holders(k) = {}

\* The insert fails when another submission has taken the key meanwhile.
Create(c) ==
  /\ client[c].phase = "create" /\ Len(jobs) < MaxJobs
  /\ client' = [client EXCEPT ![c] = NoClient]
  /\ IF KeyFree(client[c].key)
     THEN /\ jobs' = Append(jobs, [project |-> client[c].project, key |-> client[c].key])
          /\ row' = Append(row, "queued") /\ work' = Append(work, <<>>)
          /\ answers' = answers \cup {<<client[c].key, Len(jobs) + 1>>}
     ELSE UNCHANGED <<jobs, row, work, answers>>
  /\ UNCHANGED <<marks, saved, spans>>

-----------------------------------------------------------------------------
(* Execution.  Parsed documents, candidates and examples get fresh ids;     *)
(* spans and chunks are named by the content of their source. *)

\* Mutant: spans get fresh ids as well.
SpanKeysFresh(j) == {<<s, j, Len(work[j])>> : s \in SourcesOf[jobs[j].project]}

SpanKeys(j) == {<<s>> : s \in SourcesOf[jobs[j].project]}

Rows(j, t) == {<<j, t, s>> : s \in SourcesOf[jobs[j].project]}

\* persist_pipeline_result: all rows, or none when one key is taken.
Persists(j) == SpanKeys(j) \cap spans = {}

\* A queued job, or one whose lease has expired, be its worker dead or alive; a
\* stage that has its checkpoint is passed over.
Claim(j) ==
  /\ row[j] \in {"queued", "running"} /\ Len(work[j]) < MaxTries
  /\ row' = [row EXCEPT ![j] = "running"]
  /\ work' = [work EXCEPT ![j] = Append(@, IF j \in marks THEN "marked" ELSE "running")]
  /\ UNCHANGED <<client, answers, jobs, marks, saved, spans>>

Moves(j, t, from, to) ==
  /\ t \in DOMAIN work[j] /\ work[j][t] = from
  /\ work' = [work EXCEPT ![j] = [@ EXCEPT ![t] = to]]

\* The worker's stage: one transaction stores the result; ...
CommitStage(j, t) ==
  /\ Persists(j) /\ Moves(j, t, "running", "stored")
  /\ saved' = saved \cup Rows(j, t) /\ spans' = spans \cup SpanKeys(j)
  /\ UNCHANGED <<client, answers, jobs, row, marks>>

\* ... a conflict fails the job.
StageConflicts(j, t) ==
  /\ ~ Persists(j) /\ Moves(j, t, "running", "over")
  /\ row' = [row EXCEPT ![j] = "failed"]
  /\ UNCHANGED <<client, answers, jobs, marks, saved, spans>>

\* ctx.checkpoint, in a transaction of its own, and the save of the row.
MarkStage(j, t) ==
  /\ Moves(j, t, "stored", "marked")
  /\ marks' = marks \cup {j} /\ row' = [row EXCEPT ![j] = "running"]
  /\ UNCHANGED <<client, answers, jobs, saved, spans>>

\* The save of the outcome, whatever the row has become.
FinishJob(j, t) ==
  /\ Moves(j, t, "marked", "over") /\ row' = [row EXCEPT ![j] = "succeeded"]
  /\ UNCHANGED <<client, answers, jobs, marks, saved, spans>>

\* The worker dies; its lease will expire.
WorkerDies(j, t) ==
  /\ \E from \in {"running", "stored", "marked"} : Moves(j, t, from, "over")
  /\ UNCHANGED <<client, answers, jobs, row, marks, saved, spans>>

\* run_job: engine and result in one transaction, for a job in any state.  The
\* engine refuses a job that is neither queued nor leased, or its stage fails:
\* both save "failed".  Else the result is stored if the stage ran and anything
\* was accepted; a conflict there undoes everything, so it is no step.
RunInProcess(j) ==
  /\ Len(work[j]) < MaxTries
  /\ \/ /\ row' = [row EXCEPT ![j] = "failed"] /\ UNCHANGED <<work, marks, saved, spans>>
     \/ /\ row[j] \in {"queued", "running"} /\ row' = [row EXCEPT ![j] = "succeeded"]
        /\ work' = [work EXCEPT ![j] = Append(@, "over")] /\ marks' = marks \cup {j}
        /\ \/ UNCHANGED <<saved, spans>>
           \/ /\ j \notin marks /\ Persists(j)
              /\ saved' = saved \cup Rows(j, Len(work[j]) + 1)
              /\ spans' = spans \cup SpanKeys(j)
  /\ UNCHANGED <<client, answers, jobs>>

\* resume_job: a failed job is queued again.
resume_job(j) ==
  /\ row[j] = "failed" /\ Len(work[j]) < MaxTries
  /\ row' = [row EXCEPT ![j] = "queued"]
  /\ UNCHANGED <<client, answers, jobs, work, marks, saved, spans>>

SubmitNext ==
  \/ \E c \in Clients : Create(c) \/ \E p \in DOMAIN SourcesOf, k \in Keys \cup {NoKey} : Look(c, p, k)
  \/ \E j \in DOMAIN jobs : Claim(j) \/ RunInProcess(j) \/ resume_job(j)
  \/ \E j \in DOMAIN jobs : \E t \in DOMAIN work[j] :
        CommitStage(j, t) \/ StageConflicts(j, t) \/ MarkStage(j, t) \/ FinishJob(j, t)
        \/ WorkerDies(j, t)

SubmitSpec == SubmitInit /\ [][SubmitNext]_submitVars

-----------------------------------------------------------------------------
(* The event log *)

NoLogger == [at |-> 0]
NoWalk == [phase |-> "idle"]
LogInit == entries = {} /\ logger = [w \in LogWriters |-> NoLogger] /\ walk = NoWalk

NextSequence == 1 + IF entries = {} THEN 0
                    ELSE CHOOSE n \in {e.at : e \in entries} : \A e \in entries : e.at <= n

\* append_event and record_checkpoint: the next number is computed, then the
\* row is committed.
Number(w) ==
  /\ logger[w].at = 0 /\ Cardinality(entries) < MaxEvents
  /\ logger' = [logger EXCEPT ![w] = [at |-> NextSequence]]
  /\ UNCHANGED <<entries, walk>>

Log(w) ==
  /\ logger[w].at # 0
  /\ entries' = entries \cup {[at |-> logger[w].at, id |-> Cardinality(entries) + 1]}
  /\ logger' = [logger EXCEPT ![w] = NoLogger]
  /\ UNCHANGED walk

\* Mutant: the row the cursor stands on is read again.
AfterInclusive(cursor) == {e \in entries : e.at >= cursor}

After(cursor) == {e \in entries : e.at > cursor}

\* Pages of a walk: rows after the cursor by number, rows of one number in any
\* order.
Pages(cursor) ==
  LET rows == After(cursor)
      size == IF Cardinality(rows) < PageSize THEN Cardinality(rows) ELSE PageSize
  IN  {page \in SUBSET rows : /\ Cardinality(page) = size
                              /\ \A e \in page, f \in rows \ page : e.at <= f.at}

Highest(page) == CHOOSE n \in {e.at : e \in page} : \A e \in page : e.at <= n

StartWalk ==
  /\ walk.phase = "idle"
  /\ walk' = [phase |-> "reading", cursor |-> 0, got |-> {}, twice |-> FALSE, known |-> entries]
  /\ UNCHANGED <<entries, logger>>

\* get_events: there is a next page when more rows than the page were found.
ReadPage ==
  /\ walk.phase = "reading"
  /\ \E page \in Pages(walk.cursor) :
       walk' = [phase |-> IF Cardinality(After(walk.cursor)) > PageSize THEN "reading" ELSE "done",
                cursor |-> IF page = {} THEN walk.cursor ELSE Highest(page),
                got |-> walk.got \cup page, twice |-> walk.twice \/ page \cap walk.got # {},
                known |-> walk.known]
  /\ UNCHANGED <<entries, logger>>

LogNext == StartWalk \/ ReadPage \/ \E w \in LogWriters : Number(w) \/ Log(w)

LogSpec == LogInit /\ [][LogNext]_logVars

-----------------------------------------------------------------------------
(* Properties *)

\* All who submit under one key and are answered are answered with the same
\* job, however their submissions overlap (start_pipeline).
OneJobPerKey ==
  \A a, b \in answers : a[1] = b[1] /\ a[1] # NoKey => a[2] = b[2]

\* The result of a source is stored at most once, whatever is executed again
\* after a crash, by two workers at once, submitted twice or run by a client beside
\* a worker: the keys of its spans are taken (commands.py, the comment on persisting
\* in the stage).
StoredOnce == \A r, s \in saved : r[3] = s[3] => r = s

\* A reader that pages to the end gets no event twice, and misses an event
\* that was there when it began only when another has the same number.
WalkMissesOnlyTies ==
  walk.phase = "done" =>
    /\ ~ walk.twice
    /\ \A e \in walk.known \ walk.got : \E f \in entries \ {e} : f.at = e.at
=============================================================================
