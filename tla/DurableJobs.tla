---------------------------- MODULE DurableJobs ----------------------------
(***************************************************************************)
(* The durable job runtime: the `jobs` table, the workers that claim rows  *)
(* from it under a lease, the engine that drives a claimed job through its *)
(* stages, and the control plane (cancel, resume, in-process run) that     *)
(* writes the same rows.                                                   *)
(*                                                                         *)
(* Every repository call of a worker is a transaction of its own           *)
(* (WorkerRepository._op), so each is one step here; between two of them   *)
(* another worker, the clock or the control plane may move.  A worker      *)
(* keeps the Job object it read when it claimed the row, and JobRepository *)
(* .save writes that copy back whole: `run[w]` is the copy together with   *)
(* the engine's program counter.  A client's call does the same within one *)
(* transaction that locks nothing when it reads: `calls[c]` is the row as  *)
(* the caller's SELECT returned it, saved by a later step.                 *)
(*                                                                         *)
(* Time is counted in ticks.  A lease is the number of ticks it has left,  *)
(* 0 standing for expired and for NULL, which claim_eligible treats alike. *)
(***************************************************************************)
EXTENDS Naturals

CONSTANTS
    NumJobs,          \* jobs are numbered in the order of created_at
    NumStages,        \* length of the stage list the provider returns
    Workers,          \* worker processes (worker_id)
    Clients,          \* control-plane calls that may be in flight at a time
    LeaseLen,         \* lease_seconds, in ticks
    HeartbeatEvery,   \* the engine's heartbeat interval, in ticks
    MaxAttempts,      \* RetryPolicy.max_attempts
    MaxFaults,        \* bound on crashes, failed database calls, kills
    RowLocks,         \* TRUE: FOR UPDATE SKIP LOCKED works (PostgreSQL)
    TimelyHeartbeats, \* TRUE: the heartbeat loop is never starved
    ControlPlane,     \* the control-plane calls clients make
    NoOwner,          \* lease_owner NULL
    LocalWorker       \* lease_owner written by the in-process runner

ASSUME SizesAssumption ==
    /\ NumJobs \in Nat /\ NumStages \in Nat /\ MaxAttempts \in Nat
    /\ LeaseLen \in Nat \ {0} /\ HeartbeatEvery \in Nat \ {0}
    /\ MaxFaults \in Nat

ASSUME ModesAssumption ==
    /\ RowLocks \in BOOLEAN /\ TimelyHeartbeats \in BOOLEAN
    /\ ControlPlane \subseteq {"cancel", "resume", "run"}

ASSUME OwnersAssumption ==
    /\ NoOwner \notin Workers /\ LocalWorker \notin Workers
    /\ NoOwner # LocalWorker

Jobs   == 1..NumJobs
Stages == 1..NumStages
Owners == Workers \cup {NoOwner, LocalWorker}

VARIABLES
    rows,     \* the jobs table: state, lease_owner, lease_expires_at, cancel flag
    ckpts,    \* job_checkpoints: the stages of each job recorded as completed
    run,      \* each worker's engine run
    calls,    \* each client's call in flight, with its copy of the row
    faults    \* environment failures so far

vars == <<rows, ckpts, run, calls, faults>>

-----------------------------------------------------------------------------
(* The job state machine. *)

JobState == {"queued", "leased", "running", "pausing", "paused", "retry_wait",
             "cancelling", "succeeded", "failed", "cancelled"}

TerminalState == {"succeeded", "failed", "cancelled"}

Transitions(from) ==
    CASE from = "queued"     -> {"leased", "cancelled", "failed"}
      [] from = "leased"     -> {"running", "queued", "cancelled", "failed"}
      [] from = "running"    -> {"pausing", "retry_wait", "succeeded", "failed",
                                 "cancelling"}
      [] from = "pausing"    -> {"paused", "failed", "cancelling"}
      [] from = "paused"     -> {"queued", "failed", "cancelled"}
      [] from = "retry_wait" -> {"queued", "failed", "cancelled"}
      [] from = "cancelling" -> {"cancelled", "failed"}
      [] from = "failed"     -> {"queued"}
      [] OTHER               -> {}

-----------------------------------------------------------------------------
(* State. *)

Row == [state : JobState \cup {"absent"}, owner : Owners,
        lease : 0..LeaseLen, cancel : BOOLEAN]

NoRow == [state |-> "absent", owner |-> NoOwner, lease |-> 0, cancel |-> FALSE]

\* Where a worker is.  "claiming": SQLite only, the candidate has been read and
\* not yet written.  The rest name the database call, or the stage function,
\* that comes next; "commit" is the save inside the engine's try block and
\* "report" the one in an exception handler.
EnginePC == {"claimed", "load", "boundary", "enter", "stage", "stageSave",
             "event", "record", "recordSave", "commit", "report"}

Run == [pc : {"idle", "claiming"} \cup EnginePC,
        job : 0..NumJobs,            \* 0: none
        lease : 0..LeaseLen,         \* job.lease_expires_at in the copy
        seen : BOOLEAN,              \* job.cancellation_requested_at is set in the copy
        done : SUBSET Stages,        \* ctx.extras["completed_stages"]
        idx : 1..(NumStages + 1),    \* next stage
        attempt : 0..MaxAttempts,    \* retries of the current stage
        to : JobState \cup {"none"}, \* state the pending write will set
        hb : 0..HeartbeatEvery]      \* ticks since the last heartbeat

NoRun == [pc |-> "idle", job |-> 0, lease |-> 0, seen |-> FALSE, done |-> {},
          idx |-> 1, attempt |-> 0, to |-> "none", hb |-> 0]

\* A call that has read its row and not yet saved it.  Of the cancel flag only what
\* request_cancel adds matters, for save() COALESCEs it.
NoCall == [kind |-> "none", job |-> 0, state |-> "absent", owner |-> NoOwner, lease |-> 0]
Call == {NoCall} \cup [kind : ControlPlane, job : Jobs, state : JobState,
                      owner : Owners, lease : 0..LeaseLen]

Init == /\ rows = [j \in Jobs |-> NoRow]
        /\ ckpts = [j \in Jobs |-> {}]
        /\ run = [w \in Workers |-> NoRun]
        /\ calls = [c \in Clients |-> NoCall]
        /\ faults = 0

InEngine(w) == run[w].pc \in EnginePC

\* Mutant: save() without the COALESCE.
SaveOverwritingCancel(j, state, owner, lease, cancel) ==
    rows' = [rows EXCEPT ![j] = [state |-> state, owner |-> owner, lease |-> lease,
                                 cancel |-> cancel]]

\* JobRepository.save: an UPDATE by primary key that overwrites the row with
\* the writer's copy; only the cancel flag is COALESCEd with what is stored.
Save(j, state, owner, lease, cancel) ==
    rows' = [rows EXCEPT ![j] = [state |-> state, owner |-> owner, lease |-> lease,
                                 cancel |-> rows[j].cancel \/ cancel]]

\* The engine saving its copy of the job, with the state it holds.
SaveCopy(w, state) == Save(run[w].job, state, w, run[w].lease, run[w].seen)

Goto(w, pc) == run' = [run EXCEPT ![w].pc = pc]

Land(w, pc, state) == run' = [run EXCEPT ![w].pc = pc, ![w].to = state]

SpendFault == faults < MaxFaults /\ faults' = faults + 1

-----------------------------------------------------------------------------
(* Submission and claiming. *)

\* Workspace.start_pipeline: a new row, queued, never leased.
Submit(j) ==
    /\ rows[j].state = "absent"
    /\ \A i \in Jobs : i < j => rows[i].state # "absent"
    /\ rows' = [rows EXCEPT ![j].state = "queued"]
    /\ UNCHANGED <<ckpts, run, faults, calls>>

\* Mutant: no arm for expired leases.
EligibleUnleased(r) == r.state \in {"queued", "retry_wait"}

Eligible(r) == \/ r.state \in {"queued", "retry_wait"}
               \/ r.state \in {"leased", "running"} /\ r.lease = 0

\* The candidate of claim_eligible: the oldest eligible row.
Candidate(j) == Eligible(rows[j]) /\ \A i \in Jobs : i < j => ~Eligible(rows[i])

\* The row claim_eligible writes and the copy it returns.
LeaseTo(w, j, state) ==
    rows' = [rows EXCEPT ![j] = [state |-> state, owner |-> w, lease |-> LeaseLen,
                                 cancel |-> rows[j].cancel]]

Claimed(j, seen) == [pc |-> "claimed", job |-> j, lease |-> LeaseLen, seen |-> seen,
                     done |-> {}, idx |-> 1, attempt |-> 0, to |-> "none", hb |-> 0]

\* claim_eligible where the SELECT locks the row it returns.
Claim(w, j) ==
    /\ RowLocks /\ run[w].pc = "idle" /\ Candidate(j)
    /\ LeaseTo(w, j, "leased")
    /\ run' = [run EXCEPT ![w] = Claimed(j, rows[j].cancel)]
    /\ UNCHANGED <<ckpts, faults, calls>>

\* The row as the SELECT returned it; `to` is the column the flush will change.
Reading(j) == [pc |-> "claiming", job |-> j, lease |-> 0, seen |-> rows[j].cancel,
               done |-> {}, idx |-> 1, attempt |-> 0, hb |-> 0,
               to |-> IF rows[j].state = "leased" THEN "none" ELSE "leased"]

\* claim_eligible on SQLite: FOR UPDATE is ignored and the SELECT takes no
\* lock that another process's SELECT would wait for ...
ClaimRead(w, j) ==
    /\ ~RowLocks /\ run[w].pc = "idle" /\ Candidate(j)
    /\ run' = [run EXCEPT ![w] = Reading(j)]
    /\ UNCHANGED <<rows, ckpts, faults, calls>>

\* ... and the flush is an UPDATE by primary key of the columns that changed.
ClaimWrite(w) ==
    /\ run[w].pc = "claiming"
    /\ LET j == run[w].job
       IN /\ LeaseTo(w, j, IF run[w].to = "none" THEN rows[j].state ELSE "leased")
          /\ run' = [run EXCEPT ![w] = Claimed(j, run[w].seen)]
    /\ UNCHANGED <<ckpts, faults, calls>>

-----------------------------------------------------------------------------
(* JobEngine.run, up to and after a stage. *)

StartRun(w) ==
    /\ run[w].pc = "claimed"
    /\ SaveCopy(w, "running")
    /\ Goto(w, "load")
    /\ UNCHANGED <<ckpts, faults, calls>>

\* Mutant: the replacement worker starts from nothing.
LoadNothing(w) ==
    /\ run[w].pc = "load"
    /\ Goto(w, "boundary")
    /\ UNCHANGED <<rows, ckpts, faults, calls>>

\* completed_checkpoints: what a replacement worker need not repeat.
LoadCheckpoints(w) ==
    /\ run[w].pc = "load"
    /\ run' = [run EXCEPT ![w].pc = "boundary", ![w].done = ckpts[run[w].job]]
    /\ UNCHANGED <<rows, ckpts, faults, calls>>

\* Mutants: nobody looks at the flag; the row is never re-read.
RefreshIgnored(w, requested) == requested = FALSE /\ UNCHANGED faults
RefreshCopyOnly(w, requested) == requested = run[w].seen /\ UNCHANGED faults

\* refresh_cancellation: the row's flag or the copy's; when the read fails, the
\* copy's alone.
Refresh(w, requested) ==
    \/ requested = (rows[run[w].job].cancel \/ run[w].seen) /\ UNCHANGED faults
    \/ requested = run[w].seen /\ SpendFault

\* The loop breaks and the refresh after it sees the same request.
BoundaryCancelled(w) ==
    /\ run[w].pc = "boundary" /\ Refresh(w, TRUE)
    /\ run' = [run EXCEPT ![w].pc = "commit", ![w].to = "cancelled", ![w].seen = TRUE]
    /\ UNCHANGED <<rows, ckpts, calls>>

SkipStage(w) ==
    /\ run[w].pc = "boundary" /\ Refresh(w, FALSE)
    /\ run[w].idx \in run[w].done
    /\ run' = [run EXCEPT ![w].idx = @ + 1]
    /\ UNCHANGED <<rows, ckpts, calls>>

EnterStage(w) ==
    /\ run[w].pc = "boundary" /\ Refresh(w, FALSE)
    /\ run[w].idx \in Stages \ run[w].done
    /\ Goto(w, "enter")
    /\ UNCHANGED <<rows, ckpts, calls>>

AllStagesDone(w) ==
    /\ run[w].pc = "boundary" /\ Refresh(w, FALSE)
    /\ run[w].idx = NumStages + 1
    /\ Land(w, "commit", "succeeded")
    /\ UNCHANGED <<rows, ckpts, calls>>

\* save(job) with current_stage and progress; _execute_with_retry starts.
SaveProgress(w) ==
    /\ run[w].pc = "enter"
    /\ SaveCopy(w, "running")
    /\ run' = [run EXCEPT ![w].pc = "stage", ![w].attempt = 0]
    /\ UNCHANGED <<ckpts, faults, calls>>

\* Mutant: completion is only remembered in memory.
RecordInMemory(w) ==
    /\ run[w].pc = "record"
    /\ Goto(w, "recordSave")
    /\ UNCHANGED <<rows, ckpts, faults, calls>>

\* The checkpoint the engine itself takes once the stage is complete.
RecordCheckpoint(w) ==
    /\ run[w].pc = "record"
    /\ ckpts' = [ckpts EXCEPT ![run[w].job] = @ \cup {run[w].idx}]
    /\ Goto(w, "recordSave")
    /\ UNCHANGED <<rows, faults, calls>>

SaveRecorded(w) ==
    /\ run[w].pc = "recordSave"
    /\ SaveCopy(w, "running")
    /\ run' = [run EXCEPT ![w].pc = "boundary", ![w].done = @ \cup {run[w].idx},
                          ![w].idx = @ + 1]
    /\ UNCHANGED <<ckpts, faults, calls>>

\* The save of the outcome; the run is over and the worker polls again.
SaveOutcome(w) ==
    /\ run[w].pc \in {"commit", "report"}
    /\ SaveCopy(w, run[w].to)
    /\ run' = [run EXCEPT ![w] = NoRun]
    /\ UNCHANGED <<ckpts, faults, calls>>

-----------------------------------------------------------------------------
(* The stage function, an arbitrary callable, inside _execute_with_retry. *)

\* It takes its own checkpoint, as the pipeline stage does before returning.
StageCheckpoints(w) ==
    /\ run[w].pc = "stage"
    /\ ckpts' = [ckpts EXCEPT ![run[w].job] = @ \cup {run[w].idx}]
    /\ Goto(w, "stageSave")
    /\ UNCHANGED <<rows, faults, calls>>

StageSaves(w) ==
    /\ run[w].pc = "stageSave"
    /\ SaveCopy(w, "running")
    /\ Goto(w, "event")
    /\ UNCHANGED <<ckpts, faults, calls>>

StageReturns(w) ==
    /\ run[w].pc = "stage"
    /\ Goto(w, "event")
    /\ UNCHANGED <<rows, ckpts, faults, calls>>

\* The stage_complete event is appended inside the retried block.
AppendComplete(w) ==
    /\ run[w].pc = "event"
    /\ Goto(w, "record")
    /\ UNCHANGED <<rows, ckpts, faults, calls>>

\* Something in the retried block raises: the stage itself, the save of its own
\* checkpoint or the event.  The last two are database failures.
Raises(w) == \/ run[w].pc = "stage" /\ UNCHANGED faults
             \/ run[w].pc \in {"stageSave", "event"} /\ SpendFault

\* Mutant: the attempt counter starts over instead of running out.
RetryForever(w) ==
    /\ Raises(w)
    /\ IF run[w].seen
          THEN Land(w, "report", "cancelled")
          ELSE run' = [run EXCEPT ![w].pc = "stage",
                                  ![w].attempt = (@ + 1) % (MaxAttempts + 1)]
    /\ UNCHANGED <<rows, ckpts, calls>>

\* A retryable error: back off, polling the copy's cancel flag, and try again.
RetryStage(w) ==
    /\ Raises(w) /\ run[w].attempt < MaxAttempts
    /\ IF run[w].seen
          THEN Land(w, "report", "cancelled")
          ELSE run' = [run EXCEPT ![w].pc = "stage", ![w].attempt = @ + 1]
    /\ UNCHANGED <<rows, ckpts, calls>>

\* Mutant: a failed stage is skipped.
FailStageSkips(w) ==
    /\ Raises(w)
    /\ run' = [run EXCEPT ![w].pc = "boundary", ![w].idx = @ + 1]
    /\ UNCHANGED <<rows, ckpts, calls>>

\* A policy block, a provider error marked final, no attempts left, or an outage
\* that also fails the append of the retry event.
FailStage(w) ==
    /\ Raises(w)
    /\ Land(w, "report", "failed")
    /\ UNCHANGED <<rows, ckpts, calls>>

\* BudgetExceededError.
ExhaustBudget(w) ==
    /\ run[w].pc = "stage"
    /\ Land(w, "report", "paused")
    /\ UNCHANGED <<rows, ckpts, faults, calls>>

\* A cooperative stage polls refresh_cancellation and raises CancelledError.
StageSeesCancel(w) ==
    /\ run[w].pc = "stage" /\ rows[run[w].job].cancel
    /\ run' = [run EXCEPT ![w].pc = "report", ![w].to = "cancelled", ![w].seen = TRUE]
    /\ UNCHANGED <<rows, ckpts, faults, calls>>

-----------------------------------------------------------------------------
(* Failures. *)

\* A repository call of the engine outside the retried block raises: `except
\* Exception` turns any of them into a failed job, the final save included.
DbCallFails(w) ==
    /\ run[w].pc \in {"claimed", "load", "enter", "record", "recordSave", "commit"}
    /\ SpendFault
    /\ Land(w, "report", "failed")
    /\ UNCHANGED <<rows, ckpts, calls>>

\* The save in an exception handler raises: the worker logs and moves on.
ReportLost(w) ==
    /\ run[w].pc = "report"
    /\ SpendFault
    /\ run' = [run EXCEPT ![w] = NoRun]
    /\ UNCHANGED <<rows, ckpts, calls>>

\* The worker's task is cancelled (a signal without a handler) while the engine
\* is in its try block.
KillTask(w) ==
    /\ run[w].pc \in EnginePC \ {"report"}
    /\ SpendFault
    /\ run' = [run EXCEPT ![w].pc = "report", ![w].seen = TRUE,
                          ![w].to = IF run[w].seen THEN "cancelled" ELSE "cancelling"]
    /\ UNCHANGED <<rows, ckpts, calls>>

\* The process dies; a new one polls under the same worker_id.
Crash(w) ==
    /\ run[w].pc # "idle"
    /\ SpendFault
    /\ run' = [run EXCEPT ![w] = NoRun]
    /\ UNCHANGED <<rows, ckpts, calls>>

-----------------------------------------------------------------------------
(* Leases and time. *)

\* One beat of the heartbeat loop.  renew_lease is guarded by ownership and
\* state; when it declines, the engine is not told.
Renew(w) ==
    /\ InEngine(w) /\ run[w].hb = HeartbeatEvery
    /\ run' = [run EXCEPT ![w].hb = 0]
    /\ LET j == run[w].job
       IN IF rows[j].owner = w /\ rows[j].state \in {"leased", "running"}
             THEN rows' = [rows EXCEPT ![j].lease = LeaseLen]
             ELSE UNCHANGED rows
    /\ UNCHANGED <<ckpts, faults, calls>>

\* Mutant: no floor.
LessUnbounded(n) == n - 1

Less(n) == IF n = 0 THEN 0 ELSE n - 1

Tick ==
    /\ TimelyHeartbeats => \A w \in Workers : InEngine(w) => run[w].hb < HeartbeatEvery
    /\ rows' = [j \in Jobs |-> [rows[j] EXCEPT !.lease = Less(@)]]
    /\ run' = [w \in Workers |->
                  [run[w] EXCEPT !.lease = Less(@),
                                 !.hb = IF InEngine(w) /\ @ < HeartbeatEvery
                                           THEN @ + 1 ELSE @]]
    /\ calls' = [c \in Clients |-> [calls[c] EXCEPT !.lease = Less(@)]]
    /\ UNCHANGED <<ckpts, faults>>

-----------------------------------------------------------------------------
(* The control plane: REST, MCP and CLI calls on Workspace.  A call reads the  *)
(* row and saves its copy in two statements of a transaction that locks nothing *)
(* until it writes, so the row may change in between.                          *)

\* The state and the owner each call gives its copy of the row: request_cancel
\* whatever the state was, run_job leases the job where it may and the engine
\* goes on from there or fails it.
Drafts(kind, r) ==
    CASE kind = "cancel" -> <<"cancelling", r.owner>>
      [] kind = "resume" -> <<"queued", r.owner>>
      [] kind = "run" /\ "leased" \in Transitions(r.state) -> <<"leased", LocalWorker>>
      [] kind = "run" /\ r.state = "leased" -> <<"leased", r.owner>>
      [] OTHER -> <<"failed", r.owner>>

\* JobRepository.get and what follows up to the save: resume_job checks the state
\* of its copy here.
ReadRow(c, kind, j) ==
    /\ calls[c] = NoCall /\ rows[j].state # "absent"
    /\ kind = "resume" => rows[j].state \in {"paused", "queued", "failed"}
    /\ LET draft == Drafts(kind, rows[j])
       IN calls' = [calls EXCEPT ![c] = [kind |-> kind, job |-> j, state |-> draft[1],
                                         owner |-> draft[2], lease |-> rows[j].lease]]
    /\ UNCHANGED <<rows, ckpts, run, faults>>

\* The call saves its copy, with the state given, and is over.
Return(c, state) ==
    /\ Save(calls[c].job, state, calls[c].owner, calls[c].lease, calls[c].kind = "cancel")
    /\ calls' = [calls EXCEPT ![c] = NoCall]

\* Workspace.request_cancel.
RequestCancel(c) ==
    /\ calls[c].kind = "cancel" /\ Return(c, calls[c].state)
    /\ UNCHANGED <<ckpts, run, faults>>

\* Workspace.resume_job: whatever the row has become, it is queued again.
ResumeJob(c) ==
    /\ calls[c].kind = "resume" /\ Return(c, calls[c].state)
    /\ UNCHANGED <<ckpts, run, faults>>

\* Mutant: the in-process run may report success one stage short.
InlineOutcomeShort(from, cancel, done, to, n) ==
    \/ to = "succeeded" /\ n \in {m \in 0..NumStages : m + 1 >= NumStages}
    \/ to \in {"failed", "paused"} /\ n + 1 \in Stages \ done

\* How an in-process engine run ends for a job found in state `from`: a refused
\* transition is an error like any other, a cancel request stops it at the
\* first boundary, and otherwise the first n stages are complete when it ends,
\* the next one, not yet checkpointed, having failed or exhausted the budget.
InlineOutcome(from, cancel, done, to, n) ==
    IF "running" \notin Transitions(from) THEN to = "failed" /\ n = 0
    ELSE IF cancel THEN to = "cancelled" /\ n = 0
    ELSE \/ to = "succeeded" /\ n = NumStages
         \/ to \in {"failed", "paused"} /\ n + 1 \in Stages \ done

\* Workspace.run_job: the engine runs the copy.  The transaction's first save
\* locks the row, so from there to the commit it is one step.
RunInline(c) ==
    /\ calls[c].kind = "run"
    /\ LET j == calls[c].job
       IN \E to \in JobState, n \in 0..NumStages :
             /\ InlineOutcome(calls[c].state, rows[j].cancel, ckpts[j], to, n)
             /\ Return(c, to)
             /\ ckpts' = [ckpts EXCEPT ![j] = @ \cup 1..n]
    /\ UNCHANGED <<run, faults>>

-----------------------------------------------------------------------------

\* What a worker does of its own accord while it holds a job.
EngineStep(w) ==
    \/ ClaimWrite(w)
    \/ StartRun(w) \/ LoadCheckpoints(w)
    \/ BoundaryCancelled(w) \/ SkipStage(w) \/ EnterStage(w) \/ AllStagesDone(w)
    \/ SaveProgress(w)
    \/ StageCheckpoints(w) \/ StageSaves(w) \/ StageReturns(w) \/ AppendComplete(w)
    \/ RetryStage(w) \/ FailStage(w) \/ ExhaustBudget(w) \/ StageSeesCancel(w)
    \/ RecordCheckpoint(w) \/ SaveRecorded(w) \/ SaveOutcome(w)

\* One poll of the queue.
Poll(w) == \E j \in Jobs : Claim(w, j) \/ ClaimRead(w, j)

Fault(w) == DbCallFails(w) \/ ReportLost(w) \/ KillTask(w) \/ Crash(w)

Client(c) == \/ \E kind \in ControlPlane, j \in Jobs : ReadRow(c, kind, j)
             \/ RequestCancel(c) \/ ResumeJob(c) \/ RunInline(c)

Next == \/ \E w \in Workers : EngineStep(w) \/ Poll(w) \/ Renew(w) \/ Fault(w)
        \/ \E j \in Jobs : Submit(j)
        \/ \E c \in Clients : Client(c)
        \/ Tick

Spec == Init /\ [][Next]_vars

\* Every worker keeps polling, its engine coroutine and its heartbeat task are
\* scheduled, and time passes.  Clients and failures are never obliged to act.
Fairness == /\ \A w \in Workers : WF_vars(EngineStep(w)) /\ WF_vars(Poll(w))
                                                          /\ WF_vars(Renew(w))
            /\ WF_vars(Tick)

FairSpec == Spec /\ Fairness

-----------------------------------------------------------------------------
(* Properties. *)

\* The state stays within its types.
TablesOK == /\ rows \in [Jobs -> Row]
            /\ ckpts \in [Jobs -> SUBSET Stages]
            /\ run \in [Workers -> Run]
            /\ faults \in 0..MaxFaults

TypeOK == TablesOK /\ calls \in [Clients -> Call]

\* A job reported `succeeded` has every stage durably checkpointed, whatever
\* workers shared it, however often it was stolen, killed, cancelled or resumed
\* (JobEngine.run: the success save comes after the last checkpoint).
SucceededComplete ==
    \A j \in Jobs : rows[j].state = "succeeded" => ckpts[j] = Stages

\* Checkpoints form a prefix of the stage list: no interleaving of runs commits
\* a later stage while an earlier one is missing, so a resumed job never feeds a
\* stage from one that did not run.
CheckpointPrefix ==
    \A j \in Jobs : \A s \in ckpts[j] : 1..s \subseteq ckpts[j]

\* With one worker, a stage that is entered is one no earlier run completed:
\* "Completed stages are never repeated on resume" (worker_async).
EnteredStageIsNew ==
    \A w \in Workers : run[w].pc = "enter" => run[w].idx \notin ckpts[run[w].job]

\* An engine that knows of a cancel request never goes on to report success,
\* even if later reads of the row fail (StageContext.refresh_cancellation).
SeenCancelNeverSucceeds ==
    \A w \in Workers : run[w].seen => run[w].to # "succeeded"

\* What an engine believes is never ahead of the store: a stage it counts as
\* done, passes over or reports success for has a durable checkpoint, although
\* other runs of the same job write between its steps (JobEngine.run).
MatchesStore(r, store) ==
    LET stored == store[r.job]
    IN /\ r.pc # "idle" => r.job \in Jobs
       /\ r.pc \in EnginePC =>
             /\ r.done \subseteq stored
             /\ 1..(r.idx - 1) \subseteq stored
             /\ r.to = "succeeded" => stored = Stages
       /\ r.pc \in {"enter", "stage", "stageSave", "event", "record", "recordSave"} =>
             r.idx \in Stages
       /\ r.pc \in {"stageSave", "recordSave"} => r.idx \in stored
       /\ r.to = "succeeded" => r.pc = "commit"
       /\ r.pc \in {"commit", "report"} => r.to \in JobState

RunsMatchStore == \A w \in Workers : MatchesStore(run[w], ckpts)

\* The runtime keeps the contract of JobContract, reading the state and the cancel
\* flag off the row and completion off the checkpoints.
Contract == INSTANCE JobContract WITH
    ContractJobs <- Jobs, ContractStages <- NumStages, ContractStates <- JobState,
    state <- [j \in Jobs |-> rows[j].state],
    complete <- ckpts,
    cancelled <- [j \in Jobs |-> rows[j].cancel]

\* What a client relies on holds across thefts, stale saves, crashes and clients
\* (JobEngine.run, Workspace): DurableJobs implements JobContract.
KeepsContract == Contract!ContractSpec

\* A cancel request stays recorded: no save of a copy that never saw it erases
\* it (the COALESCE in JobRepository.save).
CancelSticky == [][\A j \in Jobs : rows[j].cancel => rows'[j].cancel]_vars

\* A submitted job is not orphaned: whatever crashes, some worker brings it to
\* an outcome (the expired-lease arm of claim_eligible).
QueuedEventuallyRests ==
    \A j \in Jobs :
        rows[j].state \in {"queued", "leased", "running"} ~>
            rows[j].state \in TerminalState \cup {"paused", "cancelling"}

\* A worker always comes back to polling: retries are bounded and every path
\* through the engine ends.
RunsDrain == \A w \in Workers : InEngine(w) ~> run[w].pc = "idle"

\* A cancel request recorded before the engine's last look at the flag keeps the
\* job from succeeding, whoever steals it: unless something fails meanwhile it
\* lands cancelled, or failed or paused if the stage in flight ended that way.
CancelLands ==
    \A j \in Jobs :
        (/\ rows[j].cancel
         /\ \E w \in Workers : run[w].job = j /\ run[w].pc \in EnginePC \ {"commit", "report"}) ~>
            (rows[j].state \in {"cancelled", "failed", "paused"} \/ faults > 0)

-----------------------------------------------------------------------------
(* What the documentation says and the code does not do. *)

\* "A worker must refresh its heartbeat_at on a cadence shorter than the lease
\* so the job is not stolen mid-run" (jobs.md): a claim never takes a job from a
\* worker that is running it and whose heartbeats were all on time.
HeartbeatProtectsLease ==
    [][\A v, w \in Workers :
          (run[w].pc = "idle" /\ run'[w].pc = "claimed" /\ InEngine(v)) =>
              run[v].job # run'[w].job]_vars

\* "External cancellation must have bounded latency and a terminal state"
\* (test_external_cancel.py).
CancelEndsTerminal ==
    \A j \in Jobs : rows[j].state = "cancelling" ~> rows[j].state \in TerminalState

=============================================================================
