------------------------- MODULE DurableJobsProofs -------------------------
(***************************************************************************)
(* The safety of the durable job runtime, for any number of jobs, stages   *)
(* and workers, any lease and heartbeat lengths, with or without row locks *)
(* and whatever the control plane calls.                                   *)
(*                                                                         *)
(* The argument: checkpoints only grow, and every engine run's belief is   *)
(* contained in them (MatchesStore).  So another run of the same job can   *)
(* only make a belief safer, and a step need be examined only for the run  *)
(* that takes it (OneRun) and for the row it writes (RowWrite).            *)
(***************************************************************************)
EXTENDS DurableJobs, TLAPS

IInv == /\ TablesOK
        /\ SucceededComplete
        /\ CheckpointPrefix
        /\ RunsMatchStore
        /\ SeenCancelNeverSucceeds

\* No step loses a checkpoint.
Grows == /\ ckpts' \in [Jobs -> SUBSET Stages]
         /\ \A j \in Jobs : ckpts[j] \subseteq ckpts'[j]

RunsPart == /\ run \in [Workers -> Run]
            /\ RunsMatchStore
            /\ SeenCancelNeverSucceeds

RowsPart == rows \in [Jobs -> Row] /\ SucceededComplete

\* A run that matches the store matches every larger one.
LEMMA MatchesMore ==
    ASSUME NEW r \in Run, NEW s \in [Jobs -> SUBSET Stages],
           NEW t \in [Jobs -> SUBSET Stages],
           \A j \in Jobs : s[j] \subseteq t[j],
           MatchesStore(r, s)
    PROVE  MatchesStore(r, t)
<1>1. CASE r.pc = "idle"
  BY <1>1 DEF MatchesStore, EnginePC
<1>2. CASE r.pc # "idle"
  <2>1. r.job \in Jobs /\ s[r.job] \subseteq t[r.job] /\ t[r.job] \subseteq Stages
    BY <1>2 DEF MatchesStore
  <2>2. QED
    BY <1>2, <2>1 DEF MatchesStore
<1>3. QED
  BY <1>1, <1>2

\* A step of one worker is safe for all runs if it is safe for that worker's.
LEMMA OneRun ==
    ASSUME IInv, Grows, NEW w \in Workers, NEW r \in Run,
           run' = [run EXCEPT ![w] = r],
           MatchesStore(r, ckpts'), r.seen => r.to # "succeeded"
    PROVE  RunsPart'
<1>1. run' \in [Workers -> Run]
  BY DEF IInv, TablesOK
<1>2. ASSUME NEW v \in Workers
      PROVE  MatchesStore(run'[v], ckpts') /\ (run'[v].seen => run'[v].to # "succeeded")
  <2>1. CASE v = w
    BY <2>1 DEF IInv, TablesOK
  <2>2. CASE v # w
    <3>1. run'[v] = run[v] /\ run[v] \in Run
      BY <2>2 DEF IInv, TablesOK
    <3>2. MatchesStore(run[v], ckpts')
      BY <3>1, MatchesMore DEF IInv, TablesOK, Grows, RunsMatchStore
    <3>3. QED
      BY <3>1, <3>2 DEF IInv, SeenCancelNeverSucceeds
  <2>3. QED
    BY <2>1, <2>2
<1>3. QED
  BY <1>1, <1>2 DEF RunsPart, RunsMatchStore, SeenCancelNeverSucceeds

\* Writing one row is safe if a row set to succeeded belongs to a complete job.
LEMMA RowWrite ==
    ASSUME IInv, Grows, NEW j \in Jobs, NEW r \in Row,
           rows' = [rows EXCEPT ![j] = r],
           r.state = "succeeded" => ckpts'[j] = Stages
    PROVE  RowsPart'
<1>1. rows' \in [Jobs -> Row]
  BY DEF IInv, TablesOK
<1>2. ASSUME NEW i \in Jobs, rows'[i].state = "succeeded"
      PROVE  ckpts'[i] = Stages
  BY <1>2 DEF IInv, TablesOK, Grows, SucceededComplete
<1>3. QED
  BY <1>1, <1>2 DEF RowsPart, SucceededComplete

\* A step that leaves the table alone keeps its part of the invariant.
LEMMA RowsKept ==
    ASSUME IInv, Grows, UNCHANGED rows
    PROVE  RowsPart'
BY DEF IInv, TablesOK, Grows, RowsPart, SucceededComplete

\* JobRepository.save writes a well-formed row.
LEMMA SaveRow ==
    ASSUME IInv, Grows, NEW j \in Jobs, NEW state \in JobState, NEW owner \in Owners,
           NEW lease \in 0..LeaseLen, NEW cancel \in BOOLEAN,
           Save(j, state, owner, lease, cancel),
           state = "succeeded" => ckpts'[j] = Stages
    PROVE  RowsPart'
<1> DEFINE r == [state |-> state, owner |-> owner, lease |-> lease,
                 cancel |-> rows[j].cancel \/ cancel]
<1>1. (rows[j].cancel \/ cancel) \in BOOLEAN
  BY DEF IInv, TablesOK, Row
<1>2. r \in Row
  BY <1>1 DEF Row
<1>3. QED
  BY <1>2, RowWrite DEF Save

\* A step that does not record a checkpoint.
LEMMA NoCheckpoint ==
    ASSUME IInv, UNCHANGED ckpts
    PROVE  Grows /\ CheckpointPrefix'
BY DEF IInv, TablesOK, Grows, CheckpointPrefix

\* Recording the stage after a prefix yields a prefix.
LEMMA NextCheckpoint ==
    ASSUME IInv, NEW j \in Jobs, NEW n \in Stages, 1..(n - 1) \subseteq ckpts[j],
           ckpts' = [ckpts EXCEPT ![j] = @ \cup {n}]
    PROVE  Grows /\ CheckpointPrefix' /\ n \in ckpts'[j] /\ ckpts[j] \subseteq ckpts'[j]
<1>1. ckpts \in [Jobs -> SUBSET Stages] /\ NumStages \in Nat
  BY SizesAssumption DEF IInv, TablesOK
<1>2. Grows /\ n \in ckpts'[j] /\ ckpts[j] \subseteq ckpts'[j]
  BY <1>1 DEF Grows
<1>3. ASSUME NEW i \in Jobs, NEW s \in ckpts'[i] PROVE 1..s \subseteq ckpts'[i]
  <2>1. CASE s \in ckpts[i]
    BY <1>1, <2>1 DEF IInv, CheckpointPrefix
  <2>2. CASE s \notin ckpts[i]
    <3>1. i = j /\ s = n
      BY <1>1, <2>2
    <3>2. 1..n \subseteq (1..(n - 1)) \cup {n}
      BY <1>1 DEF Stages
    <3>3. QED
      BY <1>1, <3>1, <3>2
  <2>3. QED
    BY <2>1, <2>2
<1>4. QED
  BY <1>2, <1>3 DEF CheckpointPrefix

\* The parts make the whole.
LEMMA Parts ==
    ASSUME RunsPart', RowsPart', Grows, CheckpointPrefix', faults' \in 0..MaxFaults
    PROVE  IInv'
BY DEF RunsPart, RowsPart, Grows, IInv, TablesOK

\* A step of one worker that writes nothing to the database.
LEMMA QuietStep ==
    ASSUME IInv, NEW w \in Workers, NEW r \in Run,
           run' = [run EXCEPT ![w] = r],
           MatchesStore(r, ckpts), r.seen => r.to # "succeeded",
           UNCHANGED <<rows, ckpts>>, faults' \in 0..MaxFaults
    PROVE  IInv'
<1>1. Grows /\ CheckpointPrefix'
  BY NoCheckpoint
<1>2. RunsPart'
  BY <1>1, OneRun
<1>3. QED
  BY <1>1, <1>2, RowsKept, Parts

\* A step of one worker that saves its copy of the job.
LEMMA SavingStep ==
    ASSUME IInv, NEW w \in Workers, NEW r \in Run, NEW state \in JobState,
           InEngine(w), SaveCopy(w, state),
           run' = [run EXCEPT ![w] = r],
           MatchesStore(r, ckpts), r.seen => r.to # "succeeded",
           state = "succeeded" => ckpts[run[w].job] = Stages,
           UNCHANGED <<ckpts, faults>>
    PROVE  IInv'
<1>1. Grows /\ CheckpointPrefix'
  BY NoCheckpoint
<1>2. RunsPart'
  BY <1>1, OneRun
<1>3. RowsPart'
  <2>1. /\ run[w].job \in Jobs /\ w \in Owners
        /\ run[w].lease \in 0..LeaseLen /\ run[w].seen \in BOOLEAN
    BY DEF IInv, TablesOK, Run, RunsMatchStore, MatchesStore, InEngine, EnginePC, Owners
  <2>2. QED
    BY <1>1, <2>1, SaveRow DEF SaveCopy
<1>4. faults' \in 0..MaxFaults
  BY DEF IInv, TablesOK
<1>5. QED
  BY <1>1, <1>2, <1>3, <1>4, Parts

\* A step of one worker that records the checkpoint of its current stage.
LEMMA RecordingStep ==
    ASSUME IInv, NEW w \in Workers, NEW r \in Run,
           run[w].pc \in {"stage", "record"},
           ckpts' = [ckpts EXCEPT ![run[w].job] = @ \cup {run[w].idx}],
           r.pc \in {"stageSave", "recordSave"},
           r = [run[w] EXCEPT !.pc = r.pc],
           run' = [run EXCEPT ![w] = r],
           UNCHANGED <<rows, faults>>
    PROVE  IInv'
<1> DEFINE j == run[w].job
<1>1. /\ run[w] \in Run /\ MatchesStore(run[w], ckpts)
      /\ j \in Jobs /\ run[w].idx \in Stages
      /\ 1..(run[w].idx - 1) \subseteq ckpts[j] /\ run[w].done \subseteq ckpts[j]
      /\ run[w].to # "succeeded"
  BY DEF IInv, TablesOK, RunsMatchStore, MatchesStore, EnginePC
<1>2. /\ Grows /\ CheckpointPrefix'
      /\ run[w].idx \in ckpts'[j] /\ ckpts[j] \subseteq ckpts'[j]
  BY <1>1, NextCheckpoint
<1>3. MatchesStore(r, ckpts')
  BY <1>1, <1>2 DEF MatchesStore, Run
<1>4. RunsPart'
  BY <1>1, <1>2, <1>3, OneRun DEF Run
<1>5. faults' \in 0..MaxFaults
  BY DEF IInv, TablesOK
<1>6. QED
  BY <1>2, <1>4, <1>5, RowsKept, Parts

-----------------------------------------------------------------------------
(* One lemma per group of actions. *)

\* What the invariant says of the run that takes a step.
LEMMA RunFacts ==
    ASSUME IInv, NEW w \in Workers
    PROVE  /\ run[w] \in Run /\ MatchesStore(run[w], ckpts)
           /\ run[w].seen => run[w].to # "succeeded"
           /\ run \in [Workers -> Run]
           /\ faults \in 0..MaxFaults
BY DEF IInv, TablesOK, RunsMatchStore, SeenCancelNeverSucceeds

\* An idle run is consistent with any store.
LEMMA IdleRun ==
    /\ NoRun \in Run
    /\ \A s : MatchesStore(NoRun, s)
    /\ NoRun.seen => NoRun.to # "succeeded"
<1>1. NoRun \in Run
  BY SizesAssumption DEF NoRun, Run
<1>2. \A s : MatchesStore(NoRun, s)
  BY DEF NoRun, MatchesStore, EnginePC
<1>3. QED
  BY <1>1, <1>2 DEF NoRun

\* A run that has just claimed a job has no beliefs yet.
LEMMA ClaimedRun ==
    ASSUME IInv, NEW j \in Jobs, NEW seen \in BOOLEAN
    PROVE  /\ Claimed(j, seen) \in Run
           /\ MatchesStore(Claimed(j, seen), ckpts)
           /\ Claimed(j, seen).to = "none"
<1>1. Claimed(j, seen) \in Run
  BY SizesAssumption DEF Claimed, Run, EnginePC, Jobs
<1>2. MatchesStore(Claimed(j, seen), ckpts)
  BY DEF Claimed, MatchesStore, EnginePC
<1>3. QED
  BY <1>1, <1>2 DEF Claimed

\* The table's side of both forms of claim.
LEMMA ClaimedRow ==
    ASSUME IInv, Grows, NEW w \in Workers, NEW j \in Jobs,
           NEW state \in {"leased", rows[j].state},
           LeaseTo(w, j, state)
    PROVE  RowsPart'
<1> DEFINE r == [state |-> state, owner |-> w, lease |-> LeaseLen,
                 cancel |-> rows[j].cancel]
<1>1. rows[j] \in Row
  BY DEF IInv, TablesOK
<1>2. r \in Row
  BY <1>1, SizesAssumption DEF Row, Owners, JobState
<1>3. rows[j].state = "succeeded" => ckpts'[j] = Stages
  BY DEF IInv, SucceededComplete, Grows
<1>4. r.state = "succeeded" => ckpts'[j] = Stages
  BY <1>3
<1>5. QED
  BY <1>2, <1>4, RowWrite DEF LeaseTo

\* Each field of a run may be replaced by a value of its type.
LEMMA SetField ==
    ASSUME NEW r \in Run
    PROVE  /\ \A a \in EnginePC : [r EXCEPT !.pc = a] \in Run
           /\ \A a \in JobState : [r EXCEPT !.to = a] \in Run
           /\ \A a \in BOOLEAN : [r EXCEPT !.seen = a] \in Run
           /\ \A a \in SUBSET Stages : [r EXCEPT !.done = a] \in Run
           /\ \A a \in 1..(NumStages + 1) : [r EXCEPT !.idx = a] \in Run
           /\ \A a \in 0..MaxAttempts : [r EXCEPT !.attempt = a] \in Run
           /\ \A a \in 0..HeartbeatEvery : [r EXCEPT !.hb = a] \in Run
           /\ \A a \in 0..LeaseLen : [r EXCEPT !.lease = a] \in Run
<1>1. \A a \in EnginePC : [r EXCEPT !.pc = a] \in Run
  BY DEF Run
<1>2. \A a \in JobState : [r EXCEPT !.to = a] \in Run
  BY DEF Run
<1>3. \A a \in BOOLEAN : [r EXCEPT !.seen = a] \in Run
  BY DEF Run
<1>4. \A a \in SUBSET Stages : [r EXCEPT !.done = a] \in Run
  BY DEF Run
<1>5. \A a \in 1..(NumStages + 1) : [r EXCEPT !.idx = a] \in Run
  BY DEF Run
<1>6. \A a \in 0..MaxAttempts : [r EXCEPT !.attempt = a] \in Run
  BY DEF Run
<1>7. \A a \in 0..HeartbeatEvery : [r EXCEPT !.hb = a] \in Run
  BY DEF Run
<1>8. \A a \in 0..LeaseLen : [r EXCEPT !.lease = a] \in Run
  BY DEF Run
<1>9. QED
  BY <1>1, <1>2, <1>3, <1>4, <1>5, <1>6, <1>7, <1>8

\* A run that is about to save an outcome other than success is consistent with
\* the store whatever it did before.
LEMMA Landing ==
    ASSUME IInv, NEW w \in Workers, NEW pc \in {"commit", "report"},
           NEW to \in JobState \ {"succeeded"}, NEW seen \in BOOLEAN,
           InEngine(w)
    PROVE  LET r == [run[w] EXCEPT !.pc = pc, !.to = to, !.seen = seen]
           IN r \in Run /\ MatchesStore(r, ckpts) /\ r.to # "succeeded"
<1> DEFINE r == [run[w] EXCEPT !.pc = pc, !.to = to, !.seen = seen]
<1>1. run[w] \in Run /\ MatchesStore(run[w], ckpts)
  BY RunFacts
<1>2. [run[w] EXCEPT !.pc = pc] \in Run
  BY <1>1, SetField DEF EnginePC
<1>3. [[run[w] EXCEPT !.pc = pc] EXCEPT !.to = to] \in Run
  BY <1>2, SetField
<1>4. [[[run[w] EXCEPT !.pc = pc] EXCEPT !.to = to] EXCEPT !.seen = seen] \in Run
  BY <1>3, SetField
<1>5. r \in Run
  BY <1>4
<1>6. MatchesStore(r, ckpts) /\ r.to # "succeeded"
  BY <1>1 DEF MatchesStore, InEngine, EnginePC, Run
<1>7. QED
  BY <1>5, <1>6

\* The fault budget is respected.
LEMMA FaultBound ==
    ASSUME IInv, SpendFault \/ UNCHANGED faults
    PROVE  faults' \in 0..MaxFaults
BY SizesAssumption DEF IInv, TablesOK, SpendFault

\* The first save of a run.
LEMMA StartRunSafe ==
    ASSUME IInv, NEW w \in Workers, StartRun(w)
    PROVE  IInv'
<1> DEFINE r == [run[w] EXCEPT !.pc = "load"]
<1>1. run' = [run EXCEPT ![w] = r]
  BY RunFacts DEF StartRun, Goto
<1>2. r \in Run
  BY RunFacts, SetField DEF EnginePC
<1>3. MatchesStore(r, ckpts) /\ (r.seen => r.to # "succeeded")
  BY RunFacts DEF StartRun, Goto, Run, EnginePC, MatchesStore
<1>4. InEngine(w) /\ "running" \in JobState
  BY DEF StartRun, Goto, InEngine, EnginePC, JobState
<1>5. QED
  BY <1>1, <1>2, <1>3, <1>4, SavingStep DEF StartRun, Goto

\* The save after the stage's own checkpoint.
LEMMA StageSavesSafe ==
    ASSUME IInv, NEW w \in Workers, StageSaves(w)
    PROVE  IInv'
<1> DEFINE r == [run[w] EXCEPT !.pc = "event"]
<1>1. run' = [run EXCEPT ![w] = r]
  BY RunFacts DEF StageSaves, Goto
<1>2. r \in Run
  BY RunFacts, SetField DEF EnginePC
<1>3. MatchesStore(r, ckpts) /\ (r.seen => r.to # "succeeded")
  BY RunFacts DEF StageSaves, Goto, Run, EnginePC, MatchesStore
<1>4. InEngine(w) /\ "running" \in JobState
  BY DEF StageSaves, Goto, InEngine, EnginePC, JobState
<1>5. QED
  BY <1>1, <1>2, <1>3, <1>4, SavingStep DEF StageSaves, Goto

\* The save that enters a stage.
LEMMA SaveProgressSafe ==
    ASSUME IInv, NEW w \in Workers, SaveProgress(w)
    PROVE  IInv'
<1> DEFINE r == [run[w] EXCEPT !.pc = "stage", !.attempt = 0]
<1>1. run' = [run EXCEPT ![w] = r]
  BY RunFacts DEF SaveProgress
<1>2. [[run[w] EXCEPT !.pc = "stage"] EXCEPT !.attempt = 0] \in Run
  <2>1. [run[w] EXCEPT !.pc = "stage"] \in Run
    BY RunFacts, SetField DEF EnginePC
  <2>2. 0 \in 0..MaxAttempts
    BY SizesAssumption
  <2>3. QED
    BY <2>1, <2>2, SetField
<1>3. MatchesStore(r, ckpts) /\ (r.seen => r.to # "succeeded")
  BY RunFacts DEF SaveProgress, Run, EnginePC, MatchesStore
<1>4. InEngine(w) /\ "running" \in JobState
  BY DEF SaveProgress, InEngine, EnginePC, JobState
<1>5. r \in Run
  BY <1>2
<1>6. QED
  BY <1>1, <1>3, <1>4, <1>5, SavingStep DEF SaveProgress

\* The save after the engine's checkpoint: the stage joins the done set.
LEMMA SaveRecordedSafe ==
    ASSUME IInv, NEW w \in Workers, SaveRecorded(w)
    PROVE  IInv'
<1> DEFINE r == [run[w] EXCEPT !.pc = "boundary", !.done = @ \cup {run[w].idx},
                          !.idx = @ + 1]
<1>1. run' = [run EXCEPT ![w] = r]
  BY RunFacts DEF SaveRecorded
<1>2. /\ run[w] \in Run /\ run[w].idx \in Stages /\ run[w].idx \in ckpts[run[w].job]
      /\ run[w].done \in SUBSET Stages
      /\ run[w].done \subseteq ckpts[run[w].job]
      /\ 1..(run[w].idx - 1) \subseteq ckpts[run[w].job]
      /\ run[w].job \in Jobs /\ run[w].to # "succeeded"
  BY RunFacts DEF SaveRecorded, MatchesStore, EnginePC, Run
<1>3. r \in Run
  <2>1. [run[w] EXCEPT !.pc = "boundary"] \in Run
    BY <1>2, SetField DEF EnginePC
  <2>2. [[run[w] EXCEPT !.pc = "boundary"] EXCEPT !.done = run[w].done \cup {run[w].idx}]
          \in Run
    BY <1>2, <2>1, SetField
  <2>3. run[w].idx + 1 \in 1..(NumStages + 1)
    BY <1>2, SizesAssumption DEF Stages
  <2>4. [[[run[w] EXCEPT !.pc = "boundary"] EXCEPT !.done = run[w].done \cup {run[w].idx}]
          EXCEPT !.idx = run[w].idx + 1] \in Run
    BY <2>2, <2>3, SetField
  <2>5. QED
    BY <2>4
<1>4. 1..((run[w].idx + 1) - 1) \subseteq ckpts[run[w].job]
  BY <1>2, SizesAssumption DEF Stages
<1>5. /\ r.pc = "boundary" /\ r.job = run[w].job /\ r.to = run[w].to
      /\ r.idx = run[w].idx + 1 /\ r.done = run[w].done \cup {run[w].idx}
      /\ r.seen = run[w].seen
  BY <1>2 DEF Run
<1>6. MatchesStore(r, ckpts) /\ (r.seen => r.to # "succeeded")
  BY <1>2, <1>4, <1>5 DEF MatchesStore, EnginePC
<1>7. InEngine(w) /\ "running" \in JobState
  BY DEF SaveRecorded, InEngine, EnginePC, JobState
<1>8. QED
  BY <1>1, <1>3, <1>6, <1>7, SavingStep DEF SaveRecorded

\* Reading the committed stages.
LEMMA LoadCheckpointsSafe ==
    ASSUME IInv, NEW w \in Workers, LoadCheckpoints(w)
    PROVE  IInv'
<1> DEFINE r == [run[w] EXCEPT !.pc = "boundary", !.done = ckpts[run[w].job]]
<1>1. run' = [run EXCEPT ![w] = r]
  BY RunFacts DEF LoadCheckpoints
<1>2. run[w].job \in Jobs /\ ckpts[run[w].job] \in SUBSET Stages
  BY RunFacts DEF LoadCheckpoints, MatchesStore, IInv, TablesOK
<1>3. [[run[w] EXCEPT !.pc = "boundary"] EXCEPT !.done = ckpts[run[w].job]] \in Run
  BY <1>2, RunFacts, SetField DEF EnginePC
<1>4. r \in Run
  BY <1>3
<1>5. MatchesStore(r, ckpts) /\ (r.seen => r.to # "succeeded")
  BY <1>2, RunFacts DEF LoadCheckpoints, Run, EnginePC, MatchesStore
<1>6. faults' \in 0..MaxFaults
  BY FaultBound DEF LoadCheckpoints
<1>7. QED
  BY <1>1, <1>4, <1>5, <1>6, QuietStep DEF LoadCheckpoints

\* A stage found complete.
LEMMA SkipStageSafe ==
    ASSUME IInv, NEW w \in Workers, SkipStage(w)
    PROVE  IInv'
<1> DEFINE r == [run[w] EXCEPT !.idx = @ + 1]
<1>1. run' = [run EXCEPT ![w] = r]
  BY RunFacts DEF SkipStage
<1>2. /\ run[w] \in Run /\ run[w].idx \in ckpts[run[w].job] /\ run[w].idx \in Stages
      /\ run[w].done \subseteq ckpts[run[w].job]
      /\ 1..(run[w].idx - 1) \subseteq ckpts[run[w].job]
      /\ run[w].job \in Jobs /\ run[w].to # "succeeded" /\ run[w].pc = "boundary"
  BY RunFacts DEF SkipStage, MatchesStore, EnginePC, Run
<1>3. run[w].idx + 1 \in 1..(NumStages + 1)
  BY <1>2, SizesAssumption DEF Stages
<1>4. r \in Run
  BY <1>2, <1>3, SetField
<1>5. 1..((run[w].idx + 1) - 1) \subseteq ckpts[run[w].job]
  BY <1>2, SizesAssumption DEF Stages
<1>6. /\ r.pc = "boundary" /\ r.job = run[w].job /\ r.to = run[w].to
      /\ r.idx = run[w].idx + 1 /\ r.done = run[w].done
  BY <1>2 DEF Run
<1>7. MatchesStore(r, ckpts) /\ (r.seen => r.to # "succeeded")
  BY <1>2, <1>5, <1>6 DEF MatchesStore, EnginePC
<1>8. faults' \in 0..MaxFaults
  BY FaultBound DEF SkipStage, Refresh
<1>9. QED
  BY <1>1, <1>4, <1>7, <1>8, QuietStep DEF SkipStage

\* A stage to run.
LEMMA EnterStageSafe ==
    ASSUME IInv, NEW w \in Workers, EnterStage(w)
    PROVE  IInv'
<1> DEFINE r == [run[w] EXCEPT !.pc = "enter"]
<1>1. run' = [run EXCEPT ![w] = r]
  BY RunFacts DEF EnterStage, Goto, Refresh
<1>2. r \in Run
  BY RunFacts, SetField DEF EnginePC
<1>3. MatchesStore(r, ckpts) /\ (r.seen => r.to # "succeeded")
  BY RunFacts DEF EnterStage, Goto, Refresh, Run, EnginePC, MatchesStore, Stages
<1>4. faults' \in 0..MaxFaults
  BY FaultBound DEF EnterStage, Goto, Refresh
<1>5. QED
  BY <1>1, <1>2, <1>3, <1>4, QuietStep DEF EnterStage, Goto, Refresh

\* The end of the stage list: every stage is in the store, and the engine has seen
\* no request.
LEMMA AllStagesDoneSafe ==
    ASSUME IInv, NEW w \in Workers, AllStagesDone(w)
    PROVE  IInv'
<1> DEFINE r == [run[w] EXCEPT !.pc = "commit", !.to = "succeeded"]
<1>1. run' = [run EXCEPT ![w] = r]
  BY RunFacts DEF AllStagesDone, Land
<1>2. /\ run[w].job \in Jobs /\ run[w].idx = NumStages + 1
      /\ run[w].done \subseteq ckpts[run[w].job]
      /\ 1..(run[w].idx - 1) \subseteq ckpts[run[w].job]
      /\ ckpts[run[w].job] \in SUBSET Stages
  BY RunFacts DEF AllStagesDone, MatchesStore, EnginePC, IInv, TablesOK
<1>3. ckpts[run[w].job] = Stages
  <2>1. run[w].idx - 1 = NumStages
    BY <1>2, SizesAssumption
  <2>2. QED
    BY <1>2, <2>1 DEF Stages
<1>4. run[w].seen = FALSE
  BY RunFacts DEF AllStagesDone, Refresh, Run
<1>5. [[run[w] EXCEPT !.pc = "commit"] EXCEPT !.to = "succeeded"] \in Run
  BY RunFacts, SetField DEF EnginePC, JobState
<1>6. r \in Run
  BY <1>5
<1>7. /\ r.pc = "commit" /\ r.job = run[w].job /\ r.to = "succeeded"
      /\ r.idx = run[w].idx /\ r.done = run[w].done /\ r.seen = run[w].seen
  BY RunFacts DEF Run
<1>8. MatchesStore(r, ckpts) /\ (r.seen => r.to # "succeeded")
  BY <1>2, <1>3, <1>4, <1>7 DEF MatchesStore, EnginePC, JobState
<1>9. faults' \in 0..MaxFaults
  BY FaultBound DEF AllStagesDone, Refresh
<1>10. QED
  BY <1>1, <1>6, <1>8, <1>9, QuietStep DEF AllStagesDone

\* A stage that takes no checkpoint of its own.
LEMMA StageReturnsSafe ==
    ASSUME IInv, NEW w \in Workers, StageReturns(w)
    PROVE  IInv'
<1> DEFINE r == [run[w] EXCEPT !.pc = "event"]
<1>1. run' = [run EXCEPT ![w] = r]
  BY RunFacts DEF StageReturns, Goto
<1>2. r \in Run
  BY RunFacts, SetField DEF EnginePC
<1>3. MatchesStore(r, ckpts) /\ (r.seen => r.to # "succeeded")
  BY RunFacts DEF StageReturns, Goto, Run, EnginePC, MatchesStore
<1>4. faults' \in 0..MaxFaults
  BY FaultBound DEF StageReturns, Goto
<1>5. QED
  BY <1>1, <1>2, <1>3, <1>4, QuietStep DEF StageReturns, Goto

\* The stage_complete event.
LEMMA AppendCompleteSafe ==
    ASSUME IInv, NEW w \in Workers, AppendComplete(w)
    PROVE  IInv'
<1> DEFINE r == [run[w] EXCEPT !.pc = "record"]
<1>1. run' = [run EXCEPT ![w] = r]
  BY RunFacts DEF AppendComplete, Goto
<1>2. r \in Run
  BY RunFacts, SetField DEF EnginePC
<1>3. MatchesStore(r, ckpts) /\ (r.seen => r.to # "succeeded")
  BY RunFacts DEF AppendComplete, Goto, Run, EnginePC, MatchesStore
<1>4. faults' \in 0..MaxFaults
  BY FaultBound DEF AppendComplete, Goto
<1>5. QED
  BY <1>1, <1>2, <1>3, <1>4, QuietStep DEF AppendComplete, Goto

\* A cancel request seen at a boundary.
LEMMA BoundaryCancelledSafe ==
    ASSUME IInv, NEW w \in Workers, BoundaryCancelled(w)
    PROVE  IInv'
<1> DEFINE r == [run[w] EXCEPT !.pc = "commit", !.to = "cancelled", !.seen = TRUE]
<1>1. run' = [run EXCEPT ![w] = r]
  BY RunFacts DEF BoundaryCancelled, Refresh, Run
<1>2. InEngine(w)
  BY DEF BoundaryCancelled, Refresh, InEngine, EnginePC
<1>3. "cancelled" \in JobState \ {"succeeded"} /\ run[w].seen \in BOOLEAN
  BY RunFacts DEF JobState, Run
<1>4. r \in Run /\ MatchesStore(r, ckpts) /\ r.to # "succeeded"
  BY <1>2, <1>3, Landing
<1>5. faults' \in 0..MaxFaults
  BY FaultBound DEF BoundaryCancelled, Refresh
<1>6. QED
  BY <1>1, <1>4, <1>5, QuietStep DEF BoundaryCancelled, Refresh

\* A stage that fails for good.
LEMMA FailStageSafe ==
    ASSUME IInv, NEW w \in Workers, FailStage(w)
    PROVE  IInv'
<1> DEFINE r == [run[w] EXCEPT !.pc = "report", !.to = "failed", !.seen = run[w].seen]
<1>1. run' = [run EXCEPT ![w] = r]
  BY RunFacts DEF FailStage, Raises, Land, Run
<1>2. InEngine(w)
  BY DEF FailStage, Raises, Land, InEngine, EnginePC
<1>3. "failed" \in JobState \ {"succeeded"} /\ run[w].seen \in BOOLEAN
  BY RunFacts DEF JobState, Run
<1>4. r \in Run /\ MatchesStore(r, ckpts) /\ r.to # "succeeded"
  BY <1>2, <1>3, Landing
<1>5. faults' \in 0..MaxFaults
  BY FaultBound DEF FailStage, Raises, Land
<1>6. QED
  BY <1>1, <1>4, <1>5, QuietStep DEF FailStage, Raises, Land

\* A stage that exhausts the budget.
LEMMA ExhaustBudgetSafe ==
    ASSUME IInv, NEW w \in Workers, ExhaustBudget(w)
    PROVE  IInv'
<1> DEFINE r == [run[w] EXCEPT !.pc = "report", !.to = "paused", !.seen = run[w].seen]
<1>1. run' = [run EXCEPT ![w] = r]
  BY RunFacts DEF ExhaustBudget, Land, Run
<1>2. InEngine(w)
  BY DEF ExhaustBudget, Land, InEngine, EnginePC
<1>3. "paused" \in JobState \ {"succeeded"} /\ run[w].seen \in BOOLEAN
  BY RunFacts DEF JobState, Run
<1>4. r \in Run /\ MatchesStore(r, ckpts) /\ r.to # "succeeded"
  BY <1>2, <1>3, Landing
<1>5. faults' \in 0..MaxFaults
  BY FaultBound DEF ExhaustBudget, Land
<1>6. QED
  BY <1>1, <1>4, <1>5, QuietStep DEF ExhaustBudget, Land

\* A cooperative stage that sees the request.
LEMMA StageSeesCancelSafe ==
    ASSUME IInv, NEW w \in Workers, StageSeesCancel(w)
    PROVE  IInv'
<1> DEFINE r == [run[w] EXCEPT !.pc = "report", !.to = "cancelled", !.seen = TRUE]
<1>1. run' = [run EXCEPT ![w] = r]
  BY RunFacts DEF StageSeesCancel, Run
<1>2. InEngine(w)
  BY DEF StageSeesCancel, InEngine, EnginePC
<1>3. "cancelled" \in JobState \ {"succeeded"} /\ run[w].seen \in BOOLEAN
  BY RunFacts DEF JobState, Run
<1>4. r \in Run /\ MatchesStore(r, ckpts) /\ r.to # "succeeded"
  BY <1>2, <1>3, Landing
<1>5. faults' \in 0..MaxFaults
  BY FaultBound DEF StageSeesCancel
<1>6. QED
  BY <1>1, <1>4, <1>5, QuietStep DEF StageSeesCancel

\* A failed repository call.
LEMMA DbCallFailsSafe ==
    ASSUME IInv, NEW w \in Workers, DbCallFails(w)
    PROVE  IInv'
<1> DEFINE r == [run[w] EXCEPT !.pc = "report", !.to = "failed", !.seen = run[w].seen]
<1>1. run' = [run EXCEPT ![w] = r]
  BY RunFacts DEF DbCallFails, Land, Run
<1>2. InEngine(w)
  BY DEF DbCallFails, Land, InEngine, EnginePC
<1>3. "failed" \in JobState \ {"succeeded"} /\ run[w].seen \in BOOLEAN
  BY RunFacts DEF JobState, Run
<1>4. r \in Run /\ MatchesStore(r, ckpts) /\ r.to # "succeeded"
  BY <1>2, <1>3, Landing
<1>5. faults' \in 0..MaxFaults
  BY FaultBound DEF DbCallFails, Land
<1>6. QED
  BY <1>1, <1>4, <1>5, QuietStep DEF DbCallFails, Land

\* A cancelled task.
LEMMA KillTaskSafe ==
    ASSUME IInv, NEW w \in Workers, KillTask(w)
    PROVE  IInv'
<1> DEFINE r == [run[w] EXCEPT !.pc = "report", !.to = (IF run[w].seen THEN "cancelled" ELSE "cancelling"), !.seen = TRUE]
<1>1. run' = [run EXCEPT ![w] = r]
  BY RunFacts DEF KillTask, Run
<1>2. InEngine(w)
  BY DEF KillTask, InEngine, EnginePC
<1>3. (IF run[w].seen THEN "cancelled" ELSE "cancelling") \in JobState \ {"succeeded"} /\ run[w].seen \in BOOLEAN
  BY RunFacts DEF JobState, Run
<1>4. r \in Run /\ MatchesStore(r, ckpts) /\ r.to # "succeeded"
  BY <1>2, <1>3, Landing
<1>5. faults' \in 0..MaxFaults
  BY FaultBound DEF KillTask
<1>6. QED
  BY <1>1, <1>4, <1>5, QuietStep DEF KillTask

\* A retry, or a retry that finds the copy's cancel flag set.
LEMMA RetryStageSafe ==
    ASSUME IInv, NEW w \in Workers, RetryStage(w)
    PROVE  IInv'
<1>1. faults' \in 0..MaxFaults
  BY FaultBound DEF RetryStage, Raises
<1>2. CASE run[w].seen
  <2> DEFINE r == [run[w] EXCEPT !.pc = "report", !.to = "cancelled", !.seen = run[w].seen]
  <2>1. run' = [run EXCEPT ![w] = r]
    BY <1>2, RunFacts DEF RetryStage, Land, Run
  <2>2. InEngine(w)
    BY DEF RetryStage, Raises, InEngine, EnginePC
  <2>3. "cancelled" \in JobState \ {"succeeded"} /\ run[w].seen \in BOOLEAN
    BY RunFacts DEF JobState, Run
  <2>4. r \in Run /\ MatchesStore(r, ckpts) /\ r.to # "succeeded"
    BY <2>2, <2>3, Landing
  <2>5. QED
    BY <1>1, <2>1, <2>4, QuietStep DEF RetryStage
<1>3. CASE ~run[w].seen
  <2> DEFINE r == [run[w] EXCEPT !.pc = "stage", !.attempt = @ + 1]
  <2>1. run' = [run EXCEPT ![w] = r]
    BY <1>3, RunFacts DEF RetryStage
  <2>2. [run[w] EXCEPT !.pc = "stage"] \in Run
    BY RunFacts, SetField DEF EnginePC
  <2>3. run[w].attempt + 1 \in 0..MaxAttempts
    BY RunFacts, SizesAssumption DEF RetryStage, Run
  <2>4. [[run[w] EXCEPT !.pc = "stage"] EXCEPT !.attempt = run[w].attempt + 1] \in Run
    BY <2>2, <2>3, SetField
  <2>5. r \in Run
    BY <2>4
  <2>6. MatchesStore(r, ckpts) /\ (r.seen => r.to # "succeeded")
    BY RunFacts DEF RetryStage, Raises, Run, EnginePC, MatchesStore
  <2>7. QED
    BY <1>1, <2>1, <2>5, <2>6, QuietStep DEF RetryStage
<1>4. QED
  BY <1>2, <1>3 DEF RetryStage

\* The engine's checkpoint.
LEMMA RecordCheckpointSafe ==
    ASSUME IInv, NEW w \in Workers, RecordCheckpoint(w)
    PROVE  IInv'
<1> DEFINE r == [run[w] EXCEPT !.pc = "recordSave"]
<1>1. r \in Run
  BY RunFacts, SetField DEF EnginePC
<1>2. r.pc = "recordSave" /\ r = [run[w] EXCEPT !.pc = r.pc]
  BY RunFacts DEF Run
<1>3. QED
  BY <1>1, <1>2, RecordingStep DEF RecordCheckpoint, Goto

\* The stage's own checkpoint.
LEMMA StageCheckpointsSafe ==
    ASSUME IInv, NEW w \in Workers, StageCheckpoints(w)
    PROVE  IInv'
<1> DEFINE r == [run[w] EXCEPT !.pc = "stageSave"]
<1>1. r \in Run
  BY RunFacts, SetField DEF EnginePC
<1>2. r.pc = "stageSave" /\ r = [run[w] EXCEPT !.pc = r.pc]
  BY RunFacts DEF Run
<1>3. QED
  BY <1>1, <1>2, RecordingStep DEF StageCheckpoints, Goto

\* The outcome: success is only ever saved for a complete job.
LEMMA SaveOutcomeSafe ==
    ASSUME IInv, NEW w \in Workers, SaveOutcome(w)
    PROVE  IInv'
<1>1. /\ InEngine(w) /\ run[w].to \in JobState
      /\ run[w].to = "succeeded" => ckpts[run[w].job] = Stages
  BY RunFacts DEF SaveOutcome, InEngine, EnginePC, MatchesStore
<1>2. QED
  BY <1>1, IdleRun, SavingStep DEF SaveOutcome

\* A run that ends without writing.
LEMMA LostSafe ==
    ASSUME IInv, NEW w \in Workers, ReportLost(w) \/ Crash(w)
    PROVE  IInv'
<1>1. faults' \in 0..MaxFaults
  BY FaultBound DEF ReportLost, Crash
<1>2. run' = [run EXCEPT ![w] = NoRun] /\ UNCHANGED <<rows, ckpts>>
  BY DEF ReportLost, Crash
<1>3. QED
  BY <1>1, <1>2, IdleRun, QuietStep

\* Claiming, in one step or in two.
LEMMA ClaimSafe ==
    ASSUME IInv, NEW w \in Workers, NEW j \in Jobs, Claim(w, j)
    PROVE  IInv'
<1>1. Grows /\ CheckpointPrefix'
  BY NoCheckpoint DEF Claim
<1>2. rows[j].cancel \in BOOLEAN
  BY DEF IInv, TablesOK, Row
<1>3. RunsPart'
  <2>1. ckpts' = ckpts
    BY DEF Claim
  <2>2. QED
    BY <1>1, <1>2, <2>1, ClaimedRun, OneRun DEF Claim
<1>4. RowsPart'
  BY <1>1, ClaimedRow DEF Claim
<1>5. faults' \in 0..MaxFaults
  BY FaultBound DEF Claim
<1>6. QED
  BY <1>1, <1>3, <1>4, <1>5, Parts

\* Reading a candidate without a lock touches only the reader's own run.
LEMMA ClaimReadSafe ==
    ASSUME IInv, NEW w \in Workers, NEW j \in Jobs, ClaimRead(w, j)
    PROVE  IInv'
<1> DEFINE r == Reading(j)
<1>1. rows[j].cancel \in BOOLEAN
  BY DEF IInv, TablesOK, Row
<1>2. r \in Run
  BY <1>1, SizesAssumption DEF Reading, Run, JobState, Jobs
<1>3. MatchesStore(r, ckpts) /\ r.to # "succeeded"
  BY DEF Reading, MatchesStore, EnginePC
<1>4. faults' \in 0..MaxFaults
  BY FaultBound DEF ClaimRead
<1>5. QED
  BY <1>2, <1>3, <1>4, QuietStep DEF ClaimRead

\* The unlocked flush may overwrite another worker's row, never a checkpoint.
LEMMA ClaimWriteSafe ==
    ASSUME IInv, NEW w \in Workers, ClaimWrite(w)
    PROVE  IInv'
<1> DEFINE j == run[w].job
           state == IF run[w].to = "none" THEN rows[j].state ELSE "leased"
<1>1. Grows /\ CheckpointPrefix'
  BY NoCheckpoint DEF ClaimWrite
<1>2. j \in Jobs /\ run[w].seen \in BOOLEAN
  BY RunFacts DEF ClaimWrite, MatchesStore, Run
<1>3. RunsPart'
  <2>1. ckpts' = ckpts /\ run' = [run EXCEPT ![w] = Claimed(j, run[w].seen)]
    BY DEF ClaimWrite
  <2>2. QED
    BY <1>1, <1>2, <2>1, ClaimedRun, OneRun
<1>4. RowsPart'
  <2>1. LeaseTo(w, j, state) /\ state \in {"leased", rows[j].state}
    BY DEF ClaimWrite
  <2>2. QED
    BY <1>1, <1>2, <2>1, ClaimedRow
<1>5. faults' \in 0..MaxFaults
  BY FaultBound DEF ClaimWrite
<1>6. QED
  BY <1>1, <1>3, <1>4, <1>5, Parts

\* A heartbeat touches nothing but a lease.
LEMMA RenewSafe ==
    ASSUME IInv, NEW w \in Workers, Renew(w)
    PROVE  IInv'
<1> DEFINE r == [run[w] EXCEPT !.hb = 0]
           j == run[w].job
<1>1. Grows /\ CheckpointPrefix' /\ ckpts' = ckpts
  BY NoCheckpoint DEF Renew
<1>2. r \in Run
  <2>1. 0 \in 0..HeartbeatEvery
    BY SizesAssumption
  <2>2. QED
    BY <2>1, RunFacts, SetField
<1>3. MatchesStore(r, ckpts) /\ (r.seen => r.to # "succeeded")
  BY RunFacts DEF MatchesStore, Run
<1>4. RunsPart'
  BY <1>1, <1>2, <1>3, OneRun DEF Renew
<1>5. j \in Jobs
  BY RunFacts DEF Renew, InEngine, EnginePC, MatchesStore
<1>6. CASE UNCHANGED rows
  BY <1>1, <1>4, <1>6, RowsKept, FaultBound, Parts DEF Renew
<1>7. CASE rows' = [rows EXCEPT ![j].lease = LeaseLen]
  <2> DEFINE row == [rows[j] EXCEPT !.lease = LeaseLen]
  <2>1. rows[j] \in Row /\ rows' = [rows EXCEPT ![j] = row]
    BY <1>5, <1>7 DEF IInv, TablesOK
  <2>2. row \in Row /\ row.state = rows[j].state
    BY <2>1, SizesAssumption DEF Row
  <2>3. row.state = "succeeded" => ckpts'[j] = Stages
    BY <1>1, <1>5, <2>2 DEF IInv, SucceededComplete
  <2>4. RowsPart'
    BY <1>1, <1>5, <2>1, <2>2, <2>3, RowWrite
  <2>5. QED
    BY <1>1, <1>4, <2>4, FaultBound, Parts DEF Renew
<1>8. QED
  BY <1>6, <1>7 DEF Renew

\* Time shortens leases and nothing else the invariant mentions.
LEMMA TickSafe ==
    ASSUME IInv, Tick
    PROVE  IInv'
<1>1. Grows /\ CheckpointPrefix' /\ ckpts' = ckpts /\ faults' \in 0..MaxFaults
  BY NoCheckpoint, FaultBound DEF Tick
<1>2. \A n \in 0..LeaseLen : Less(n) \in 0..LeaseLen
  BY SizesAssumption DEF Less
<1>3. RowsPart'
  <2>1. rows \in [Jobs -> Row]
    BY DEF IInv, TablesOK
  <2>2. ASSUME NEW j \in Jobs
        PROVE  rows'[j] \in Row /\ rows'[j].state = rows[j].state
    BY <1>2, <2>1 DEF Tick, Row
  <2>3. rows' \in [Jobs -> Row]
    BY <2>2 DEF Tick
  <2>4. QED
    BY <1>1, <2>2, <2>3 DEF RowsPart, IInv, SucceededComplete
<1>4. RunsPart'
  <2>1. ASSUME NEW w \in Workers
        PROVE  /\ run'[w] \in Run /\ MatchesStore(run'[w], ckpts)
               /\ run'[w].seen => run'[w].to # "succeeded"
    <3> DEFINE beat == IF InEngine(w) /\ run[w].hb < HeartbeatEvery
                          THEN run[w].hb + 1 ELSE run[w].hb
               aged == [run[w] EXCEPT !.lease = Less(run[w].lease)]
    <3>1. run[w] \in Run /\ run[w].lease \in 0..LeaseLen /\ run[w].hb \in 0..HeartbeatEvery
      BY RunFacts DEF Run
    <3>2. beat \in 0..HeartbeatEvery
      BY <3>1, SizesAssumption
    <3>3. aged \in Run
      BY <1>2, <3>1, SetField
    <3>4. [aged EXCEPT !.hb = beat] \in Run
      BY <3>2, <3>3, SetField
    <3>5. run'[w] = [aged EXCEPT !.hb = beat]
      BY <3>1 DEF Tick, InEngine
    <3>6. /\ run'[w].pc = run[w].pc /\ run'[w].job = run[w].job
          /\ run'[w].done = run[w].done /\ run'[w].idx = run[w].idx
          /\ run'[w].to = run[w].to /\ run'[w].seen = run[w].seen
      BY <3>1, <3>5 DEF Run
    <3>7. MatchesStore(run'[w], ckpts)
      BY <3>6, RunFacts DEF MatchesStore
    <3>8. QED
      BY <3>4, <3>5, <3>6, <3>7, RunFacts
  <2>2. run' \in [Workers -> Run]
    BY <2>1 DEF Tick
  <2>3. QED
    BY <1>1, <2>1, <2>2 DEF RunsPart, RunsMatchStore, SeenCancelNeverSucceeds
<1>5. QED
  BY <1>1, <1>3, <1>4, Parts

\* A client's call writes one row and, run inline, the checkpoints it reports.
LEMMA ClientStep ==
    ASSUME IInv, Grows, CheckpointPrefix', RowsPart', UNCHANGED <<run, faults>>
    PROVE  IInv'
<1>1. ASSUME NEW w \in Workers
      PROVE  MatchesStore(run[w], ckpts')
  BY RunFacts, MatchesMore DEF Grows, IInv, TablesOK
<1>2. RunsPart'
  BY <1>1 DEF RunsPart, RunsMatchStore, SeenCancelNeverSucceeds, IInv, TablesOK
<1>3. faults' \in 0..MaxFaults
  BY FaultBound
<1>4. QED
  BY <1>2, <1>3, Parts

\* A new row is queued and has no checkpoints, so nothing is claimed of it.
LEMMA SubmitSafe ==
    ASSUME IInv, NEW j \in Jobs, Submit(j)
    PROVE  IInv'
<1> DEFINE row == [rows[j] EXCEPT !.state = "queued"]
<1>1. Grows /\ CheckpointPrefix'
  BY NoCheckpoint DEF Submit
<1>2. rows[j] \in Row /\ rows' = [rows EXCEPT ![j] = row]
  BY DEF Submit, IInv, TablesOK
<1>3. row \in Row /\ row.state = "queued"
  BY <1>2 DEF Row, JobState
<1>4. RowsPart'
  BY <1>1, <1>2, <1>3, RowWrite
<1>5. QED
  BY <1>1, <1>4, ClientStep DEF Submit

CallsOK == calls \in [Clients -> Call]

\* What a call that has read its row knows of it.
LEMMA CallFacts ==
    ASSUME CallsOK, NEW c \in Clients, calls[c].kind # "none"
    PROVE  /\ calls[c].job \in Jobs /\ calls[c].state \in JobState
           /\ calls[c].owner \in Owners /\ calls[c].lease \in 0..LeaseLen
           /\ calls[c].kind \in ControlPlane
<1>1. calls[c] \in Call /\ calls[c] # NoCall
  BY DEF CallsOK, NoCall
<1>2. QED
  BY <1>1 DEF Call

\* A call that only reads, or only saves, is safe if the state it saves is.
LEMMA ReadRowSafe ==
    ASSUME IInv, NEW c \in Clients, NEW kind, NEW j \in Jobs, ReadRow(c, kind, j)
    PROVE  IInv'
<1>1. Grows /\ CheckpointPrefix'
  BY NoCheckpoint DEF ReadRow
<1>2. RowsPart'
  BY <1>1, RowsKept DEF ReadRow
<1>3. QED
  BY <1>1, <1>2, ClientStep DEF ReadRow

LEMMA ReturnRow ==
    ASSUME IInv, CallsOK, Grows, NEW c \in Clients, calls[c].kind # "none",
           NEW state \in JobState, Return(c, state),
           state = "succeeded" => ckpts'[calls[c].job] = Stages
    PROVE  RowsPart'
<1>1. (calls[c].kind = "cancel") \in BOOLEAN
  OBVIOUS
<1>2. QED
  BY <1>1, CallFacts, SaveRow DEF Return

\* The states request_cancel and resume_job write make no promise about
\* checkpoints.
DraftsOK == \A c \in Clients :
    /\ calls[c].kind = "cancel" => calls[c].state = "cancelling"
    /\ calls[c].kind = "resume" => calls[c].state = "queued"

LEMMA SaveDraftSafe ==
    ASSUME IInv, CallsOK, DraftsOK, NEW c \in Clients, RequestCancel(c) \/ ResumeJob(c)
    PROVE  IInv'
<1>1. UNCHANGED <<ckpts, run, faults>>
  BY DEF RequestCancel, ResumeJob
<1>2. Grows /\ CheckpointPrefix'
  BY <1>1, NoCheckpoint
<1>3. Return(c, calls[c].state) /\ calls[c].kind \in {"cancel", "resume"}
  BY DEF RequestCancel, ResumeJob
<1>4. calls[c].state \in JobState /\ calls[c].state # "succeeded"
  BY <1>3 DEF DraftsOK, JobState
<1>5. RowsPart'
  BY <1>2, <1>3, <1>4, ReturnRow
<1>6. QED
  BY <1>1, <1>2, <1>5, ClientStep

\* The in-process run adds a prefix of the stages, all of them on success.
LEMMA RunInlineSafe ==
    ASSUME IInv, CallsOK, NEW c \in Clients, RunInline(c)
    PROVE  IInv'
<1> DEFINE j == calls[c].job
<1>1. PICK to \in JobState, n \in 0..NumStages :
         /\ to = "succeeded" => n = NumStages
         /\ Return(c, to)
         /\ ckpts' = [ckpts EXCEPT ![j] = @ \cup 1..n]
  BY DEF RunInline, InlineOutcome
<1>0. j \in Jobs /\ calls[c].kind # "none"
  BY CallFacts DEF RunInline
<1> HIDE DEF j
<1>2. ckpts \in [Jobs -> SUBSET Stages] /\ 1..n \subseteq Stages
  BY SizesAssumption DEF IInv, TablesOK, Stages
<1>3. Grows
  BY <1>0, <1>1, <1>2 DEF Grows
<1>4. CheckpointPrefix'
  <2>1. ASSUME NEW i \in Jobs, NEW s \in ckpts'[i] PROVE 1..s \subseteq ckpts'[i]
    <3>1. CASE s \in ckpts[i]
      BY <1>1, <1>2, <3>1 DEF IInv, CheckpointPrefix
    <3>2. CASE s \notin ckpts[i]
      <4>1. i = j /\ s \in 1..n
        BY <1>0, <1>1, <1>2, <3>2
      <4>2. 1..s \subseteq 1..n
        BY <4>1, SizesAssumption
      <4>3. QED
        BY <1>1, <1>2, <4>1, <4>2
    <3>3. QED
      BY <3>1, <3>2
  <2>2. QED
    BY <2>1 DEF CheckpointPrefix
<1>5. to = "succeeded" => ckpts'[j] = Stages
  BY <1>0, <1>1, <1>2 DEF Stages
<1>6. RowsPart'
  BY <1>0, <1>1, <1>3, <1>5, ReturnRow DEF j
<1>7. QED
  BY <1>3, <1>4, <1>6, ClientStep DEF RunInline

\* A call's copy of a row is a row's.
LEMMA CallsKept ==
    ASSUME IInv, CallsOK, DraftsOK, [Next]_vars
    PROVE  CallsOK' /\ DraftsOK'
<1> DEFINE Fits(call) == /\ call \in Call
                         /\ call.kind = "cancel" => call.state = "cancelling"
                         /\ call.kind = "resume" => call.state = "queued"
<1>0. /\ (CallsOK /\ DraftsOK) <=> /\ calls = [c \in Clients |-> calls[c]]
                                   /\ \A c \in Clients : Fits(calls[c])
      /\ (CallsOK' /\ DraftsOK') <=> /\ calls' = [c \in Clients |-> calls'[c]]
                                     /\ \A c \in Clients : Fits(calls'[c])
  BY DEF CallsOK, DraftsOK
<1>1. Fits(NoCall)
  BY DEF Call, NoCall
<1>2. ASSUME NEW c \in Clients, NEW call, Fits(call),
             calls' = [calls EXCEPT ![c] = call]
      PROVE  CallsOK' /\ DraftsOK'
  BY <1>0, <1>2
<1>3. ASSUME NEW c \in Clients, NEW kind \in ControlPlane, NEW j \in Jobs, ReadRow(c, kind, j)
      PROVE  CallsOK' /\ DraftsOK'
  <2> DEFINE call == [kind |-> kind, job |-> j, state |-> Drafts(kind, rows[j])[1],
                      owner |-> Drafts(kind, rows[j])[2], lease |-> rows[j].lease]
  <2>1. rows[j].owner \in Owners /\ rows[j].lease \in 0..LeaseLen
    BY DEF IInv, TablesOK, Row
  <2>2. /\ Drafts(kind, rows[j])[1] \in JobState /\ Drafts(kind, rows[j])[2] \in Owners
        /\ kind = "cancel" => Drafts(kind, rows[j])[1] = "cancelling"
        /\ kind = "resume" => Drafts(kind, rows[j])[1] = "queued"
    BY <2>1, ModesAssumption DEF Drafts, JobState, Owners
  <2>3. call \in [kind : ControlPlane, job : Jobs, state : JobState,
                  owner : Owners, lease : 0..LeaseLen]
    BY <2>1, <2>2
  <2>4. Fits(call)
    BY <2>2, <2>3 DEF Call
  <2>5. calls' = [calls EXCEPT ![c] = call]
    BY <1>3 DEF ReadRow
  <2> HIDE DEF call, Fits
  <2>6. QED
    BY <1>2, <2>4, <2>5
<1>4. ASSUME NEW c \in Clients, NEW state, Return(c, state)
      PROVE  CallsOK' /\ DraftsOK'
  BY <1>1, <1>2, <1>4 DEF Return
<1>5. CASE Tick
  <2>1. ASSUME NEW c \in Clients PROVE Fits([calls[c] EXCEPT !.lease = Less(calls[c].lease)])
    <3>1. Fits(calls[c])
      BY <1>0
    <3>2. \A n \in 0..LeaseLen : Less(n) \in 0..LeaseLen
      BY SizesAssumption DEF Less
    <3>3. Less(0) = 0
      BY DEF Less
    <3>4. CASE calls[c] = NoCall
      BY <1>1, <3>3, <3>4 DEF NoCall
    <3>5. CASE calls[c] # NoCall
      BY <3>1, <3>2, <3>5 DEF Call
    <3>6. QED
      BY <3>4, <3>5
  <2>2. calls' = [c \in Clients |-> [calls[c] EXCEPT !.lease = Less(calls[c].lease)]]
    BY <1>5 DEF Tick
  <2> HIDE DEF Fits
  <2>3. QED
    BY <1>0, <2>1, <2>2
<1>6. CASE UNCHANGED calls
  BY <1>6 DEF CallsOK, DraftsOK
<1>7. CASE Tick \/ UNCHANGED vars \/ \E c \in Clients : Client(c)
  BY <1>3, <1>4, <1>5, <1>6, <1>7 DEF Client, RequestCancel, ResumeJob, RunInline, vars
<1>8. ASSUME NEW w \in Workers, EngineStep(w) PROVE UNCHANGED calls
  BY <1>8 DEF EngineStep, ClaimWrite, StartRun, LoadCheckpoints, BoundaryCancelled, SkipStage,
     EnterStage, AllStagesDone, SaveProgress, StageCheckpoints, StageSaves, StageReturns,
     AppendComplete, RetryStage, FailStage, ExhaustBudget, StageSeesCancel, RecordCheckpoint,
     SaveRecorded, SaveOutcome
<1>9. ASSUME NEW w \in Workers, Poll(w) \/ Renew(w) \/ Fault(w) PROVE UNCHANGED calls
  BY <1>9 DEF Poll, Claim, ClaimRead, Renew, Fault, DbCallFails, ReportLost, KillTask, Crash
<1>10. ASSUME NEW j \in Jobs, Submit(j) PROVE UNCHANGED calls
  BY <1>10 DEF Submit
<1>11. QED
  BY <1>6, <1>7, <1>8, <1>9, <1>10 DEF Next

-----------------------------------------------------------------------------
(* The invariant and what follows from it. *)

\* The initial state satisfies the invariant.
LEMMA InitSafe == Init => IInv
<1> SUFFICES ASSUME Init PROVE IInv
  OBVIOUS
<1>1. NoRow \in Row
  BY SizesAssumption DEF NoRow, Row, Owners
<1>2. TablesOK
  BY <1>1, IdleRun, SizesAssumption DEF Init, TablesOK
<1>3. SucceededComplete /\ CheckpointPrefix
  BY DEF Init, SucceededComplete, CheckpointPrefix, NoRow
<1>4. RunsMatchStore /\ SeenCancelNeverSucceeds
  BY IdleRun DEF Init, RunsMatchStore, SeenCancelNeverSucceeds
<1>5. QED
  BY <1>2, <1>3, <1>4 DEF IInv

\* A worker's own step preserves it.
LEMMA EngineStepSafe ==
    ASSUME IInv, NEW w \in Workers, EngineStep(w)
    PROVE  IInv'
<1>1. CASE ClaimWrite(w) \/ StartRun(w) \/ LoadCheckpoints(w)
  BY <1>1, ClaimWriteSafe, StartRunSafe, LoadCheckpointsSafe
<1>2. CASE BoundaryCancelled(w) \/ SkipStage(w) \/ EnterStage(w) \/ AllStagesDone(w)
  BY <1>2, BoundaryCancelledSafe, SkipStageSafe, EnterStageSafe, AllStagesDoneSafe
<1>3. CASE SaveProgress(w) \/ StageCheckpoints(w) \/ StageSaves(w) \/ StageReturns(w)
  BY <1>3, SaveProgressSafe, StageCheckpointsSafe, StageSavesSafe, StageReturnsSafe
<1>4. CASE AppendComplete(w) \/ RetryStage(w) \/ FailStage(w) \/ ExhaustBudget(w)
  BY <1>4, AppendCompleteSafe, RetryStageSafe, FailStageSafe, ExhaustBudgetSafe
<1>5. CASE StageSeesCancel(w) \/ RecordCheckpoint(w) \/ SaveRecorded(w) \/ SaveOutcome(w)
  BY <1>5, StageSeesCancelSafe, RecordCheckpointSafe, SaveRecordedSafe, SaveOutcomeSafe
<1>6. QED
  BY <1>1, <1>2, <1>3, <1>4, <1>5 DEF EngineStep

\* Every step preserves it, given what the calls in flight carry.
LEMMA NextSafe == IInv /\ CallsOK /\ DraftsOK /\ [Next]_vars => IInv'
<1> SUFFICES ASSUME IInv, CallsOK, DraftsOK, [Next]_vars PROVE IInv'
  OBVIOUS
<1>1. ASSUME NEW w \in Workers, EngineStep(w) PROVE IInv'
  BY <1>1, EngineStepSafe
<1>2. ASSUME NEW w \in Workers, Poll(w) PROVE IInv'
  BY <1>2, ClaimSafe, ClaimReadSafe DEF Poll
<1>3. ASSUME NEW w \in Workers, Renew(w) PROVE IInv'
  BY <1>3, RenewSafe
<1>4. ASSUME NEW w \in Workers, Fault(w) PROVE IInv'
  BY <1>4, DbCallFailsSafe, LostSafe, KillTaskSafe DEF Fault
<1>5. ASSUME NEW c \in Clients, Client(c) PROVE IInv'
  BY <1>5, ReadRowSafe, SaveDraftSafe, RunInlineSafe DEF Client
<1>6. ASSUME NEW j \in Jobs, Submit(j) PROVE IInv'
  BY <1>6, SubmitSafe
<1>7. CASE Tick
  BY <1>7, TickSafe
<1>8. CASE UNCHANGED vars
  BY <1>8 DEF vars, IInv, TablesOK, SucceededComplete, CheckpointPrefix, RunsMatchStore,
              SeenCancelNeverSucceeds
<1>9. QED
  BY <1>1, <1>2, <1>3, <1>4, <1>5, <1>6, <1>7, <1>8 DEF Next

\* The inductive invariant of the job runtime, and of the calls in flight.
THEOREM Invariance == Spec => [](IInv /\ CallsOK /\ DraftsOK)
<1>1. Init => IInv /\ CallsOK /\ DraftsOK
  <2>1. Init => CallsOK /\ DraftsOK
    BY DEF Init, CallsOK, DraftsOK, Call, NoCall
  <2>2. QED
    BY <2>1, InitSafe
<1>2. IInv /\ CallsOK /\ DraftsOK /\ [Next]_vars => (IInv /\ CallsOK /\ DraftsOK)'
  BY NextSafe, CallsKept
<1>3. QED
  BY <1>1, <1>2, PTL DEF Spec

\* The table, the checkpoints, every worker's copy and every caller's stay well
\* formed.
THEOREM TypeCorrect == Spec => []TypeOK
<1>1. IInv /\ CallsOK => TypeOK
  BY DEF IInv, CallsOK, TypeOK
<1>2. QED
  BY <1>1, Invariance, PTL

\* However many workers share, steal, kill, cancel or resume a job, a row that
\* says `succeeded` belongs to a job whose every stage has a durable checkpoint.
THEOREM SucceededIsComplete == Spec => []SucceededComplete
<1>1. IInv => SucceededComplete
  BY DEF IInv
<1>2. QED
  BY <1>1, Invariance, PTL

\* The checkpoints of a job are always a prefix of its stage list.
THEOREM CheckpointsArePrefix == Spec => []CheckpointPrefix
<1>1. IInv => CheckpointPrefix
  BY DEF IInv
<1>2. QED
  BY <1>1, Invariance, PTL

\* No engine believes a stage done that a crash could lose.
THEOREM BeliefsAreDurable == Spec => []RunsMatchStore
<1>1. IInv => RunsMatchStore
  BY DEF IInv
<1>2. QED
  BY <1>1, Invariance, PTL

\* An engine that has seen a cancel request does not report success.
THEOREM SeenCancelIsHonoured == Spec => []SeenCancelNeverSucceeds
<1>1. IInv => SeenCancelNeverSucceeds
  BY DEF IInv
<1>2. QED
  BY <1>1, Invariance, PTL

-----------------------------------------------------------------------------
(* The cancel flag. *)

\* A write that goes through save keeps a flag that is set.
LEMMA SaveKeepsCancel ==
    ASSUME TablesOK, NEW i \in Jobs, rows[i].cancel, NEW j \in Jobs,
           NEW state, NEW owner, NEW lease, NEW cancel \in BOOLEAN,
           Save(j, state, owner, lease, cancel)
    PROVE  rows'[i].cancel
<1>1. rows \in [Jobs -> Row]
  BY DEF TablesOK
<1>2. CASE i = j
  <2>1. rows'[i].cancel = (rows[j].cancel \/ cancel)
    BY <1>1, <1>2 DEF Save
  <2>2. QED
    BY <1>2, <2>1
<1>3. CASE i # j
  BY <1>1, <1>3 DEF Save
<1>4. QED
  BY <1>2, <1>3

\* No save of a copy that never saw it, no claim, renewal or client call erases
\* a recorded cancel request.
THEOREM CancelIsSticky == Spec => CancelSticky
<1>1. ASSUME IInv, CallsOK, [Next]_vars, NEW i \in Jobs, rows[i].cancel
      PROVE  rows'[i].cancel
  <2>1. TablesOK /\ rows \in [Jobs -> Row]
    BY <1>1 DEF IInv, TablesOK
  <2>2. ASSUME NEW w \in Workers, NEW state, InEngine(w), SaveCopy(w, state)
        PROVE  rows'[i].cancel
    <3>1. run[w].job \in Jobs /\ run[w].seen \in BOOLEAN
      BY <1>1, <2>2, RunFacts DEF InEngine, EnginePC, MatchesStore, Run
    <3>2. QED
      BY <1>1, <2>1, <2>2, <3>1, SaveKeepsCancel DEF SaveCopy
  <2>3. ASSUME NEW w \in Workers, NEW j \in Jobs, NEW state, LeaseTo(w, j, state)
        PROVE  rows'[i].cancel
    BY <1>1, <2>1, <2>3 DEF LeaseTo
  <2>4. ASSUME NEW w \in Workers, EngineStep(w) PROVE rows'[i].cancel
    <3>1. CASE ClaimWrite(w)
      <4>1. run[w].job \in Jobs
        BY <1>1, <3>1, RunFacts DEF ClaimWrite, MatchesStore
      <4>2. QED
        BY <2>3, <3>1, <4>1 DEF ClaimWrite
    <3>2. CASE StartRun(w) \/ SaveProgress(w) \/ StageSaves(w) \/ SaveRecorded(w)
               \/ SaveOutcome(w)
      BY <2>2, <3>2 DEF StartRun, SaveProgress, StageSaves, SaveRecorded, SaveOutcome,
                        InEngine, EnginePC
    <3>3. CASE UNCHANGED rows
      BY <1>1, <3>3
    <3>4. QED
      BY <2>4, <3>1, <3>2, <3>3
         DEF EngineStep, LoadCheckpoints, BoundaryCancelled, SkipStage, EnterStage,
             AllStagesDone, StageCheckpoints, StageReturns, AppendComplete, RetryStage,
             FailStage, ExhaustBudget, StageSeesCancel, RecordCheckpoint
  <2>5. ASSUME NEW w \in Workers, Poll(w) PROVE rows'[i].cancel
    BY <1>1, <2>3, <2>5 DEF Poll, Claim, ClaimRead
  <2>6. ASSUME NEW w \in Workers, Renew(w) PROVE rows'[i].cancel
    <3>1. run[w].job \in Jobs
      BY <1>1, <2>6, RunFacts DEF Renew, InEngine, EnginePC, MatchesStore
    <3>2. QED
      BY <1>1, <2>1, <2>6, <3>1 DEF Renew, Row
  <2>7. ASSUME NEW w \in Workers, Fault(w) PROVE rows'[i].cancel
    BY <1>1, <2>7 DEF Fault, DbCallFails, ReportLost, KillTask, Crash
  <2>8. ASSUME NEW c \in Clients, Client(c) PROVE rows'[i].cancel
    <3>1. ASSUME NEW state, Return(c, state), calls[c].kind # "none" PROVE rows'[i].cancel
      <4>1. calls[c].job \in Jobs /\ (calls[c].kind = "cancel") \in BOOLEAN
        BY <1>1, <3>1, CallFacts
      <4>2. QED
        BY <1>1, <2>1, <3>1, <4>1, SaveKeepsCancel DEF Return
    <3>2. CASE RequestCancel(c) \/ ResumeJob(c) \/ RunInline(c)
      BY <3>1, <3>2 DEF RequestCancel, ResumeJob, RunInline
    <3>3. QED
      BY <1>1, <2>8, <3>2 DEF Client, ReadRow
  <2>12. ASSUME NEW j \in Jobs, Submit(j) PROVE rows'[i].cancel
    BY <1>1, <2>1, <2>12 DEF Submit, Row
  <2>9. CASE Tick
    BY <1>1, <2>1, <2>9 DEF Tick, Row
  <2>10. CASE UNCHANGED vars
    BY <1>1, <2>10 DEF vars
  <2>11. QED
    BY <1>1, <2>4, <2>5, <2>6, <2>7, <2>8, <2>9, <2>10, <2>12 DEF Next
<1>2. IInv /\ CallsOK /\ [Next]_vars => [\A j \in Jobs : rows[j].cancel => rows'[j].cancel]_vars
  BY <1>1
<1>3. QED
  BY <1>2, Invariance, PTL DEF Spec, CancelSticky

-----------------------------------------------------------------------------
(* One worker.  With nobody else at work on its job, what an engine counts as  *)
(* done is all that is checkpointed, but for the stage it is in.               *)

InStage == {"stage", "stageSave", "event", "record", "recordSave"}
NotInStage == {"idle", "claiming", "claimed", "load", "commit", "report"}

KnowsAll(r, store) ==
    /\ r.pc \in {"boundary", "enter"} => store[r.job] \subseteq r.done
    /\ r.pc = "enter" => r.idx \notin r.done
    /\ r.pc \in InStage => store[r.job] \subseteq r.done \cup {r.idx}

AllKnowAll == \A w \in Workers : KnowsAll(run[w], ckpts)

\* Clients that do not run jobs themselves leave the checkpoints alone.
LEMMA ClientsRecordNothing ==
    ASSUME "run" \notin ControlPlane, CallsOK, NEW c \in Clients, Client(c)
    PROVE  UNCHANGED <<ckpts, run>>
BY CallFacts DEF Client, ReadRow, RequestCancel, ResumeJob, RunInline

\* An engine adds to what it counts as done what it has checkpointed.
LEMMA EngineKnowsAll ==
    ASSUME IInv, NEW w \in Workers, KnowsAll(run[w], ckpts), EngineStep(w)
    PROVE  KnowsAll(run'[w], ckpts')
<1>1. run[w] \in Run /\ run \in [Workers -> Run] /\ ckpts \in [Jobs -> SUBSET Stages]
  BY RunFacts DEF IInv, TablesOK
<1>2. \A r, s : r.pc \in NotInStage => KnowsAll(r, s)
  BY DEF KnowsAll, NotInStage, InStage
<1>3. CASE ClaimWrite(w) \/ StartRun(w) \/ BoundaryCancelled(w) \/ AllStagesDone(w)
           \/ FailStage(w) \/ ExhaustBudget(w) \/ StageSeesCancel(w) \/ SaveOutcome(w)
  <2>1. CASE ClaimWrite(w) \/ SaveOutcome(w)
    <3>1. run'[w].pc \in NotInStage
      BY <1>1, <2>1 DEF ClaimWrite, SaveOutcome, Claimed, NoRun, NotInStage
    <3>2. QED
      BY <1>2, <3>1
  <2>2. CASE StartRun(w) \/ BoundaryCancelled(w) \/ StageSeesCancel(w)
    <3>1. ASSUME StartRun(w) PROVE KnowsAll(run'[w], ckpts')
      <4>1. run'[w].pc \in NotInStage
        BY <1>1, <3>1 DEF StartRun, Goto, NotInStage, Run
      <4>2. QED
        BY <1>2, <4>1
    <3>2. ASSUME BoundaryCancelled(w) PROVE KnowsAll(run'[w], ckpts')
      <4>1. run'[w].pc \in NotInStage
        BY <1>1, <3>2 DEF BoundaryCancelled, NotInStage, Run
      <4>2. QED
        BY <1>2, <4>1
    <3>3. ASSUME StageSeesCancel(w) PROVE KnowsAll(run'[w], ckpts')
      <4>1. run'[w].pc \in NotInStage
        BY <1>1, <3>3 DEF StageSeesCancel, NotInStage, Run
      <4>2. QED
        BY <1>2, <4>1
    <3>4. QED
      BY <2>2, <3>1, <3>2, <3>3
  <2>3. CASE AllStagesDone(w) \/ FailStage(w) \/ ExhaustBudget(w)
    <3>1. ASSUME AllStagesDone(w) PROVE KnowsAll(run'[w], ckpts')
      <4>1. run'[w].pc \in NotInStage
        BY <1>1, <3>1 DEF AllStagesDone, Land, NotInStage, Run
      <4>2. QED
        BY <1>2, <4>1
    <3>2. ASSUME FailStage(w) PROVE KnowsAll(run'[w], ckpts')
      <4>1. run'[w].pc \in NotInStage
        BY <1>1, <3>2 DEF FailStage, Land, NotInStage, Run
      <4>2. QED
        BY <1>2, <4>1
    <3>3. ASSUME ExhaustBudget(w) PROVE KnowsAll(run'[w], ckpts')
      <4>1. run'[w].pc \in NotInStage
        BY <1>1, <3>3 DEF ExhaustBudget, Land, NotInStage, Run
      <4>2. QED
        BY <1>2, <4>1
    <3>4. QED
      BY <2>3, <3>1, <3>2, <3>3
  <2>4. QED
    BY <1>3, <2>1, <2>2, <2>3
<1>4. CASE LoadCheckpoints(w)
  BY <1>1, <1>4 DEF LoadCheckpoints, KnowsAll, InStage, Run
<1>5. CASE SkipStage(w)
  <2>1. /\ run[w].pc = "boundary" /\ run'[w].pc = "boundary" /\ ckpts' = ckpts
        /\ run'[w].job = run[w].job /\ run'[w].done = run[w].done
    BY <1>1, <1>5 DEF SkipStage, Run
  <2>2. QED
    BY <2>1 DEF KnowsAll, InStage
<1>12. CASE EnterStage(w)
  <2>1. /\ run[w].pc = "boundary" /\ run'[w].pc = "enter" /\ ckpts' = ckpts
        /\ run'[w].job = run[w].job /\ run'[w].done = run[w].done
        /\ run'[w].idx = run[w].idx /\ run[w].idx \notin run[w].done
    BY <1>1, <1>12 DEF EnterStage, Goto, Run
  <2>2. QED
    BY <2>1 DEF KnowsAll, InStage
<1>6. CASE SaveProgress(w)
  <2>1. /\ run[w].pc = "enter" /\ run'[w].pc = "stage" /\ ckpts' = ckpts
        /\ run'[w].job = run[w].job /\ run'[w].done = run[w].done /\ run'[w].idx = run[w].idx
    BY <1>1, <1>6 DEF SaveProgress, Run
  <2>2. QED
    BY <2>1 DEF KnowsAll, InStage
<1>7. CASE StageSaves(w) \/ StageReturns(w) \/ AppendComplete(w)
  BY <1>1, <1>7 DEF StageSaves, StageReturns, AppendComplete, Goto, KnowsAll, InStage, Run
<1>8. CASE RetryStage(w)
  <2>1. \/ run'[w].pc = "report"
        \/ /\ run'[w].pc = "stage" /\ run[w].pc \in InStage
           /\ run'[w].job = run[w].job /\ run'[w].done = run[w].done /\ run'[w].idx = run[w].idx
    BY <1>1, <1>8 DEF RetryStage, Raises, Land, InStage, Run
  <2>2. ckpts' = ckpts
    BY <1>8 DEF RetryStage
  <2>3. QED
    BY <1>2, <2>1, <2>2 DEF KnowsAll, InStage, NotInStage
<1>9. CASE StageCheckpoints(w) \/ RecordCheckpoint(w)
  <2>1. /\ run[w].pc \in InStage /\ run'[w].pc \in InStage
        /\ run'[w].job = run[w].job /\ run'[w].done = run[w].done /\ run'[w].idx = run[w].idx
        /\ ckpts' = [ckpts EXCEPT ![run[w].job] = @ \cup {run[w].idx}]
    BY <1>1, <1>9 DEF StageCheckpoints, RecordCheckpoint, Goto, InStage, Run
  <2>2. run[w].job \in Jobs
    BY <2>1, RunFacts DEF MatchesStore, InStage
  <2>3. QED
    BY <1>1, <2>1, <2>2 DEF KnowsAll, InStage
<1>10. CASE SaveRecorded(w)
  BY <1>1, <1>10 DEF SaveRecorded, KnowsAll, InStage, Run
<1>11. QED
  BY <1>3, <1>4, <1>5, <1>6, <1>7, <1>8, <1>9, <1>10, <1>12 DEF EngineStep

\* The worker alone knows, of every job that is not its own, every stage entered.
LEMMA AloneKnowsAll ==
    ASSUME NEW w, Workers = {w}, "run" \notin ControlPlane, IInv, CallsOK, AllKnowAll,
           [Next]_vars
    PROVE  AllKnowAll'
<1>1. run[w] \in Run /\ run \in [Workers -> Run] /\ KnowsAll(run[w], ckpts)
  BY RunFacts DEF AllKnowAll
<1>2. \A r, s : r.pc \in NotInStage => KnowsAll(r, s)
  BY DEF KnowsAll, NotInStage, InStage
<1>3. ASSUME EngineStep(w) PROVE KnowsAll(run'[w], ckpts')
  BY <1>1, <1>3, EngineKnowsAll
<1>4. ASSUME Poll(w) \/ Fault(w) PROVE KnowsAll(run'[w], ckpts')
  <2>1. run'[w].pc \in NotInStage
    BY <1>1, <1>4 DEF Poll, Fault, Claim, ClaimRead, DbCallFails, ReportLost, KillTask, Crash,
       Claimed, Reading, Land, NoRun, NotInStage, Run
  <2>2. QED
    BY <1>2, <2>1
<1>5. ASSUME Renew(w) \/ Tick PROVE KnowsAll(run'[w], ckpts')
  <2>1. /\ run'[w].pc = run[w].pc /\ run'[w].job = run[w].job /\ run'[w].done = run[w].done
        /\ run'[w].idx = run[w].idx /\ ckpts' = ckpts
    <3>1. CASE Renew(w)
      BY <1>1, <3>1 DEF Renew, Run
    <3>2. CASE Tick
      <4>1. run'[w] = [run[w] EXCEPT !.lease = Less(@),
                         !.hb = IF InEngine(w) /\ @ < HeartbeatEvery THEN @ + 1 ELSE @]
        BY <1>1, <3>2 DEF Tick
      <4>2. QED
        BY <1>1, <3>2, <4>1 DEF Tick, Run
    <3>3. QED
      BY <1>5, <3>1, <3>2
  <2>2. QED
    BY <1>1, <2>1 DEF KnowsAll
<1>6. ASSUME UNCHANGED <<ckpts, run>> PROVE KnowsAll(run'[w], ckpts')
  BY <1>1, <1>6
<1>7. KnowsAll(run'[w], ckpts')
  BY <1>3, <1>4, <1>5, <1>6, ClientsRecordNothing DEF Next, Submit, vars
<1>8. QED
  BY <1>7 DEF AllKnowAll

\* "Completed stages are never repeated on resume": a lone worker that enters a
\* stage, after whatever crashes, retries and resumptions, enters one without a
\* checkpoint, as long as nobody runs the job in process.
THEOREM StagesAreNotRepeated ==
    ASSUME NEW w, Workers = {w}, "run" \notin ControlPlane
    PROVE  Spec => []EnteredStageIsNew
<1>1. Init => AllKnowAll
  BY DEF Init, NoRun, AllKnowAll, KnowsAll, InStage
<1>2. IInv /\ CallsOK /\ AllKnowAll /\ [Next]_vars => AllKnowAll'
  BY AloneKnowsAll
<1>3. AllKnowAll => EnteredStageIsNew
  BY DEF AllKnowAll, KnowsAll, EnteredStageIsNew
<1>4. QED
  BY <1>1, <1>2, <1>3, Invariance, PTL DEF Spec

-----------------------------------------------------------------------------
(* How far a run is from its end. *)

\* What one stage may take: an entry, and each of its tries.
PerStage == 10 * MaxAttempts + 10

StagesLeft(r) == (NumStages + 1 - r.idx) * PerStage
TriesLeft(r) == 10 * (MaxAttempts - r.attempt)

\* What is left of the stage in hand, at each of its calls.
InStageRank(r) ==
    CASE r.pc = "enter" -> PerStage - 1
      [] r.pc = "stage" -> TriesLeft(r) + 5
      [] r.pc = "stageSave" -> TriesLeft(r) + 4
      [] r.pc = "event" -> TriesLeft(r) + 3
      [] r.pc = "record" -> TriesLeft(r) + 2
      [] r.pc = "recordSave" -> TriesLeft(r) + 1
      [] OTHER -> 0

StageCalls == {"enter", "stage", "stageSave", "event", "record", "recordSave"}

\* The calls before the first stage come on top of all stages.
Ahead(r) ==
    CASE r.pc = "load" -> 1 [] r.pc = "claimed" -> 2 [] OTHER -> 0

RunRank(r) ==
    CASE r.pc = "idle" -> 0
      [] r.pc = "report" -> 1
      [] r.pc = "commit" -> 2
      [] r.pc = "claiming" -> 6 + NumStages * PerStage
      [] r.pc \in StageCalls -> 3 + StagesLeft(r) - PerStage + InStageRank(r)
      [] OTHER -> 3 + StagesLeft(r) + Ahead(r)

MaxRunRank == 6 + NumStages * PerStage

\* The sizes the measure is made of.
LEMMA RunRankSizes ==
    ASSUME NEW r \in Run, r.pc \in StageCalls => r.idx \in Stages
    PROVE  /\ NumStages \in Nat /\ MaxAttempts \in Nat /\ PerStage \in Nat
           /\ PerStage = 10 * MaxAttempts + 10 /\ NumStages * PerStage \in Nat
           /\ StagesLeft(r) \in Nat /\ StagesLeft(r) <= NumStages * PerStage
           /\ r.pc \in StageCalls => PerStage <= StagesLeft(r)
           /\ TriesLeft(r) \in Nat /\ TriesLeft(r) <= 10 * MaxAttempts
<1>1. NumStages \in Nat /\ MaxAttempts \in Nat /\ PerStage \in Nat
      /\ r.idx \in 1..(NumStages + 1) /\ r.attempt \in 0..MaxAttempts
  BY SizesAssumption DEF Run, PerStage
<1>2. \A x, y, k \in Nat : x * k \in Nat /\ (x <= y => x * k <= y * k) /\ 1 * k = k
  OBVIOUS
<1>3. PICK n \in 0..NumStages : n = NumStages + 1 - r.idx
  BY <1>1
<1>4. n * PerStage \in Nat /\ n * PerStage <= NumStages * PerStage /\ NumStages * PerStage \in Nat
  BY <1>1, <1>2
<1>5. ASSUME r.idx \in Stages PROVE PerStage <= n * PerStage
  <2>1. 1 <= n /\ 1 \in Nat /\ n \in Nat
    BY <1>1, <1>3, <1>5 DEF Stages
  <2>2. QED
    BY <1>1, <1>2, <2>1
<1>6. TriesLeft(r) \in Nat /\ TriesLeft(r) <= 10 * MaxAttempts
  BY <1>1 DEF TriesLeft
<1>7. StagesLeft(r) = n * PerStage
  BY <1>3 DEF StagesLeft
<1>8. QED
  BY <1>1, <1>4, <1>5, <1>6, <1>7 DEF PerStage

\* The measure at each call.
LEMMA RunRankAt ==
    ASSUME NEW r \in Run
    PROVE  /\ r.pc = "idle" => RunRank(r) = 0
           /\ r.pc = "report" => RunRank(r) = 1
           /\ r.pc = "commit" => RunRank(r) = 2
           /\ r.pc = "claiming" => RunRank(r) = MaxRunRank
           /\ r.pc = "claimed" => RunRank(r) = 3 + StagesLeft(r) + 2
           /\ r.pc = "load" => RunRank(r) = 3 + StagesLeft(r) + 1
           /\ r.pc = "boundary" => RunRank(r) = 3 + StagesLeft(r) + 0
           /\ r.pc = "enter" => RunRank(r) = 3 + StagesLeft(r) - PerStage + (PerStage - 1)
           /\ r.pc = "stage" => RunRank(r) = 3 + StagesLeft(r) - PerStage + (TriesLeft(r) + 5)
           /\ r.pc = "stageSave" => RunRank(r) = 3 + StagesLeft(r) - PerStage + (TriesLeft(r) + 4)
           /\ r.pc = "event" => RunRank(r) = 3 + StagesLeft(r) - PerStage + (TriesLeft(r) + 3)
           /\ r.pc = "record" => RunRank(r) = 3 + StagesLeft(r) - PerStage + (TriesLeft(r) + 2)
           /\ r.pc = "recordSave" => RunRank(r) = 3 + StagesLeft(r) - PerStage + (TriesLeft(r) + 1)
BY DEF RunRank, Ahead, InStageRank, StageCalls, MaxRunRank

\* The measure of a run is a natural number, 0 only when it is over.
LEMMA RunRankIsNat ==
    ASSUME NEW r \in Run, r.pc \in StageCalls => r.idx \in Stages
    PROVE  RunRank(r) \in 0..MaxRunRank /\ (RunRank(r) = 0 <=> r.pc = "idle")
<1>1. r.pc \in {"idle", "claiming"} \cup EnginePC
  BY DEF Run
<1>2. CASE r.pc \in StageCalls
  BY <1>2, RunRankSizes, RunRankAt DEF StageCalls, MaxRunRank
<1>3. CASE r.pc \notin StageCalls
  BY <1>1, <1>3, RunRankSizes, RunRankAt DEF StageCalls, MaxRunRank, EnginePC
<1>4. QED
  BY <1>2, <1>3

\* A stage less is PerStage less.
LEMMA NextStage ==
    ASSUME NEW r \in Run, NEW s \in Run, s.idx = r.idx + 1
    PROVE  StagesLeft(r) = StagesLeft(s) + PerStage
<1>1. NumStages \in Nat /\ PerStage \in Nat
  BY SizesAssumption DEF PerStage
<1>2. PICK n \in Nat : n = NumStages + 1 - s.idx
  BY <1>1 DEF Run
<1>3. NumStages + 1 - r.idx = n + 1
  BY <1>1, <1>2 DEF Run
<1>4. (n + 1) * PerStage = n * PerStage + PerStage
  BY <1>1
<1>5. QED
  BY <1>2, <1>3, <1>4 DEF StagesLeft

\* The stage calls are about a stage there is, before and after a step.
LEMMA StageInHand ==
    ASSUME IInv, NEW w \in Workers
    PROVE  /\ run \in [Workers -> Run] /\ run[w] \in Run
           /\ run[w].pc \in StageCalls => run[w].idx \in Stages
BY DEF IInv, TablesOK, RunsMatchStore, MatchesStore, StageCalls

\* What stays as it is in most steps.
SamePlace(s, r) == s.idx = r.idx /\ s.attempt = r.attempt

\* Steps that only go on to the next call.
LEMMA OnwardsNears ==
    ASSUME IInv, IInv', NEW w \in Workers,
           \/ StartRun(w) \/ LoadCheckpoints(w) \/ EnterStage(w)
           \/ StageCheckpoints(w) \/ StageSaves(w) \/ StageReturns(w) \/ AppendComplete(w)
           \/ RecordCheckpoint(w)
    PROVE  RunRank(run'[w]) < RunRank(run[w])
<1> DEFINE r == run[w]
           s == run'[w]
<1>1. run \in [Workers -> Run] /\ r \in Run /\ s \in Run
      /\ (r.pc \in StageCalls => r.idx \in Stages) /\ (s.pc \in StageCalls => s.idx \in Stages)
  BY StageInHand DEF IInv, TablesOK, RunsMatchStore, MatchesStore, StageCalls
<1>2. /\ SamePlace(s, r)
      /\ \/ r.pc = "claimed" /\ s.pc = "load"
         \/ r.pc = "load" /\ s.pc = "boundary"
         \/ r.pc = "boundary" /\ s.pc = "enter"
         \/ r.pc = "stage" /\ s.pc \in {"stageSave", "event"}
         \/ r.pc = "stageSave" /\ s.pc = "event"
         \/ r.pc = "event" /\ s.pc = "record"
         \/ r.pc = "record" /\ s.pc = "recordSave"
  <2>1. CASE StartRun(w)
    <3>0. r.pc = "claimed"
      BY <2>1 DEF StartRun
    <3>1. s = [r EXCEPT !.pc = "load"]
      BY <1>1, <2>1 DEF StartRun, Goto
    <3>2. s.pc = "load" /\ SamePlace(s, r)
      BY <1>1, <3>1 DEF SamePlace, Run
    <3>3. QED
      BY <3>0, <3>2
  <2>5. CASE LoadCheckpoints(w)
    BY <1>1, <2>5 DEF LoadCheckpoints, SamePlace, Run
  <2>2. CASE EnterStage(w)
    BY <1>1, <2>2 DEF EnterStage, Goto, SamePlace, Run
  <2>3. CASE StageCheckpoints(w) \/ StageSaves(w) \/ StageReturns(w)
    BY <1>1, <2>3 DEF StageCheckpoints, StageSaves, StageReturns, Goto, SamePlace, Run
  <2>4. CASE AppendComplete(w)
    <3>0. r.pc = "event"
      BY <2>4 DEF AppendComplete
    <3>1. s = [r EXCEPT !.pc = "record"]
      BY <1>1, <2>4 DEF AppendComplete, Goto
    <3>2. s.pc = "record" /\ SamePlace(s, r)
      BY <1>1, <3>1 DEF SamePlace, Run
    <3>3. QED
      BY <3>0, <3>2
  <2>6. CASE RecordCheckpoint(w)
    BY <1>1, <2>6 DEF RecordCheckpoint, Goto, SamePlace, Run
  <2>7. QED
    BY <2>1, <2>2, <2>3, <2>4, <2>5, <2>6
<1> HIDE DEF r, s
<1>3. StagesLeft(s) = StagesLeft(r) /\ TriesLeft(s) = TriesLeft(r)
  BY <1>2 DEF SamePlace, StagesLeft, TriesLeft
<1>4. RunRank(s) < RunRank(r)
  BY <1>1, <1>2, <1>3, RunRankAt, RunRankSizes
<1>5. QED
  BY <1>4 DEF r, s

\* The stage is entered with all its tries.
LEMMA SaveProgressNears ==
    ASSUME IInv, IInv', NEW w \in Workers, SaveProgress(w)
    PROVE  RunRank(run'[w]) < RunRank(run[w])
<1> DEFINE r == run[w]
           s == run'[w]
<1>1. run \in [Workers -> Run] /\ r \in Run /\ s \in Run
      /\ (r.pc \in StageCalls => r.idx \in Stages) /\ (s.pc \in StageCalls => s.idx \in Stages)
  BY StageInHand DEF IInv, TablesOK, RunsMatchStore, MatchesStore, StageCalls
<1>2. r.pc = "enter" /\ s.pc = "stage" /\ s.idx = r.idx
  BY <1>1 DEF SaveProgress, Run
<1> HIDE DEF r, s
<1>3. StagesLeft(s) = StagesLeft(r)
  BY <1>2 DEF StagesLeft
<1>4. RunRank(s) < RunRank(r)
  BY <1>1, <1>2, <1>3, RunRankAt, RunRankSizes
<1>5. QED
  BY <1>4 DEF r, s

\* A retry uses up one of the tries.
LEMMA RetryNears ==
    ASSUME IInv, IInv', NEW w \in Workers, RetryStage(w), ~run[w].seen
    PROVE  RunRank(run'[w]) < RunRank(run[w])
<1> DEFINE r == run[w]
           s == run'[w]
<1>1. run \in [Workers -> Run] /\ r \in Run /\ s \in Run
      /\ (r.pc \in StageCalls => r.idx \in Stages) /\ (s.pc \in StageCalls => s.idx \in Stages)
  BY StageInHand DEF IInv, TablesOK, RunsMatchStore, MatchesStore, StageCalls
<1>2. r.pc \in {"stage", "stageSave", "event"} /\ s.pc = "stage" /\ s.idx = r.idx
      /\ s.attempt = r.attempt + 1
  BY <1>1 DEF RetryStage, Raises, Run
<1> HIDE DEF r, s
<1>3. StagesLeft(s) = StagesLeft(r)
  BY <1>2 DEF StagesLeft
<1>4. TriesLeft(r) = TriesLeft(s) + 10
  BY <1>1, <1>2, SizesAssumption DEF TriesLeft, Run
<1>5. RunRank(s) < RunRank(r)
  BY <1>1, <1>2, <1>3, <1>4, RunRankAt, RunRankSizes
<1>6. QED
  BY <1>5 DEF r, s

\* The end of a stage leads to the next one.
LEMMA StageOverNears ==
    ASSUME IInv, IInv', NEW w \in Workers, SaveRecorded(w) \/ SkipStage(w)
    PROVE  RunRank(run'[w]) < RunRank(run[w])
<1> DEFINE r == run[w]
           s == run'[w]
<1>1. run \in [Workers -> Run] /\ r \in Run /\ s \in Run
      /\ (r.pc \in StageCalls => r.idx \in Stages) /\ (s.pc \in StageCalls => s.idx \in Stages)
  BY StageInHand DEF IInv, TablesOK, RunsMatchStore, MatchesStore, StageCalls
<1>2. r.pc \in {"recordSave", "boundary"} /\ s.pc = "boundary" /\ s.idx = r.idx + 1
  <2>1. CASE SaveRecorded(w)
    BY <1>1, <2>1 DEF SaveRecorded, Run
  <2>2. CASE SkipStage(w)
    BY <1>1, <2>2 DEF SkipStage, Run
  <2>3. QED
    BY <2>1, <2>2
<1> HIDE DEF r, s
<1>3. StagesLeft(r) = StagesLeft(s) + PerStage
  BY <1>1, <1>2, NextStage
<1>4. RunRank(s) < RunRank(r)
  BY <1>1, <1>2, <1>3, RunRankAt, RunRankSizes
<1>5. QED
  BY <1>4 DEF r, s

\* The second half of a claim on SQLite.
LEMMA ClaimWriteNears ==
    ASSUME IInv, IInv', NEW w \in Workers, ClaimWrite(w)
    PROVE  RunRank(run'[w]) < RunRank(run[w])
<1> DEFINE r == run[w]
           s == run'[w]
<1>1. run \in [Workers -> Run] /\ r \in Run /\ s \in Run
      /\ (r.pc \in StageCalls => r.idx \in Stages) /\ (s.pc \in StageCalls => s.idx \in Stages)
  BY StageInHand DEF IInv, TablesOK, RunsMatchStore, MatchesStore, StageCalls
<1>2. r.pc = "claiming" /\ s.pc = "claimed"
  BY <1>1 DEF ClaimWrite, Claimed
<1> HIDE DEF r, s
<1>3. RunRank(s) < RunRank(r)
  BY <1>1, <1>2, RunRankAt, RunRankSizes DEF MaxRunRank
<1>4. QED
  BY <1>3 DEF r, s

\* Landings, from wherever they are made.
LEMMA LandingNears ==
    ASSUME IInv, IInv', NEW w \in Workers,
           \/ BoundaryCancelled(w) \/ AllStagesDone(w) \/ (RetryStage(w) /\ run[w].seen)
           \/ FailStage(w) \/ ExhaustBudget(w) \/ StageSeesCancel(w) \/ SaveOutcome(w)
           \/ Fault(w)
    PROVE  RunRank(run'[w]) < RunRank(run[w])
<1> DEFINE r == run[w]
           s == run'[w]
<1>1. run \in [Workers -> Run] /\ r \in Run /\ s \in Run
      /\ (r.pc \in StageCalls => r.idx \in Stages) /\ (s.pc \in StageCalls => s.idx \in Stages)
  BY StageInHand DEF IInv, TablesOK, RunsMatchStore, MatchesStore, StageCalls
<1>2. \/ r.pc = "boundary" /\ s.pc = "commit"
      \/ r.pc \in EnginePC \ {"report"} /\ s.pc = "report"
      \/ r.pc # "idle" /\ s.pc = "idle"
  <2>0. CASE BoundaryCancelled(w)
    BY <1>1, <2>0 DEF BoundaryCancelled, Run
  <2>1. CASE AllStagesDone(w)
    BY <1>1, <2>1 DEF AllStagesDone, Land, Run
  <2>2. CASE \/ (RetryStage(w) /\ run[w].seen) \/ FailStage(w) \/ ExhaustBudget(w)
             \/ StageSeesCancel(w)
    BY <1>1, <2>2 DEF RetryStage, FailStage, Raises, ExhaustBudget, StageSeesCancel, Land, Run,
       EnginePC
  <2>3. CASE DbCallFails(w) \/ KillTask(w)
    BY <1>1, <2>3 DEF DbCallFails, KillTask, Land, Run, EnginePC
  <2>4. CASE SaveOutcome(w) \/ ReportLost(w) \/ Crash(w)
    BY <1>1, <2>4 DEF SaveOutcome, ReportLost, Crash, NoRun
  <2>5. QED
    BY <2>0, <2>1, <2>2, <2>3, <2>4 DEF Fault
<1> HIDE DEF r, s
<1>r. RunRank(r) \in Nat /\ RunRank(s) \in Nat /\ (RunRank(r) = 0 <=> r.pc = "idle")
  <2>1. RunRank(r) \in 0..MaxRunRank /\ (RunRank(r) = 0 <=> r.pc = "idle")
    BY <1>1, RunRankIsNat
  <2>2. RunRank(s) \in 0..MaxRunRank
    BY <1>1, RunRankIsNat
  <2>3. QED
    BY <2>1, <2>2
<1>3. r.pc # "idle" /\ s.pc = "idle" => RunRank(s) < RunRank(r)
  BY <1>1, <1>r, RunRankAt
<1>4. r.pc = "boundary" /\ s.pc = "commit" => RunRank(s) < RunRank(r)
  BY <1>1, RunRankAt, RunRankSizes
<1>5. r.pc \in EnginePC \ {"report"} /\ s.pc = "report" => RunRank(s) < RunRank(r)
  <2> SUFFICES ASSUME r.pc \in EnginePC \ {"report"}, s.pc = "report" PROVE RunRank(s) < RunRank(r)
    OBVIOUS
  <2>1. RunRank(s) = 1
    BY <1>1, RunRankAt
  <2>2. CASE r.pc \in StageCalls
    BY <1>1, <2>1, <2>2, RunRankAt, RunRankSizes DEF StageCalls
  <2>3. CASE r.pc \notin StageCalls
    BY <1>1, <2>1, <2>3, RunRankAt, RunRankSizes DEF StageCalls, EnginePC
  <2>4. QED
    BY <2>2, <2>3
<1>6. RunRank(s) < RunRank(r)
  BY <1>2, <1>3, <1>4, <1>5
<1>7. QED
  BY <1>6 DEF r, s

\* A beat of the heart or of the clock leads nowhere.
LEMMA NoNearer ==
    ASSUME IInv, IInv', NEW w \in Workers, Renew(w) \/ Tick
    PROVE  RunRank(run'[w]) = RunRank(run[w])
<1> DEFINE r == run[w]
           s == run'[w]
<1>1. run \in [Workers -> Run] /\ r \in Run
  BY StageInHand
<1>2. s.pc = r.pc /\ s.idx = r.idx /\ s.attempt = r.attempt
  <2>1. CASE Renew(w)
    BY <1>1, <2>1 DEF Renew, Run
  <2>2. CASE Tick
    <3>1. s = [run[w] EXCEPT !.lease = Less(@),
                     !.hb = IF InEngine(w) /\ @ < HeartbeatEvery THEN @ + 1 ELSE @]
      BY <1>1, <2>2 DEF Tick
    <3>2. QED
      BY <1>1, <3>1 DEF Run
  <2>3. QED
    BY <2>1, <2>2
<1>3. QED
  BY <1>2 DEF RunRank, StagesLeft, InStageRank, TriesLeft, Ahead

\* A step of one worker or of a client is none of another worker's.
LEMMA OthersStay ==
    ASSUME IInv, NEW w \in Workers, NEW v \in Workers, v # w,
           EngineStep(v) \/ Poll(v) \/ Renew(v) \/ Fault(v)
    PROVE  run'[w] = run[w]
<1>a. run \in [Workers -> Run]
  BY DEF IInv, TablesOK
<1>1. CASE Renew(v) \/ Poll(v)
  BY <1>1, <1>a DEF Renew, Poll, Claim, ClaimRead
<1>2. CASE Fault(v)
  BY <1>2, <1>a DEF Fault, DbCallFails, ReportLost, KillTask, Crash, Land
<1>3. CASE \/ ClaimWrite(v) \/ StartRun(v) \/ LoadCheckpoints(v) \/ BoundaryCancelled(v)
           \/ SkipStage(v) \/ EnterStage(v) \/ AllStagesDone(v) \/ SaveProgress(v)
  BY <1>3, <1>a DEF ClaimWrite, StartRun, LoadCheckpoints, BoundaryCancelled, SkipStage, EnterStage,
     AllStagesDone, SaveProgress, Goto, Land
<1>4. CASE \/ StageCheckpoints(v) \/ StageSaves(v) \/ StageReturns(v) \/ AppendComplete(v)
           \/ RetryStage(v) \/ FailStage(v) \/ ExhaustBudget(v) \/ StageSeesCancel(v)
           \/ RecordCheckpoint(v) \/ SaveRecorded(v) \/ SaveOutcome(v)
  BY <1>4, <1>a DEF StageCheckpoints, StageSaves, StageReturns, AppendComplete, RetryStage,
     FailStage, ExhaustBudget, StageSeesCancel, RecordCheckpoint, SaveRecorded, SaveOutcome,
     Goto, Land
<1>5. QED
  BY <1>1, <1>2, <1>3, <1>4 DEF EngineStep

\* A worker's own steps bring the run in hand nearer to its end; nothing sets it
\* back.
OnlyOnwards ==
    \A w \in Workers :
        /\ EngineStep(w) \/ Fault(w) => RunRank(run'[w]) < RunRank(run[w])
        /\ run[w].pc # "idle" => RunRank(run'[w]) <= RunRank(run[w])

\* Every step of a worker on its job, failures included, lowers the measure of
\* its run, and no other worker, heartbeat, client or passing of time raises it
\* (the loop over the stages and _execute_with_retry of JobEngine).
THEOREM RunsShrink == Spec => [][OnlyOnwards]_vars
<1>1. IInv /\ IInv' /\ [Next]_vars => [OnlyOnwards]_vars
  <2> SUFFICES ASSUME IInv, IInv', Next, NEW w \in Workers
               PROVE  /\ EngineStep(w) \/ Fault(w) => RunRank(run'[w]) < RunRank(run[w])
                      /\ run[w].pc # "idle" => RunRank(run'[w]) <= RunRank(run[w])
    BY DEF OnlyOnwards
  <2>1. EngineStep(w) \/ Fault(w) => RunRank(run'[w]) < RunRank(run[w])
    <3>1. CASE Fault(w)
      BY <3>1, LandingNears
    <3>2. CASE RetryStage(w)
      BY <3>2, LandingNears, RetryNears
    <3>3. CASE EngineStep(w) /\ ~RetryStage(w)
      <4>1. CASE \/ StartRun(w) \/ LoadCheckpoints(w) \/ EnterStage(w)
                 \/ StageCheckpoints(w) \/ StageSaves(w) \/ StageReturns(w) \/ AppendComplete(w)
                 \/ RecordCheckpoint(w)
        BY <4>1, OnwardsNears
      <4>2. CASE \/ BoundaryCancelled(w) \/ AllStagesDone(w) \/ FailStage(w) \/ ExhaustBudget(w)
                 \/ StageSeesCancel(w) \/ SaveOutcome(w)
        <5>1. \/ BoundaryCancelled(w) \/ AllStagesDone(w) \/ (RetryStage(w) /\ run[w].seen)
              \/ FailStage(w) \/ ExhaustBudget(w) \/ StageSeesCancel(w) \/ SaveOutcome(w)
              \/ Fault(w)
          BY <4>2, Zenon
        <5>2. QED
          BY <5>1, LandingNears, Zenon
      <4>3. CASE SaveProgress(w) \/ SaveRecorded(w) \/ SkipStage(w) \/ ClaimWrite(w)
        BY <4>3, SaveProgressNears, StageOverNears, ClaimWriteNears
      <4>4. QED
        BY <3>3, <4>1, <4>2, <4>3 DEF EngineStep
    <3>4. QED
      BY <3>1, <3>2, <3>3
  <2>2. RunRank(run[w]) \in Nat /\ RunRank(run'[w]) \in Nat
    <3>1. RunRank(run[w]) \in 0..MaxRunRank
      BY StageInHand, RunRankIsNat
    <3>2. run'[w] \in Run /\ (run'[w].pc \in StageCalls => run'[w].idx \in Stages)
      BY DEF IInv, TablesOK, RunsMatchStore, MatchesStore, StageCalls
    <3>3. RunRank(run'[w]) \in 0..MaxRunRank
      BY <3>2, RunRankIsNat
    <3>4. QED
      BY <3>1, <3>3
  <2>3. ASSUME run[w].pc # "idle" PROVE RunRank(run'[w]) <= RunRank(run[w])
    <3>1. CASE (\E j \in Jobs : Submit(j)) \/ (\E c \in Clients : Client(c))
      <4>1. run' = run
        BY <3>1 DEF Client, Submit, ReadRow, RequestCancel, ResumeJob, RunInline
      <4>2. QED
        BY <2>2, <4>1
    <3>2. CASE Tick
      BY <2>2, <3>2, NoNearer
    <3>3. CASE \E v \in Workers : EngineStep(v) \/ Poll(v) \/ Renew(v) \/ Fault(v)
      <4>1. PICK v \in Workers : EngineStep(v) \/ Poll(v) \/ Renew(v) \/ Fault(v)
        BY <3>3
      <4>2. CASE v # w
        BY <2>2, <4>1, <4>2, OthersStay
      <4>3. CASE v = w
        <5>1. ~Poll(w)
          BY <2>3 DEF Poll, Claim, ClaimRead
        <5>2. QED
          BY <2>1, <2>2, <4>1, <4>3, <5>1, NoNearer
      <4>4. QED
        BY <4>2, <4>3
    <3>4. QED
      BY <3>1, <3>2, <3>3 DEF Next
  <2>4. QED
    BY <2>1, <2>3
<1>2. QED
  BY <1>1, Invariance, PTL DEF Spec

\* The end of a run is at most MaxRunRank steps of its worker away.
RunsAreShort ==
    \A w \in Workers : /\ RunRank(run[w]) \in 0..MaxRunRank
                       /\ RunRank(run[w]) = 0 <=> run[w].pc = "idle"

\* A run has a bounded number of steps, and an exhausted one is over.
THEOREM RunsBounded == Spec => []RunsAreShort
<1>1. IInv => RunsAreShort
  BY StageInHand, RunRankIsNat DEF RunsAreShort
<1>2. QED
  BY <1>1, Invariance, PTL

-----------------------------------------------------------------------------
(* A run decides for success only if nobody asked for the job's cancellation. *)

Decides(w) == run[w].to # "succeeded" /\ run'[w].to = "succeeded"

\* Unless the read of the flag fails, no engine turns to success once a cancel
\* request is on the row, or in its own copy.
UncancelledSuccess ==
    \A w \in Workers :
        Decides(w) => \/ ~rows[run[w].job].cancel /\ ~run[w].seen /\ ckpts[run[w].job] = Stages
                      \/ ~run[w].seen /\ faults' = faults + 1

\* A request recorded before an engine's last look at the flag is honoured by
\* every engine that holds the job, thieves of its lease included: CancelLands
\* without its fairness (StageContext.refresh_cancellation).
THEOREM SuccessIsUncancelled == Spec => [][UncancelledSuccess]_vars
<1>1. IInv /\ IInv' /\ [Next]_vars => [UncancelledSuccess]_vars
  <2> SUFFICES ASSUME IInv, IInv', Next, NEW w \in Workers, Decides(w)
               PROVE  \/ ~rows[run[w].job].cancel /\ ~run[w].seen /\ ckpts[run[w].job] = Stages
                      \/ ~run[w].seen /\ faults' = faults + 1
    BY DEF UncancelledSuccess
  <2>1. run \in [Workers -> Run] /\ run[w] \in Run /\ MatchesStore(run[w], ckpts)
    BY StageInHand DEF IInv, RunsMatchStore
  <2>2. run'[w] # run[w]
    BY DEF Decides
  <2>3. ASSUME EngineStep(w) PROVE AllStagesDone(w)
    <3>0. ~ClaimWrite(w)
      BY <2>1 DEF Decides, ClaimWrite, Claimed
    <3>1. ~LoadCheckpoints(w)
      BY <2>1 DEF Decides, LoadCheckpoints, Run
    <3>5. ~BoundaryCancelled(w)
      <4>1. BoundaryCancelled(w) =>
              run' = [run EXCEPT ![w].pc = "commit", ![w].to = "cancelled", ![w].seen = TRUE]
        BY Zenon DEF BoundaryCancelled, Goto
      <4>2. QED
        BY <2>1, <4>1 DEF Decides, Run
    <3>6. ~StartRun(w)
      BY <2>1 DEF Decides, StartRun, Goto, Run
    <3>7. ~SkipStage(w)
      <4>1. SkipStage(w) => run' = [run EXCEPT ![w].idx = @ + 1]
        BY Zenon DEF SkipStage, Goto
      <4>2. QED
        BY <2>1, <4>1 DEF Decides, Run
    <3>8. ~EnterStage(w)
      <4>1. EnterStage(w) => run' = [run EXCEPT ![w].pc = "enter"]
        BY Zenon DEF EnterStage, Goto
      <4>2. QED
        BY <2>1, <4>1 DEF Decides, Run
    <3>9. ~SaveProgress(w)
      BY <2>1 DEF Decides, SaveProgress, Run
    <3>2. CASE \/ StageCheckpoints(w) \/ StageSaves(w) \/ StageReturns(w) \/ AppendComplete(w)
               \/ RecordCheckpoint(w) \/ SaveRecorded(w) \/ SaveOutcome(w)
      BY <2>1, <3>2 DEF Decides, StageCheckpoints, StageSaves, StageReturns, AppendComplete,
         RecordCheckpoint, SaveRecorded, SaveOutcome, NoRun, Goto, Run
    <3>3. CASE RetryStage(w) \/ FailStage(w) \/ ExhaustBudget(w) \/ StageSeesCancel(w)
      BY <2>1, <3>3 DEF Decides, RetryStage, FailStage, ExhaustBudget, StageSeesCancel, Land, Run
    <3>4. QED
      BY <2>3, <3>0, <3>1, <3>2, <3>3, <3>5, <3>6, <3>7, <3>8, <3>9 DEF EngineStep
  <2>4. ~Poll(w)
    BY <2>1 DEF Decides, Poll, Claim, Claimed, ClaimRead, Reading
  <2>5. ~Fault(w)
    BY <2>1 DEF Decides, Fault, DbCallFails, ReportLost, KillTask, Crash, Land, NoRun, Run
  <2>6. ~Renew(w)
    BY <2>1 DEF Decides, Renew, Run
  <2>7. ~Tick
    <3>1. Tick => run'[w] = [run[w] EXCEPT !.lease = Less(@),
                               !.hb = IF InEngine(w) /\ @ < HeartbeatEvery THEN @ + 1 ELSE @]
      BY <2>1 DEF Tick
    <3>2. Tick => run'[w].to = run[w].to
      BY <2>1, <3>1 DEF Run
    <3>3. QED
      BY <3>2 DEF Decides
  <2>8. ~(\E j \in Jobs : Submit(j)) /\ ~(\E c \in Clients : Client(c))
    BY <2>2 DEF Client, Submit, ReadRow, RequestCancel, ResumeJob, RunInline
  <2>9. AllStagesDone(w)
    BY <2>2, <2>3, <2>4, <2>5, <2>6, <2>7, <2>8, OthersStay DEF Next
  <2>10. run[w].pc = "boundary" /\ run[w].idx = NumStages + 1 /\ Refresh(w, FALSE)
    BY <2>9 DEF AllStagesDone
  <2>11. ckpts[run[w].job] = Stages
    <3>1. 1..(run[w].idx - 1) \subseteq ckpts[run[w].job] /\ run[w].job \in Jobs
      BY <2>1, <2>10 DEF MatchesStore, EnginePC
    <3>2. run[w].idx - 1 = NumStages
      BY <2>10, SizesAssumption
    <3>3. ckpts[run[w].job] \subseteq Stages
      BY <3>1 DEF IInv, TablesOK
    <3>4. QED
      BY <3>1, <3>2, <3>3 DEF Stages
  <2>12. run[w].seen \in BOOLEAN /\ rows[run[w].job].cancel \in BOOLEAN
    <3>1. run[w].job \in Jobs
      BY <2>1, <2>10 DEF MatchesStore, EnginePC
    <3>2. QED
      BY <2>1, <3>1 DEF IInv, TablesOK, Run, Row
  <2>13. \/ ~rows[run[w].job].cancel /\ ~run[w].seen
         \/ ~run[w].seen /\ faults' = faults + 1
    BY <2>10, <2>12, Zenon DEF Refresh, SpendFault
  <2>14. QED
    BY <2>11, <2>13, Zenon
<1>2. QED
  BY <1>1, Invariance, PTL DEF Spec

=============================================================================
