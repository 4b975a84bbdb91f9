------------------------- MODULE JobContractProofs -------------------------
(***************************************************************************)
(* DurableJobs implements JobContract: every step of a worker, of the      *)
(* clock or of a client is a step of the contract or leaves what a client  *)
(* can see as it is.  The inductive invariant of DurableJobsProofs is what *)
(* rules out the steps the contract does not have.                         *)
(***************************************************************************)
EXTENDS DurableJobsProofs

USE DEF Contract!AllStages

\* A step that leaves the visible columns and the checkpoints alone is a stutter.
LEMMA Invisible ==
    ASSUME \A j \in Jobs : rows'[j].state = rows[j].state /\ rows'[j].cancel = rows[j].cancel,
           UNCHANGED ckpts
    PROVE  UNCHANGED Contract!contractVars
BY DEF Contract!contractVars

\* A row written with a new state and the cancel flag kept or set is a report.
LEMMA WriteIsReport ==
    ASSUME IInv, NEW j \in Jobs, NEW to \in JobState, NEW owner, NEW lease, NEW c \in BOOLEAN,
           rows' = [rows EXCEPT ![j] = [state |-> to, owner |-> owner, lease |-> lease,
                                        cancel |-> rows[j].cancel \/ c]],
           to = "succeeded" => ckpts[j] = Stages,
           UNCHANGED ckpts
    PROVE  Contract!ContractNext
<1>1. rows \in [Jobs -> Row]
  BY DEF IInv, TablesOK
<1>2. [i \in Jobs |-> rows'[i].state] = [[i \in Jobs |-> rows[i].state] EXCEPT ![j] = to]
  BY <1>1
<1>3. [i \in Jobs |-> rows'[i].cancel]
        = [[i \in Jobs |-> rows[i].cancel] EXCEPT ![j] = @ \/ c]
  BY <1>1
<1>4. Contract!Report(j, to)
  BY <1>2, <1>3 DEF Contract!Report, Stages
<1>5. QED
  BY <1>4 DEF Contract!ContractNext

\* A save of an engine's copy is a report.
LEMMA SaveIsReport ==
    ASSUME IInv, NEW w \in Workers, NEW to \in JobState, InEngine(w), SaveCopy(w, to),
           to = "succeeded" => ckpts[run[w].job] = Stages,
           UNCHANGED ckpts
    PROVE  Contract!ContractNext
<1>1. run[w].job \in Jobs /\ run[w].seen \in BOOLEAN
  BY RunFacts DEF InEngine, EnginePC, MatchesStore, Run
<1>2. QED
  BY <1>1, WriteIsReport DEF SaveCopy, Save

\* A claim is a report, or, of a row already leased, invisible.
LEMMA ClaimIsReport ==
    ASSUME IInv, NEW w \in Workers, NEW j \in Jobs, NEW to, LeaseTo(w, j, to),
           to \in {"leased", rows[j].state}, UNCHANGED ckpts
    PROVE  Contract!ContractNext \/ UNCHANGED Contract!contractVars
<1>1. rows \in [Jobs -> Row] /\ rows[j].cancel \in BOOLEAN
  BY DEF IInv, TablesOK, Row
<1>2. CASE to = "leased"
  <2>1. rows[j].cancel = (rows[j].cancel \/ FALSE)
    BY <1>1
  <2>2. QED
    BY <1>2, <2>1, WriteIsReport DEF LeaseTo, JobState
<1>3. CASE to = rows[j].state
  BY <1>1, <1>3, Invisible DEF LeaseTo
<1>4. QED
  BY <1>2, <1>3

\* A checkpoint completes the stage after those the engine has passed over.
LEMMA CheckpointCompletes ==
    ASSUME IInv, NEW w \in Workers, run[w].pc \in {"stage", "record"},
           ckpts' = [ckpts EXCEPT ![run[w].job] = @ \cup {run[w].idx}], UNCHANGED rows
    PROVE  Contract!ContractNext
<1>1. run[w].job \in Jobs /\ run[w].idx \in Stages /\ 1..(run[w].idx - 1) \subseteq ckpts[run[w].job]
  BY RunFacts DEF EnginePC, MatchesStore
<1>2. Contract!CompleteStage(run[w].job, run[w].idx)
  BY <1>1 DEF Contract!CompleteStage
<1>3. QED
  BY <1>1, <1>2 DEF Contract!ContractNext, Stages

-----------------------------------------------------------------------------

\* A worker's own step.
LEMMA EngineStepKeeps ==
    ASSUME IInv, NEW w \in Workers, EngineStep(w)
    PROVE  Contract!ContractNext \/ UNCHANGED Contract!contractVars
<1>1. CASE UNCHANGED <<rows, ckpts>>
  BY <1>1, Invisible
<1>2. CASE ClaimWrite(w)
  <2>1. run[w].job \in Jobs
    BY <1>2, RunFacts DEF ClaimWrite, MatchesStore
  <2>2. QED
    BY <1>2, <2>1, ClaimIsReport DEF ClaimWrite
<1>3. CASE StartRun(w) \/ SaveProgress(w) \/ StageSaves(w) \/ SaveRecorded(w)
  <2>1. InEngine(w) /\ SaveCopy(w, "running") /\ UNCHANGED ckpts
    BY <1>3 DEF StartRun, SaveProgress, StageSaves, SaveRecorded, InEngine, EnginePC
  <2>2. "running" \in JobState
    BY DEF JobState
  <2>3. QED
    BY <2>1, <2>2, SaveIsReport
<1>4. CASE SaveOutcome(w)
  <2>1. /\ InEngine(w) /\ run[w].to \in JobState
        /\ run[w].to = "succeeded" => ckpts[run[w].job] = Stages
    BY <1>4, RunFacts DEF SaveOutcome, InEngine, EnginePC, MatchesStore
  <2>2. QED
    BY <1>4, <2>1, SaveIsReport DEF SaveOutcome
<1>5. CASE StageCheckpoints(w) \/ RecordCheckpoint(w)
  BY <1>5, CheckpointCompletes DEF StageCheckpoints, RecordCheckpoint
<1>6. QED
  BY <1>1, <1>2, <1>3, <1>4, <1>5
  DEF EngineStep, LoadCheckpoints, BoundaryCancelled, SkipStage, EnterStage, AllStagesDone,
      StageReturns, AppendComplete, RetryStage, FailStage, ExhaustBudget, StageSeesCancel

\* Heartbeats and the clock are invisible: they move leases.
LEMMA TimeKeeps ==
    ASSUME IInv, Tick \/ (\E w \in Workers : Renew(w))
    PROVE  UNCHANGED Contract!contractVars
<1>1. rows \in [Jobs -> Row]
  BY DEF IInv, TablesOK
<1>2. \A j \in Jobs : rows'[j].state = rows[j].state /\ rows'[j].cancel = rows[j].cancel
  <2>1. CASE Tick
    BY <1>1, <2>1 DEF Tick, Row
  <2>2. ASSUME NEW w \in Workers, Renew(w), NEW j \in Jobs
        PROVE  rows'[j].state = rows[j].state /\ rows'[j].cancel = rows[j].cancel
    <3>1. CASE UNCHANGED rows
      BY <3>1
    <3>2. CASE rows' = [rows EXCEPT ![run[w].job].lease = LeaseLen]
      BY <1>1, <3>2 DEF Row
    <3>3. QED
      BY <2>2, <3>1, <3>2 DEF Renew
  <2>3. QED
    BY <2>1, <2>2
<1>3. UNCHANGED ckpts
  BY DEF Tick, Renew
<1>4. QED
  BY <1>2, <1>3, Invisible

\* A new row is accepted.
LEMMA SubmitKeeps ==
    ASSUME IInv, NEW j \in Jobs, Submit(j)
    PROVE  Contract!ContractNext
<1>1. rows \in [Jobs -> Row]
  BY DEF IInv, TablesOK
<1>2. /\ [i \in Jobs |-> rows'[i].state]
           = [[i \in Jobs |-> rows[i].state] EXCEPT ![j] = "queued"]
      /\ [i \in Jobs |-> rows'[i].cancel] = [i \in Jobs |-> rows[i].cancel]
  BY <1>1 DEF Submit, Row
<1>3. Contract!Accept(j)
  BY <1>2 DEF Submit, Contract!Accept
<1>4. QED
  BY <1>3 DEF Contract!ContractNext

\* A client's call: its read is invisible, its save a report or a run.
LEMMA ClientKeeps ==
    ASSUME IInv, CallsOK, DraftsOK, NEW c \in Clients, Client(c)
    PROVE  Contract!ContractNext \/ UNCHANGED Contract!contractVars
<1> DEFINE j == calls[c].job
<1>1. CASE \E kind \in ControlPlane, i \in Jobs : ReadRow(c, kind, i)
  BY <1>1, Invisible DEF ReadRow
<1>2. ASSUME calls[c].kind # "none" PROVE j \in Jobs /\ calls[c].state \in JobState
  BY <1>2, CallFacts
<1> HIDE DEF j
<1>3. CASE RequestCancel(c) \/ ResumeJob(c)
  <2>1. calls[c].kind \in {"cancel", "resume"} /\ Return(c, calls[c].state) /\ UNCHANGED ckpts
    BY <1>3 DEF RequestCancel, ResumeJob
  <2>2. calls[c].state # "succeeded" /\ (calls[c].kind = "cancel") \in BOOLEAN
    BY <2>1 DEF DraftsOK
  <2>3. QED
    BY <1>2, <2>1, <2>2, WriteIsReport DEF Return, Save, j
<1>4. CASE RunInline(c)
  <2>1. PICK to \in JobState, n \in 0..NumStages :
           /\ to = "succeeded" => n = NumStages
           /\ Return(c, to)
           /\ ckpts' = [ckpts EXCEPT ![j] = @ \cup 1..n]
    BY <1>4 DEF RunInline, InlineOutcome, j
  <2>2. calls[c].kind = "run" /\ j \in Jobs /\ rows \in [Jobs -> Row]
    BY <1>2, <1>4 DEF RunInline, IInv, TablesOK
  <2>3. rows[j].cancel \in BOOLEAN
    BY <2>2 DEF Row
  <2>4. rows' = [rows EXCEPT ![j] = [state |-> to, owner |-> calls[c].owner,
                                      lease |-> calls[c].lease, cancel |-> rows[j].cancel]]
    BY <2>1, <2>2, <2>3 DEF Return, Save, j
  <2>5. [i \in Jobs |-> rows'[i].state] = [[i \in Jobs |-> rows[i].state] EXCEPT ![j] = to]
    BY <2>2, <2>4
  <2>6. [i \in Jobs |-> rows'[i].cancel] = [i \in Jobs |-> rows[i].cancel]
    BY <2>2, <2>4
  <2>7. Contract!RunAtOnce(j, n, to)
    BY <2>1, <2>5, <2>6 DEF Contract!RunAtOnce
  <2>8. QED
    BY <2>2, <2>7 DEF Contract!ContractNext
<1>5. QED
  BY <1>1, <1>3, <1>4 DEF Client

\* The runtime keeps the contract: whatever workers, clocks, failures and clients
\* do, a client sees stages complete in order, success only of complete jobs and
\* no cancel request forgotten (JobEngine.run, JobRepository.save).
THEOREM RuntimeKeepsContract == Spec => KeepsContract
<1>1. Init => Contract!ContractInit
  BY DEF Init, NoRow, Contract!ContractInit
<1>2. IInv /\ CallsOK /\ DraftsOK /\ [Next]_vars => [Contract!ContractNext]_(Contract!contractVars)
  <2> SUFFICES ASSUME IInv, CallsOK, DraftsOK, [Next]_vars
               PROVE  Contract!ContractNext \/ UNCHANGED Contract!contractVars
    OBVIOUS
  <2>1. ASSUME NEW w \in Workers, EngineStep(w)
        PROVE  Contract!ContractNext \/ UNCHANGED Contract!contractVars
    BY <2>1, EngineStepKeeps
  <2>2. ASSUME NEW w \in Workers, Poll(w)
        PROVE  Contract!ContractNext \/ UNCHANGED Contract!contractVars
    <3>1. ASSUME NEW j \in Jobs, Claim(w, j)
          PROVE  Contract!ContractNext \/ UNCHANGED Contract!contractVars
      BY <3>1, ClaimIsReport DEF Claim
    <3>2. ASSUME NEW j \in Jobs, ClaimRead(w, j)
          PROVE  UNCHANGED Contract!contractVars
      BY <3>2, Invisible DEF ClaimRead
    <3>3. QED
      BY <2>2, <3>1, <3>2 DEF Poll
  <2>3. ASSUME NEW w \in Workers, Fault(w)
        PROVE  UNCHANGED Contract!contractVars
    BY <2>3, Invisible DEF Fault, DbCallFails, ReportLost, KillTask, Crash
  <2>4. CASE Tick \/ (\E w \in Workers : Renew(w))
    BY <2>4, TimeKeeps
  <2>5. ASSUME NEW c \in Clients, Client(c)
        PROVE  Contract!ContractNext \/ UNCHANGED Contract!contractVars
    BY <2>5, ClientKeeps
  <2>8. ASSUME NEW j \in Jobs, Submit(j)
        PROVE  Contract!ContractNext
    BY <2>8, SubmitKeeps
  <2>6. CASE UNCHANGED vars
    BY <2>6, Invisible DEF vars
  <2>7. QED
    BY <2>1, <2>2, <2>3, <2>4, <2>5, <2>6, <2>8 DEF Next
<1>3. QED
  BY <1>1, <1>2, Invariance, PTL DEF Spec, KeepsContract, Contract!ContractSpec

=============================================================================
