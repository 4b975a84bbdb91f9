---------------------------- MODULE JobContract ----------------------------
(***************************************************************************)
(* What a client of the durable job runtime may rely on, whoever runs the  *)
(* job: stages complete in order and stay complete, success is reported    *)
(* for a job whose stages are all complete, and a cancel request, once     *)
(* recorded, is not forgotten.  Leases, workers, copies and failures do    *)
(* not appear.  The state machine of state.py does not appear either: the  *)
(* control plane does not follow it, so a client cannot rely on it.        *)
(***************************************************************************)
EXTENDS Naturals

CONSTANTS ContractJobs,    \* the jobs there may be
          ContractStages,  \* how many stages a job has
          ContractStates   \* the states a job may be reported in

VARIABLES state,     \* the state reported for each job, "absent" before submission
          complete,  \* the stages of each job that are complete
          cancelled  \* whether a cancel request is recorded

contractVars == <<state, complete, cancelled>>

AllStages == 1..ContractStages

ContractInit == /\ state = [j \in ContractJobs |-> "absent"]
                /\ complete = [j \in ContractJobs |-> {}]
                /\ cancelled = [j \in ContractJobs |-> FALSE]

Accept(j) ==
    /\ state[j] = "absent"
    /\ state' = [state EXCEPT ![j] = "queued"]
    /\ UNCHANGED <<complete, cancelled>>

\* A stage completes only after the stages before it.
CompleteStage(j, s) ==
    /\ 1..(s - 1) \subseteq complete[j]
    /\ complete' = [complete EXCEPT ![j] = @ \cup {s}]
    /\ UNCHANGED <<state, cancelled>>

\* The job is reported in another state, with or without a cancel request.
Report(j, to) ==
    /\ to = "succeeded" => complete[j] = AllStages
    /\ state' = [state EXCEPT ![j] = to]
    /\ \E c \in BOOLEAN : cancelled' = [cancelled EXCEPT ![j] = @ \/ c]
    /\ UNCHANGED complete

\* The job is run at once, up to stage n, and reported.
RunAtOnce(j, n, to) ==
    /\ to = "succeeded" => n = ContractStages
    /\ complete' = [complete EXCEPT ![j] = @ \cup 1..n]
    /\ state' = [state EXCEPT ![j] = to]
    /\ UNCHANGED cancelled

ContractNext ==
    \E j \in ContractJobs :
        \/ Accept(j)
        \/ \E s \in AllStages : CompleteStage(j, s)
        \/ \E to \in ContractStates : Report(j, to)
        \/ \E n \in 0..ContractStages, to \in ContractStates : RunAtOnce(j, n, to)

ContractSpec == ContractInit /\ [][ContractNext]_contractVars

=============================================================================
