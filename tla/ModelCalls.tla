----------------------------- MODULE ModelCalls -----------------------------
(***************************************************************************)
(* Paid model calls: what one execution of the pipeline stage of a job     *)
(* asks of the provider, and what stands between it and paying twice.      *)
(*                                                                         *)
(* The generator (Generator.generate_for_plan) visits chunks round robin   *)
(* until it has the candidates of its spec, asking again when a reply does *)
(* not validate; then each candidate may be judged.  Every request goes    *)
(* through ModelGateway.generate or .judge: budget check, in-memory cache, *)
(* for generate the model_calls ledger, the provider, accounting, ledger   *)
(* row, cache.  A gateway lives as long as one stage attempt: an attempt   *)
(* that pauses, fails or crashes loses cache and budget counters, keeps    *)
(* the ledger and the artifact store, and the job may be started again.    *)
(*                                                                         *)
(* A request stands for its fingerprint.  The fingerprint has no seed in   *)
(* it and _generate_one sends the same messages on every repair, so all    *)
(* requests for one chunk, and all judgements of its candidate, are one.   *)
(***************************************************************************)
EXTENDS Naturals, FiniteSets

CONSTANTS
    Runners,        \* executions of the stage that may overlap (lease theft)
    NumChunks,
    PerSpec,        \* AssignmentSpec.per_chunk: candidates the spec wants
    MaxVisits,      \* Generator max_chunks_per_spec
    MaxRepairs,     \* Generator max_repair_attempts
    ProviderCap,    \* max_provider_calls_per_run, 0 for none
    BudgetWired,    \* TRUE: the gateway was given a BudgetState
    MaxSpend,       \* BudgetState.maximum_cost_usd
    MaxCost,        \* a call costs 1..MaxCost
    LedgerWired,    \* TRUE: the gateway was given a model_call_repo
    Judging,        \* TRUE: candidates are judged through the same gateway
    MaxStarts,      \* bound on stage attempts
    MaxFaults       \* bound on crashes, timeouts and suppressed failures

ASSUME ModelCallsSizes ==
    /\ NumChunks \in Nat \ {0} /\ PerSpec \in Nat /\ MaxVisits \in Nat
    /\ MaxRepairs \in Nat /\ ProviderCap \in Nat /\ MaxSpend \in Nat
    /\ MaxCost \in Nat \ {0} /\ MaxStarts \in Nat /\ MaxFaults \in Nat

ASSUME RunnersFinite == IsFiniteSet(Runners)

ASSUME ModelCallsModes ==
    BudgetWired \in BOOLEAN /\ LedgerWired \in BOOLEAN /\ Judging \in BOOLEAN

VARIABLES
    committed,  \* the stage is durably complete
    run,        \* each runner's stage attempt
    ledger,     \* model_calls: the result payloads recorded for a request
    stored,     \* requests whose response is in the artifact store
    paid,       \* how often the provider charged for a request
    starts,     \* stage attempts so far
    faults      \* failures so far

vars == <<committed, run, ledger, stored, paid, starts, faults>>

Chunks == 1..NumChunks
Requests == [kind : {"generate", "judge"}, chunk : Chunks]
Replies == {"valid", "invalid"}      \* as validate_generation_output finds it
VisitLimit == NumChunks * MaxVisits

PC == {"idle", "pick", "check", "lookup", "call", "answered", "record", "put",
       "reply", "judge"}

Attempt ==
    [pc : PC,
     made : 0..PerSpec,               \* candidates emitted
     visits : 0..VisitLimit,          \* `guard` in generate_for_plan
     tries : 0..MaxRepairs,           \* `attempt` in _generate_one
     calls : 0..ProviderCap,          \* abuse._PROVIDER_CALLS
     spent : 0..(MaxSpend + MaxCost), \* BudgetState.spent_cost_usd
     sources : SUBSET Chunks,         \* chunks that gave a candidate
     judged : SUBSET Chunks,
     req : Requests,                  \* the request in hand
     answer : Replies,                \* the answer in hand
     asked : 0..(MaxRepairs + 1),     \* provider calls made for this visit
     mem : [Requests -> Replies \cup {"none"}]]   \* CallCache._mem

NoAttempt ==
    [pc |-> "idle", made |-> 0, visits |-> 0, tries |-> 0, calls |-> 0, spent |-> 0,
     sources |-> {}, judged |-> {}, req |-> [kind |-> "generate", chunk |-> 1],
     answer |-> "invalid", asked |-> 0, mem |-> [r \in Requests |-> "none"]]

Init == /\ committed = FALSE
        /\ run = [p \in Runners |-> NoAttempt]
        /\ ledger = [r \in Requests |-> {}]
        /\ stored = {}
        /\ paid = [r \in Requests |-> 0]
        /\ starts = 0
        /\ faults = 0

Generating(p) == run[p].req.kind = "generate"

Goto(p, pc) == run' = [run EXCEPT ![p].pc = pc]

Durable == <<ledger, stored, paid>>

SpendFault == faults < MaxFaults /\ faults' = faults + 1

\* The stage attempt is over: the gateway goes with it.
Abandon(p) == run' = [run EXCEPT ![p] = NoAttempt]

-----------------------------------------------------------------------------
(* The generator. *)

\* The engine, for the first time, after a pause, a failure or a crash.
Start(p) ==
    /\ run[p].pc = "idle" /\ ~committed /\ starts < MaxStarts
    /\ starts' = starts + 1
    /\ Goto(p, "pick")
    /\ UNCHANGED <<committed, Durable, faults>>

Wanting(p) == run[p].made < PerSpec /\ run[p].visits < VisitLimit

\* The guard counter of the loop moves on every visit.
Visit(p) ==
    /\ run[p].pc = "pick" /\ Wanting(p)
    /\ run' = [run EXCEPT ![p].pc = "check", ![p].visits = @ + 1, ![p].tries = 0,
                          ![p].asked = 0,
                          ![p].req = [kind |-> "generate",
                                      chunk |-> (run[p].visits % NumChunks) + 1]]
    /\ UNCHANGED <<committed, Durable, starts, faults>>

GenerationDone(p) ==
    /\ run[p].pc = "pick" /\ ~Wanting(p)
    /\ Goto(p, "judge")
    /\ UNCHANGED <<committed, Durable, starts, faults>>

\* A reply that validates is a candidate.
Emit(p) ==
    /\ run[p].pc = "reply" /\ Generating(p) /\ run[p].answer = "valid"
    /\ run' = [run EXCEPT ![p].pc = "pick", ![p].made = @ + 1,
                          ![p].sources = @ \cup {run[p].req.chunk}]
    /\ UNCHANGED <<committed, Durable, starts, faults>>

\* One that does not is asked for again: `messages` gets the correction but
\* call_kwargs still holds the list it was built with.
Repair(p) ==
    /\ run[p].pc = "reply" /\ Generating(p) /\ run[p].answer = "invalid"
    /\ run[p].tries < MaxRepairs
    /\ run' = [run EXCEPT ![p].pc = "check", ![p].tries = @ + 1]
    /\ UNCHANGED <<committed, Durable, starts, faults>>

Quarantine(p) ==
    /\ run[p].pc = "reply" /\ Generating(p) /\ run[p].answer = "invalid"
    /\ run[p].tries = MaxRepairs
    /\ Goto(p, "pick")
    /\ UNCHANGED <<committed, Durable, starts, faults>>

-----------------------------------------------------------------------------
(* The gateway. *)

\* Mutant: one call too many.
WithinBudgetOffByOne(p) == BudgetWired => run[p].spent <= MaxSpend

WithinBudget(p) == BudgetWired => run[p].spent < MaxSpend

\* enforce_provider_call, which generate calls go through and judge calls do not.
WithinCap(p) == Generating(p) /\ ProviderCap > 0 => run[p].calls < ProviderCap

CountCall(p) == IF Generating(p) /\ ProviderCap > 0 THEN run[p].calls + 1 ELSE run[p].calls

\* BudgetState.check, then CallCache.get.  The store is asked for
\* sha256(tenant:fingerprint), an address under which nothing was ever put, so
\* only the memory of this gateway can answer.
Check(p) ==
    /\ run[p].pc = "check" /\ WithinCap(p) /\ WithinBudget(p)
    /\ LET hit == run[p].mem[run[p].req]
       IN run' = [run EXCEPT
                    ![p].calls = CountCall(p),
                    ![p].pc = IF hit # "none" THEN "reply"
                              ELSE IF LedgerWired /\ Generating(p) THEN "lookup"
                              ELSE "call",
                    ![p].answer = IF hit # "none" THEN hit ELSE @]
    /\ UNCHANGED <<committed, Durable, starts, faults>>

\* RateLimitError, or BudgetExceededError from check: the stage stops.  The
\* callers of judge catch whatever it raises and go on without a verdict.
Refused(p) ==
    /\ run[p].pc = "check" /\ ~(WithinCap(p) /\ WithinBudget(p))
    /\ IF Generating(p) THEN Abandon(p) ELSE Goto(p, "judge")
    /\ UNCHANGED <<committed, Durable, starts, faults>>

\* get_by_fingerprint: some row of the job with a payload.
ServeFromLedger(p) ==
    /\ run[p].pc = "lookup"
    /\ \E a \in ledger[run[p].req] :
          run' = [run EXCEPT ![p].pc = "reply", ![p].answer = a,
                             ![p].mem[run[p].req] = a]
    /\ stored' = stored \cup {run[p].req}
    /\ UNCHANGED <<committed, ledger, paid, starts, faults>>

\* No row, or the read failed and the failure was suppressed.
NotInLedger(p) ==
    /\ run[p].pc = "lookup"
    /\ \/ ledger[run[p].req] = {} /\ UNCHANGED faults
       \/ SpendFault
    /\ Goto(p, "call")
    /\ UNCHANGED <<committed, Durable, starts>>

\* The provider answers, and charges.
Answered(p) ==
    /\ run[p].pc = "call"
    /\ \E a \in Replies :
          run' = [run EXCEPT ![p].pc = "answered", ![p].answer = a, ![p].asked = @ + 1]
    /\ paid' = [paid EXCEPT ![run[p].req] = @ + 1]
    /\ UNCHANGED <<committed, ledger, stored, starts, faults>>

\* Mutant: the failure is cached as if it were an answer.
ProviderFailsCached(p) ==
    /\ run[p].pc = "call"
    /\ run' = [run EXCEPT ![p].pc = IF Generating(p) THEN "pick" ELSE "judge",
                          ![p].mem[run[p].req] = "invalid"]
    /\ UNCHANGED <<committed, Durable, starts, faults>>

\* ProviderError: noted by the generator, which moves on to the next chunk, or
\* swallowed by the judge's caller.
ProviderFails(p) ==
    /\ run[p].pc = "call"
    /\ Goto(p, IF Generating(p) THEN "pick" ELSE "judge")
    /\ UNCHANGED <<committed, Durable, starts, faults>>

\* account_call and reconcile: a call that reaches the limit raises, and its
\* answer reaches neither ledger nor cache.
Account(p) ==
    /\ run[p].pc = "answered"
    /\ \E cost \in 1..MaxCost :
          LET spent == IF BudgetWired THEN run[p].spent + cost ELSE 0
          IN IF BudgetWired /\ spent >= MaxSpend
                THEN IF Generating(p)
                        THEN Abandon(p)
                        ELSE run' = [run EXCEPT ![p].pc = "judge", ![p].spent = spent]
                ELSE run' = [run EXCEPT ![p].spent = spent,
                                        ![p].pc = IF LedgerWired THEN "record" ELSE "put"]
    /\ UNCHANGED <<committed, Durable, starts, faults>>

\* Mutant: the row is written but never for the resumed job to find.
RecordNothing(p) ==
    /\ run[p].pc = "record"
    /\ Goto(p, "put")
    /\ UNCHANGED <<committed, Durable, starts, faults>>

\* The ledger row, best effort.
Record(p) ==
    /\ run[p].pc = "record"
    /\ \/ /\ ledger' = [ledger EXCEPT ![run[p].req] = @ \cup {run[p].answer}]
          /\ UNCHANGED faults
       \/ SpendFault /\ UNCHANGED ledger
    /\ Goto(p, "put")
    /\ UNCHANGED <<committed, stored, paid, starts>>

CachePut(p) ==
    /\ run[p].pc = "put"
    /\ run' = [run EXCEPT ![p].pc = "reply", ![p].mem[run[p].req] = run[p].answer]
    /\ stored' = stored \cup {run[p].req}
    /\ UNCHANGED <<committed, ledger, paid, starts, faults>>

-----------------------------------------------------------------------------
(* The judge, and the end of the stage. *)

Unjudged(p) == IF Judging THEN run[p].sources \ run[p].judged ELSE {}

\* Mutant: the judge does not remember whom it has judged.
JudgeAgain(p) ==
    /\ run[p].pc = "judge"
    /\ \E c \in Unjudged(p) :
          run' = [run EXCEPT ![p].pc = "check", ![p].asked = 0,
                             ![p].req = [kind |-> "judge", chunk |-> c]]
    /\ UNCHANGED <<committed, Durable, starts, faults>>

Judge(p) ==
    /\ run[p].pc = "judge"
    /\ \E c \in Unjudged(p) :
          run' = [run EXCEPT ![p].pc = "check", ![p].judged = @ \cup {c}, ![p].asked = 0,
                             ![p].req = [kind |-> "judge", chunk |-> c]]
    /\ UNCHANGED <<committed, Durable, starts, faults>>

Verdict(p) ==
    /\ run[p].pc = "reply" /\ ~Generating(p)
    /\ Goto(p, "judge")
    /\ UNCHANGED <<committed, Durable, starts, faults>>

\* The examples are persisted and the stage is checkpointed; a second runner
\* that arrives later inserts the same content-addressed ids and fails.
Finish(p) ==
    /\ run[p].pc = "judge" /\ Unjudged(p) = {}
    /\ committed' = TRUE
    /\ Abandon(p)
    /\ UNCHANGED <<Durable, starts, faults>>

-----------------------------------------------------------------------------
(* Failures. *)

\* The worker dies, or the stage raises for a reason of its own.
Crash(p) ==
    /\ run[p].pc # "idle" /\ SpendFault
    /\ Abandon(p)
    /\ UNCHANGED <<committed, Durable, starts>>

\* assess_claims gives a judge call up after its timeout.
JudgeTimesOut(p) ==
    /\ run[p].pc \in {"call", "answered", "record", "put"} /\ ~Generating(p)
    /\ SpendFault
    /\ Goto(p, "judge")
    /\ UNCHANGED <<committed, Durable, starts>>

-----------------------------------------------------------------------------

Proceed(p) ==
    \/ Visit(p) \/ GenerationDone(p) \/ Emit(p) \/ Repair(p) \/ Quarantine(p)
    \/ Check(p) \/ Refused(p) \/ ServeFromLedger(p) \/ NotInLedger(p)
    \/ Answered(p) \/ ProviderFails(p) \/ Account(p) \/ Record(p) \/ CachePut(p)
    \/ Judge(p) \/ Verdict(p) \/ Finish(p)

Next == \E p \in Runners : Start(p) \/ Proceed(p) \/ Crash(p) \/ JudgeTimesOut(p)

Spec == Init /\ [][Next]_vars

\* The stage coroutine of a live worker is scheduled and its awaits return.
FairSpec == Spec /\ \A p \in Runners : WF_vars(Proceed(p))

-----------------------------------------------------------------------------
(* Properties. *)

CallsTypeOK ==
    /\ committed \in BOOLEAN
    /\ run \in [Runners -> Attempt]
    /\ ledger \in [Requests -> SUBSET Replies]
    /\ stored \subseteq Requests
    /\ paid \in [Requests -> Nat]
    /\ starts \in 0..MaxStarts /\ faults \in 0..MaxFaults

\* "A resumed job never pays twice for the same call" (ModelGateway.generate), as
\* far as the ledger can keep it: without a budget to interrupt the accounting,
\* a generation call is charged once, plus once for every failure and for every
\* other execution that overlaps.
PaidOncePerFailure ==
    (LedgerWired /\ ~BudgetWired) =>
        \A r \in Requests : r.kind = "generate" =>
            paid[r] <= Cardinality(Runners) + faults

\* One stage attempt spends less than one call beyond its budget, however calls,
\* repairs, cache hits and judgements interleave (BudgetState.check).
SpendBounded == \A p \in Runners : run[p].spent < MaxSpend + MaxCost

\* A chunk has a candidate only if some attempt paid for a reply about it:
\* caches and ledger never serve what was never asked.
ServedWasPaid ==
    \A p \in Runners, r \in Requests :
        (run[p].mem[r] # "none" \/ ledger[r] # {}) => paid[r] > 0

\* Every stage attempt ends, even if the provider fails on every call.
AttemptsEnd == \A p \in Runners : run[p].pc # "idle" ~> run[p].pc = "idle"

-----------------------------------------------------------------------------
(* What the documentation says and the code does not do. *)

\* "on failure re-request up to max_repair_attempts with an explicit correction"
\* (Generator._generate_one): a reply given up on was asked for that often.
RepairAsksAgain ==
    \A p \in Runners :
        (run[p].pc = "reply" /\ Generating(p) /\ run[p].answer = "invalid"
           /\ run[p].tries = MaxRepairs) => run[p].asked = MaxRepairs + 1

=============================================================================
