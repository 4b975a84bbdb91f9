-------------------------- MODULE ModelCallsProofs --------------------------
(***************************************************************************)
(* ModelCalls for any number of chunks, runners, attempts and failures.    *)
(*                                                                         *)
(* Good says what a stage attempt may rely on at each of its awaits; only  *)
(* the runner of an attempt changes it, and only by the provider's charges *)
(* can others affect it, which never go down.  ChargesBounded counts, for  *)
(* each generation request, who may still be charged for it: as long as    *)
(* the ledger has no row, every charge is in the hands of a runner on its  *)
(* way to the ledger or was lost to a failure; once there is a row, only   *)
(* the runners already past the lookup can be charged again.               *)
(***************************************************************************)
EXTENDS ModelCalls, FiniteSetTheorems, TLAPS

Asking == {"check", "lookup", "call", "answered", "record", "put", "reply"}

\* What holds of a stage attempt between two of its steps.
Good(a) ==
    /\ a.pc \in Asking /\ a.req.kind = "generate" => a.made < PerSpec
    /\ a.asked <= a.tries + 1
    /\ a.pc \in {"check", "lookup", "call"} => a.asked <= a.tries
    /\ a.spent < MaxSpend + MaxCost
    /\ ~BudgetWired => a.spent = 0
    /\ BudgetWired /\ a.pc \in {"lookup", "call", "answered"} => a.spent < MaxSpend
    /\ a.pc \in {"lookup", "record"} => LedgerWired
    /\ a.pc \in {"answered", "record", "put"} => paid[a.req] > 0
    /\ \A r \in Requests : a.mem[r] # "none" => paid[r] > 0

LedgerPaid == \A r \in Requests : ledger[r] # {} => paid[r] > 0

Pending(r, pcs) == {p \in Runners : run[p].req = r /\ run[p].pc \in pcs}

ChargesBounded ==
    (LedgerWired /\ ~BudgetWired) =>
        \A r \in Requests : r.kind = "generate" =>
            IF ledger[r] = {}
               THEN paid[r] <= faults + Cardinality(Pending(r, {"answered", "record"}))
               ELSE paid[r] + Cardinality(Pending(r, {"call"})) <= Cardinality(Runners) + faults

MInv == /\ CallsTypeOK
        /\ \A p \in Runners : Good(run[p])
        /\ LedgerPaid
        /\ ChargesBounded

-----------------------------------------------------------------------------
(* Counting runners. *)

LEMMA Counting ==
    ASSUME NEW S \in SUBSET Runners
    PROVE  /\ IsFiniteSet(S) /\ Cardinality(S) \in Nat /\ Cardinality(Runners) \in Nat
           /\ Cardinality(S) <= Cardinality(Runners)
           /\ \A p \in Runners : /\ Cardinality(S \cup {p}) \in Nat
                                 /\ Cardinality(S \ {p}) \in Nat
                                 /\ Cardinality(S) <= Cardinality(S \ {p}) + 1
                                 /\ Cardinality(S \cup {p}) <= Cardinality(S) + 1
                                 /\ p \notin S => Cardinality(S \cup {p}) = Cardinality(S) + 1
                                 /\ p \in S => Cardinality(S \ {p}) = Cardinality(S) - 1
<1>1. IsFiniteSet(S) /\ Cardinality(S) \in Nat /\ Cardinality(Runners) \in Nat
      /\ Cardinality(S) <= Cardinality(Runners)
  BY RunnersFinite, FS_Subset, FS_CardinalityType
<1>2. ASSUME NEW p \in Runners
      PROVE  /\ Cardinality(S \cup {p}) \in Nat
             /\ Cardinality(S \ {p}) \in Nat
             /\ Cardinality(S) <= Cardinality(S \ {p}) + 1
             /\ Cardinality(S \cup {p}) <= Cardinality(S) + 1
             /\ p \notin S => Cardinality(S \cup {p}) = Cardinality(S) + 1
             /\ p \in S => Cardinality(S \ {p}) = Cardinality(S) - 1
  <2>1. IsFiniteSet(S \cup {p}) /\ IsFiniteSet(S \ {p})
    BY <1>1, FS_AddElement, FS_RemoveElement
  <2>2. Cardinality(S \cup {p}) = IF p \in S THEN Cardinality(S) ELSE Cardinality(S) + 1
    BY <1>1, FS_AddElement
  <2>3. Cardinality(S \ {p}) = IF p \in S THEN Cardinality(S) - 1 ELSE Cardinality(S)
    BY <1>1, FS_RemoveElement
  <2>4. Cardinality(S \cup {p}) \in Nat /\ Cardinality(S \ {p}) \in Nat
    BY <2>1, FS_CardinalityType
  <2>5. QED
    BY <1>1, <2>2, <2>3, <2>4
<1>3. QED
  BY <1>1, <1>2

LEMMA CountingMonotone ==
    ASSUME NEW S \in SUBSET Runners, NEW T \in SUBSET Runners, S \subseteq T
    PROVE  Cardinality(S) <= Cardinality(T) /\ Cardinality(S) \in Nat /\ Cardinality(T) \in Nat
BY Counting, FS_Subset

LEMMA CountingApart ==
    ASSUME NEW S \in SUBSET Runners, NEW T \in SUBSET Runners, S \cap T = {}
    PROVE  Cardinality(S) + Cardinality(T) <= Cardinality(Runners)
<1>1. IsFiniteSet(S) /\ IsFiniteSet(T) /\ Cardinality(S) \in Nat /\ Cardinality(T) \in Nat
  BY Counting
<1>2. Cardinality(S \cup T) = Cardinality(S) + Cardinality(T) - Cardinality(S \cap T)
  BY <1>1, FS_Union
<1>3. Cardinality(S \cap T) = 0
  BY FS_EmptySet
<1>4. S \cup T \in SUBSET Runners
  OBVIOUS
<1>5. Cardinality(S \cup T) <= Cardinality(Runners)
  BY <1>4, Counting
<1>6. QED
  BY <1>1, <1>2, <1>3, <1>5

-----------------------------------------------------------------------------
(* One runner moves. *)

LEMMA GoodStays ==
    ASSUME NEW a, Good(a), a.req \in Requests,
           paid \in [Requests -> Nat], paid' \in [Requests -> Nat],
           \A r \in Requests : paid[r] <= paid'[r]
    PROVE  Good(a)'
BY DEF Good

\* A runner moves, and nothing is charged or recorded.  If it cannot blame a
\* failure, it is charged later only for what the ledger has no row of, and does
\* not give up an answer it has paid for.
LEMMA RunnerMoves ==
    ASSUME MInv, NEW p \in Runners, NEW b \in Attempt, Good(b),
           run' = [run EXCEPT ![p] = b],
           UNCHANGED <<ledger, paid>>, stored' \subseteq Requests, committed' \in BOOLEAN,
           starts' \in 0..MaxStarts, faults' \in 0..MaxFaults,
           \/ faults' = faults + 1
           \/ /\ faults' = faults
              /\ b.pc = "call" /\ b.req.kind = "generate" /\ LedgerWired
                    => ledger[b.req] = {} \/ (run[p].pc = "call" /\ run[p].req = b.req)
              /\ run[p].pc \in {"answered", "record"} /\ run[p].req.kind = "generate"
                 /\ LedgerWired /\ ~BudgetWired
                    => b.pc \in {"answered", "record"} /\ b.req = run[p].req
    PROVE  MInv'
<1>1. CallsTypeOK'
  BY DEF MInv, CallsTypeOK
<1>2. (\A q \in Runners : Good(run[q]))'
  <2> SUFFICES ASSUME NEW q \in Runners PROVE Good(run[q])'
    OBVIOUS
  <2>1. run'[q] = IF q = p THEN b ELSE run[q]
    BY DEF MInv, CallsTypeOK
  <2>2. Good(run[q]) /\ Good(b)
    BY DEF MInv
  <2>3. QED
    BY <2>1, <2>2 DEF Good
<1>3. LedgerPaid'
  BY DEF MInv, LedgerPaid
<1>4. ChargesBounded'
  <2> SUFFICES ASSUME LedgerWired, ~BudgetWired, NEW r \in Requests, r.kind = "generate"
               PROVE  IF ledger[r] = {}
                         THEN paid[r] <= faults'
                                 + Cardinality(Pending(r, {"answered", "record"})')
                         ELSE paid[r] + Cardinality(Pending(r, {"call"})')
                                 <= Cardinality(Runners) + faults'
    BY DEF ChargesBounded
  <2> DEFINE A == Pending(r, {"answered", "record"})
             C == Pending(r, {"call"})
  <2>1. /\ A \in SUBSET Runners /\ A' \in SUBSET Runners
        /\ C \in SUBSET Runners /\ C' \in SUBSET Runners
    BY DEF Pending
  <2>2. \A q \in Runners \ {p} : (q \in A' <=> q \in A) /\ (q \in C' <=> q \in C)
    BY DEF MInv, CallsTypeOK, Pending
  <2>3. /\ p \in A' <=> b.req = r /\ b.pc \in {"answered", "record"}
        /\ p \in C' <=> b.req = r /\ b.pc = "call"
        /\ p \in A <=> run[p].req = r /\ run[p].pc \in {"answered", "record"}
        /\ p \in C <=> run[p].req = r /\ run[p].pc = "call"
    BY DEF MInv, CallsTypeOK, Pending
  <2>4. IF ledger[r] = {} THEN paid[r] <= faults + Cardinality(A)
        ELSE paid[r] + Cardinality(C) <= Cardinality(Runners) + faults
    BY DEF MInv, ChargesBounded
  <2>5. paid[r] \in Nat /\ faults \in Nat
    BY DEF MInv, CallsTypeOK
  <2> HIDE DEF A, C
  <2>6. CASE faults' = faults + 1
    <3>1. A \ {p} \subseteq A' /\ C' \subseteq C \cup {p}
      BY <2>1, <2>2
    <3>2. /\ Cardinality(A) <= Cardinality(A \ {p}) + 1
          /\ Cardinality(C \cup {p}) <= Cardinality(C) + 1
          /\ Cardinality(A) \in Nat /\ Cardinality(C) \in Nat
          /\ Cardinality(A \ {p}) \in Nat /\ Cardinality(C \cup {p}) \in Nat
          /\ Cardinality(Runners) \in Nat
      BY <2>1, Counting
    <3>3. /\ Cardinality(A \ {p}) <= Cardinality(A') /\ Cardinality(A') \in Nat
          /\ Cardinality(C') <= Cardinality(C \cup {p}) /\ Cardinality(C') \in Nat
      BY <2>1, <3>1, CountingMonotone
    <3>4. QED
      BY <2>4, <2>5, <2>6, <3>2, <3>3 DEF A, C
  <2>7. CASE faults' = faults /\ faults' # faults + 1
    <3>1. CASE ledger[r] = {}
      <4>1. A \subseteq A'
        BY <2>1, <2>2, <2>3, <2>7
      <4>2. Cardinality(A) <= Cardinality(A') /\ Cardinality(A) \in Nat /\ Cardinality(A') \in Nat
        BY <2>1, <4>1, CountingMonotone
      <4>3. QED
        BY <2>4, <2>5, <2>7, <3>1, <4>2 DEF A
    <3>2. CASE ledger[r] # {}
      <4>1. C' \subseteq C
        BY <2>1, <2>2, <2>3, <2>7, <3>2
      <4>2. Cardinality(C') <= Cardinality(C) /\ Cardinality(C) \in Nat /\ Cardinality(C') \in Nat
        BY <2>1, <4>1, CountingMonotone
      <4>3. Cardinality(Runners) \in Nat
        BY <2>1, Counting
      <4>4. QED
        BY <2>4, <2>5, <2>7, <3>2, <4>2, <4>3 DEF C
    <3>3. QED
      BY <3>1, <3>2
  <2>8. QED
    BY <2>6, <2>7
<1>5. QED
  BY <1>1, <1>2, <1>3, <1>4 DEF MInv

-----------------------------------------------------------------------------
(* Fields of an attempt. *)

\* b is a but for the field k.
SameBut(b, a, k) ==
    /\ k # "pc" => b.pc = a.pc
    /\ k # "made" => b.made = a.made
    /\ k # "visits" => b.visits = a.visits
    /\ k # "tries" => b.tries = a.tries
    /\ k # "calls" => b.calls = a.calls
    /\ k # "spent" => b.spent = a.spent
    /\ k # "sources" => b.sources = a.sources
    /\ k # "judged" => b.judged = a.judged
    /\ k # "req" => b.req = a.req
    /\ k # "answer" => b.answer = a.answer
    /\ k # "asked" => b.asked = a.asked
    /\ k # "mem" => b.mem = a.mem

LEMMA SetField ==
    ASSUME NEW a \in Attempt
    PROVE
      /\ \A v \in PC :
            LET b == [a EXCEPT !.pc = v]
            IN b \in Attempt /\ b.pc = v /\ SameBut(b, a, "pc")
      /\ \A v \in 0..PerSpec :
            LET b == [a EXCEPT !.made = v]
            IN b \in Attempt /\ b.made = v /\ SameBut(b, a, "made")
      /\ \A v \in 0..VisitLimit :
            LET b == [a EXCEPT !.visits = v]
            IN b \in Attempt /\ b.visits = v /\ SameBut(b, a, "visits")
      /\ \A v \in 0..MaxRepairs :
            LET b == [a EXCEPT !.tries = v]
            IN b \in Attempt /\ b.tries = v /\ SameBut(b, a, "tries")
      /\ \A v \in 0..ProviderCap :
            LET b == [a EXCEPT !.calls = v]
            IN b \in Attempt /\ b.calls = v /\ SameBut(b, a, "calls")
      /\ \A v \in 0..(MaxSpend + MaxCost) :
            LET b == [a EXCEPT !.spent = v]
            IN b \in Attempt /\ b.spent = v /\ SameBut(b, a, "spent")
      /\ \A v \in SUBSET Chunks :
            LET b == [a EXCEPT !.sources = v]
            IN b \in Attempt /\ b.sources = v /\ SameBut(b, a, "sources")
      /\ \A v \in SUBSET Chunks :
            LET b == [a EXCEPT !.judged = v]
            IN b \in Attempt /\ b.judged = v /\ SameBut(b, a, "judged")
      /\ \A v \in Requests :
            LET b == [a EXCEPT !.req = v]
            IN b \in Attempt /\ b.req = v /\ SameBut(b, a, "req")
      /\ \A v \in Replies :
            LET b == [a EXCEPT !.answer = v]
            IN b \in Attempt /\ b.answer = v /\ SameBut(b, a, "answer")
      /\ \A v \in 0..(MaxRepairs + 1) :
            LET b == [a EXCEPT !.asked = v]
            IN b \in Attempt /\ b.asked = v /\ SameBut(b, a, "asked")
      /\ \A v \in [Requests -> Replies \cup {"none"}] :
            LET b == [a EXCEPT !.mem = v]
            IN b \in Attempt /\ b.mem = v /\ SameBut(b, a, "mem")
<1>1. \A v \in PC :
         LET b == [a EXCEPT !.pc = v]
         IN b \in Attempt /\ b.pc = v /\ SameBut(b, a, "pc")
  BY DEF Attempt, SameBut
<1>2. \A v \in 0..PerSpec :
         LET b == [a EXCEPT !.made = v]
         IN b \in Attempt /\ b.made = v /\ SameBut(b, a, "made")
  BY DEF Attempt, SameBut
<1>3. \A v \in 0..VisitLimit :
         LET b == [a EXCEPT !.visits = v]
         IN b \in Attempt /\ b.visits = v /\ SameBut(b, a, "visits")
  BY DEF Attempt, SameBut
<1>4. \A v \in 0..MaxRepairs :
         LET b == [a EXCEPT !.tries = v]
         IN b \in Attempt /\ b.tries = v /\ SameBut(b, a, "tries")
  BY DEF Attempt, SameBut
<1>5. \A v \in 0..ProviderCap :
         LET b == [a EXCEPT !.calls = v]
         IN b \in Attempt /\ b.calls = v /\ SameBut(b, a, "calls")
  BY DEF Attempt, SameBut
<1>6. \A v \in 0..(MaxSpend + MaxCost) :
         LET b == [a EXCEPT !.spent = v]
         IN b \in Attempt /\ b.spent = v /\ SameBut(b, a, "spent")
  BY DEF Attempt, SameBut
<1>7. \A v \in SUBSET Chunks :
         LET b == [a EXCEPT !.sources = v]
         IN b \in Attempt /\ b.sources = v /\ SameBut(b, a, "sources")
  BY DEF Attempt, SameBut
<1>8. \A v \in SUBSET Chunks :
         LET b == [a EXCEPT !.judged = v]
         IN b \in Attempt /\ b.judged = v /\ SameBut(b, a, "judged")
  BY DEF Attempt, SameBut
<1>9. \A v \in Requests :
         LET b == [a EXCEPT !.req = v]
         IN b \in Attempt /\ b.req = v /\ SameBut(b, a, "req")
  BY DEF Attempt, SameBut
<1>10. \A v \in Replies :
         LET b == [a EXCEPT !.answer = v]
         IN b \in Attempt /\ b.answer = v /\ SameBut(b, a, "answer")
  BY DEF Attempt, SameBut
<1>11. \A v \in 0..(MaxRepairs + 1) :
         LET b == [a EXCEPT !.asked = v]
         IN b \in Attempt /\ b.asked = v /\ SameBut(b, a, "asked")
  BY DEF Attempt, SameBut
<1>12. \A v \in [Requests -> Replies \cup {"none"}] :
         LET b == [a EXCEPT !.mem = v]
         IN b \in Attempt /\ b.mem = v /\ SameBut(b, a, "mem")
  BY DEF Attempt, SameBut
<1>13. QED
  BY <1>1, <1>2, <1>3, <1>4, <1>5, <1>6, <1>7, <1>8, <1>9, <1>10, <1>11, <1>12

-----------------------------------------------------------------------------
(* The steps. *)

LEMMA AttemptFacts ==
    ASSUME MInv, NEW p \in Runners
    PROVE  /\ run \in [Runners -> Attempt] /\ run[p] \in Attempt /\ Good(run[p])
           /\ run[p].req \in Requests /\ run[p].made \in Nat /\ run[p].visits \in Nat
           /\ run[p].tries \in Nat /\ run[p].calls \in Nat /\ run[p].spent \in Nat
           /\ run[p].asked \in Nat
           /\ run[p].mem \in [Requests -> Replies \cup {"none"}]
           /\ committed \in BOOLEAN /\ stored \subseteq Requests
           /\ starts \in 0..MaxStarts /\ faults \in 0..MaxFaults
<1>1. run \in [Runners -> Attempt] /\ run[p] \in Attempt /\ Good(run[p])
  BY DEF MInv, CallsTypeOK
<1>2. QED
  BY <1>1 DEF MInv, CallsTypeOK, Attempt

\* A failure is counted, and may be blamed.
LEMMA FaultFacts ==
    ASSUME MInv, SpendFault
    PROVE  faults' \in 0..MaxFaults /\ faults' = faults + 1
BY ModelCallsSizes DEF MInv, CallsTypeOK, SpendFault

LEMMA AbandonIsGood == NoAttempt \in Attempt /\ Good(NoAttempt)
<1>1. VisitLimit \in Nat
  BY ModelCallsSizes DEF VisitLimit
<1>2. /\ 0 \in 0..PerSpec /\ 0 \in 0..VisitLimit /\ 0 \in 0..MaxRepairs /\ 0 \in 0..ProviderCap
      /\ 0 \in 0..(MaxSpend + MaxCost) /\ 0 \in 0..(MaxRepairs + 1) /\ 1 \in Chunks
      /\ 0 < MaxSpend + MaxCost
  BY <1>1, ModelCallsSizes DEF Chunks
<1>3. [kind |-> "generate", chunk |-> 1] \in Requests
  BY <1>2 DEF Requests
<1>4. [r \in Requests |-> "none"] \in [Requests -> Replies \cup {"none"}]
  OBVIOUS
<1>5. NoAttempt \in Attempt
  BY <1>2, <1>3, <1>4 DEF NoAttempt, Attempt, PC, Replies
<1>6. Good(NoAttempt)
  BY <1>2 DEF NoAttempt, Good, Asking
<1>7. QED
  BY <1>5, <1>6

\* Nothing durable changes and no answer in hand is lost by leaving the gateway.
LEMMA AbandonKeeps ==
    ASSUME MInv, NEW p \in Runners, Abandon(p), UNCHANGED <<Durable, starts>>,
           committed' \in BOOLEAN,
           \/ SpendFault
           \/ faults' = faults /\ (BudgetWired \/ run[p].pc \notin {"answered", "record"})
    PROVE  MInv'
<1>1. faults' \in 0..MaxFaults /\ (faults' = faults + 1 \/ faults' = faults)
  BY FaultFacts, AttemptFacts
<1>2. SpendFault => faults' = faults + 1
  BY FaultFacts
<1>3. NoAttempt.pc = "idle"
  BY DEF NoAttempt
<1>4. QED
  BY <1>1, <1>2, <1>3, AbandonIsGood, AttemptFacts, RunnerMoves DEF Abandon, Durable

\* The runner goes back to the loop of the generator or of the judge.
LEMMA LeaveRequest ==
    ASSUME MInv, NEW p \in Runners, NEW pc \in {"pick", "judge"}, Goto(p, pc),
           UNCHANGED <<committed, Durable>>, starts' \in 0..MaxStarts,
           \/ SpendFault
           \/ faults' = faults /\ run[p].pc \notin {"answered", "record"}
    PROVE  MInv'
<1> DEFINE b == [run[p] EXCEPT !.pc = pc]
<1>1. b \in Attempt /\ b.pc = pc /\ SameBut(b, run[p], "pc")
  <2>1. pc \in PC
    BY DEF PC
  <2>2. run[p] \in Attempt
    BY AttemptFacts
  <2>3. QED
    BY <2>1, <2>2, SetField
<1>2. run' = [run EXCEPT ![p] = b]
  BY DEF Goto
<1> HIDE DEF b
<1>3. Good(b)
  BY <1>1, AttemptFacts DEF Good, SameBut, Asking
<1>4. faults' \in 0..MaxFaults /\ (SpendFault => faults' = faults + 1)
  BY FaultFacts, AttemptFacts
<1>5. QED
  BY <1>1, <1>2, <1>3, <1>4, AttemptFacts, RunnerMoves DEF Durable

LEMMA StartKeeps ==
    ASSUME MInv, NEW p \in Runners, Start(p)
    PROVE  MInv'
<1>1. starts' \in 0..MaxStarts
  BY AttemptFacts, ModelCallsSizes DEF Start
<1>2. QED
  BY <1>1, LeaveRequest DEF Start, Durable

\* GenerationDone, Quarantine, ProviderFails, Verdict and JudgeTimesOut.
LEMMA LeavingKeeps ==
    ASSUME MInv, NEW p \in Runners,
           \/ GenerationDone(p) \/ Quarantine(p) \/ ProviderFails(p) \/ Verdict(p)
           \/ JudgeTimesOut(p)
    PROVE  MInv'
<1>1. starts' \in 0..MaxStarts
  BY AttemptFacts DEF GenerationDone, Quarantine, ProviderFails, Verdict, JudgeTimesOut
<1>2. CASE GenerationDone(p)
  BY <1>1, <1>2, LeaveRequest DEF GenerationDone, Durable
<1>3. CASE Quarantine(p)
  BY <1>1, <1>3, LeaveRequest DEF Quarantine, Durable
<1>4. CASE ProviderFails(p)
  BY <1>1, <1>4, LeaveRequest DEF ProviderFails, Durable
<1>5. CASE Verdict(p)
  BY <1>1, <1>5, LeaveRequest DEF Verdict, Durable
<1>6. CASE JudgeTimesOut(p)
  BY <1>1, <1>6, LeaveRequest DEF JudgeTimesOut, Durable
<1>7. QED
  BY <1>2, <1>3, <1>4, <1>5, <1>6

LEMMA VisitKeeps ==
    ASSUME MInv, NEW p \in Runners, Visit(p)
    PROVE  MInv'
<1> DEFINE a  == run[p]
           c  == (a.visits % NumChunks) + 1
           q  == [kind |-> "generate", chunk |-> c]
           b1 == [a EXCEPT !.pc = "check"]
           b2 == [b1 EXCEPT !.visits = a.visits + 1]
           b3 == [b2 EXCEPT !.tries = 0]
           b4 == [b3 EXCEPT !.asked = 0]
           b  == [b4 EXCEPT !.req = q]
<1>1. /\ a \in Attempt /\ Good(a) /\ a.visits \in Nat
      /\ a.pc = "pick" /\ a.made < PerSpec /\ a.visits < VisitLimit
  BY AttemptFacts DEF Visit, Wanting
<1>2. VisitLimit \in Nat
  BY ModelCallsSizes DEF VisitLimit
<1>3. q \in Requests
  <2>1. a.visits % NumChunks \in 0..(NumChunks - 1)
    BY <1>1, ModelCallsSizes
  <2>2. c \in Chunks
    BY <2>1, ModelCallsSizes DEF Chunks
  <2>3. QED
    BY <2>2 DEF Requests
<1>4. /\ "check" \in PC /\ a.visits + 1 \in 0..VisitLimit
      /\ 0 \in 0..MaxRepairs /\ 0 \in 0..(MaxRepairs + 1)
  BY <1>1, <1>2, ModelCallsSizes DEF PC
<1>5. b1 \in Attempt /\ b1.pc = "check" /\ SameBut(b1, a, "pc")
  BY <1>1, <1>4, SetField
<1>6. b1.visits = a.visits
  BY <1>5 DEF SameBut
<1>7. run' = [run EXCEPT ![p] = b]
  BY <1>6, AttemptFacts DEF Visit
<1> HIDE DEF b1
<1>8. b2 \in Attempt /\ b2.visits = a.visits + 1 /\ SameBut(b2, b1, "visits")
  BY <1>4, <1>5, SetField
<1> HIDE DEF b2
<1>9. b3 \in Attempt /\ b3.tries = 0 /\ SameBut(b3, b2, "tries")
  BY <1>4, <1>8, SetField
<1> HIDE DEF b3
<1>10. b4 \in Attempt /\ b4.asked = 0 /\ SameBut(b4, b3, "asked")
  BY <1>4, <1>9, SetField
<1> HIDE DEF b4
<1>11. b \in Attempt /\ b.req = q /\ SameBut(b, b4, "req")
  BY <1>3, <1>10, SetField
<1> HIDE DEF b
<1>12. /\ b.pc = "check" /\ b.made = a.made /\ b.tries = 0 /\ b.asked = 0
       /\ b.spent = a.spent /\ b.mem = a.mem
  BY <1>5, <1>8, <1>9, <1>10, <1>11 DEF SameBut
<1>13. Good(b)
  BY <1>1, <1>12 DEF Good
<1>14. QED
  BY <1>1, <1>7, <1>11, <1>12, <1>13, AttemptFacts, RunnerMoves DEF Visit, Durable

LEMMA EmitKeeps ==
    ASSUME MInv, NEW p \in Runners, Emit(p)
    PROVE  MInv'
<1> DEFINE a  == run[p]
           c  == a.sources \cup {a.req.chunk}
           b1 == [a EXCEPT !.pc = "pick"]
           b2 == [b1 EXCEPT !.made = a.made + 1]
           b  == [b2 EXCEPT !.sources = c]
<1>1. /\ a \in Attempt /\ Good(a) /\ a.made \in Nat /\ a.pc = "reply"
      /\ a.req \in Requests /\ a.req.kind = "generate"
  BY AttemptFacts DEF Emit, Generating
<1>2. a.made < PerSpec
  BY <1>1 DEF Good, Asking
<1>3. /\ "pick" \in PC /\ a.made + 1 \in 0..PerSpec /\ c \in SUBSET Chunks
  BY <1>1, <1>2, ModelCallsSizes DEF PC, Requests, Attempt
<1>4. b1 \in Attempt /\ b1.pc = "pick" /\ SameBut(b1, a, "pc")
  BY <1>1, <1>3, SetField
<1>5. b1.made = a.made /\ b1.sources = a.sources
  BY <1>4 DEF SameBut
<1> HIDE DEF b1
<1>6. b2 \in Attempt /\ b2.made = a.made + 1 /\ SameBut(b2, b1, "made")
  BY <1>3, <1>4, SetField
<1>7. b2.sources = a.sources
  BY <1>5, <1>6 DEF SameBut
<1>8. run' = [run EXCEPT ![p] = b]
  BY <1>5, <1>7, AttemptFacts DEF Emit, b1
<1> HIDE DEF b2
<1>9. b \in Attempt /\ SameBut(b, b2, "sources")
  BY <1>3, <1>6, SetField
<1> HIDE DEF b
<1>10. /\ b.pc = "pick" /\ b.tries = a.tries /\ b.asked = a.asked
       /\ b.spent = a.spent /\ b.mem = a.mem
  BY <1>4, <1>6, <1>9 DEF SameBut
<1>11. Good(b)
  BY <1>1, <1>10 DEF Good, Asking
<1>12. QED
  BY <1>1, <1>8, <1>9, <1>10, <1>11, AttemptFacts, RunnerMoves DEF Emit, Durable

LEMMA RepairKeeps ==
    ASSUME MInv, NEW p \in Runners, Repair(p)
    PROVE  MInv'
<1> DEFINE a  == run[p]
           b1 == [a EXCEPT !.pc = "check"]
           b  == [b1 EXCEPT !.tries = a.tries + 1]
<1>1. /\ a \in Attempt /\ Good(a) /\ a.tries \in Nat /\ a.asked \in Nat /\ a.pc = "reply"
      /\ a.tries < MaxRepairs
  BY AttemptFacts DEF Repair
<1>2. a.tries \in 0..MaxRepairs
  BY <1>1 DEF Attempt
<1>3. "check" \in PC /\ a.tries + 1 \in 0..MaxRepairs
  BY <1>1, <1>2, ModelCallsSizes DEF PC
<1>4. b1 \in Attempt /\ b1.pc = "check" /\ SameBut(b1, a, "pc")
  BY <1>1, <1>3, SetField
<1>5. b1.tries = a.tries
  BY <1>4 DEF SameBut
<1>6. run' = [run EXCEPT ![p] = b]
  BY <1>5, AttemptFacts DEF Repair
<1> HIDE DEF b1
<1>7. b \in Attempt /\ b.tries = a.tries + 1 /\ SameBut(b, b1, "tries")
  BY <1>3, <1>4, SetField
<1> HIDE DEF b
<1>8. /\ b.pc = "check" /\ b.made = a.made /\ b.req = a.req /\ b.asked = a.asked
      /\ b.spent = a.spent /\ b.mem = a.mem
  BY <1>4, <1>7 DEF SameBut
<1>9. Good(b)
  BY <1>1, <1>7, <1>8 DEF Good, Asking
<1>10. QED
  BY <1>1, <1>6, <1>7, <1>8, <1>9, AttemptFacts, RunnerMoves DEF Repair, Durable

LEMMA CheckKeeps ==
    ASSUME MInv, NEW p \in Runners, Check(p)
    PROVE  MInv'
<1> DEFINE a   == run[p]
           hit == a.mem[a.req]
           pc  == IF hit # "none" THEN "reply"
                  ELSE IF LedgerWired /\ Generating(p) THEN "lookup" ELSE "call"
           ans == IF hit # "none" THEN hit ELSE a.answer
           b1  == [a EXCEPT !.calls = CountCall(p)]
           b2  == [b1 EXCEPT !.pc = pc]
           b   == [b2 EXCEPT !.answer = ans]
<1>1. /\ a \in Attempt /\ Good(a) /\ a.calls \in Nat /\ a.pc = "check"
      /\ a.req \in Requests /\ hit \in Replies \cup {"none"}
      /\ WithinCap(p) /\ WithinBudget(p)
  BY AttemptFacts DEF Check
<1>2. CountCall(p) \in 0..ProviderCap
  <2>1. a.calls \in 0..ProviderCap
    BY <1>1 DEF Attempt
  <2>2. QED
    BY <1>1, <2>1, ModelCallsSizes DEF CountCall, WithinCap
<1>3. pc \in PC /\ ans \in Replies
  BY <1>1 DEF PC, Attempt
<1>4. b1 \in Attempt /\ SameBut(b1, a, "calls")
  BY <1>1, <1>2, SetField
<1> HIDE DEF b1, pc
<1>5. b2 \in Attempt /\ b2.pc = pc /\ SameBut(b2, b1, "pc")
  BY <1>3, <1>4, SetField
<1>6. b2.answer = a.answer
  BY <1>4, <1>5 DEF SameBut
<1>7. run' = [run EXCEPT ![p] = b]
  BY <1>6, AttemptFacts DEF Check, b1, pc
<1> HIDE DEF b2, ans
<1>8. b \in Attempt /\ SameBut(b, b2, "answer")
  BY <1>3, <1>5, SetField
<1> HIDE DEF b
<1>9. /\ b.pc = pc /\ b.made = a.made /\ b.req = a.req /\ b.tries = a.tries
      /\ b.asked = a.asked /\ b.spent = a.spent /\ b.mem = a.mem
  BY <1>4, <1>5, <1>8 DEF SameBut
<1>10. /\ pc \in {"reply", "lookup", "call"}
       /\ pc = "lookup" => LedgerWired
       /\ pc = "call" => ~(LedgerWired /\ a.req.kind = "generate")
  BY DEF pc, Generating
<1>11. Good(b)
  <2>1. BudgetWired => b.spent < MaxSpend
    BY <1>1, <1>9 DEF WithinBudget
  <2>2. QED
    BY <1>1, <1>9, <1>10, <2>1 DEF Good, Asking
<1>12. QED
  BY <1>1, <1>7, <1>8, <1>9, <1>10, <1>11, AttemptFacts, RunnerMoves DEF Check, Durable

LEMMA RefusedKeeps ==
    ASSUME MInv, NEW p \in Runners, Refused(p)
    PROVE  MInv'
<1>1. run[p].pc = "check" /\ faults' = faults /\ UNCHANGED <<committed, Durable, starts>>
  BY DEF Refused
<1>2. starts' \in 0..MaxStarts /\ committed' \in BOOLEAN
  BY <1>1, AttemptFacts
<1>3. CASE Generating(p)
  BY <1>1, <1>2, <1>3, AbandonKeeps DEF Refused
<1>4. CASE ~Generating(p)
  BY <1>1, <1>2, <1>4, LeaveRequest DEF Refused
<1>5. QED
  BY <1>3, <1>4

\* The answer in hand is put in memory, and the runner reads it.
LEMMA IntoMemory ==
    ASSUME MInv, NEW p \in Runners, NEW ans \in Replies, NEW b2 \in Attempt,
           SameBut(b2, run[p], "pc") \/ (b2.pc = "reply"
              /\ \E b1 \in Attempt : SameBut(b1, run[p], "pc") /\ SameBut(b2, b1, "answer")),
           b2.pc = "reply", run[p].pc \in Asking,
           paid[run[p].req] > 0
    PROVE  LET b == [b2 EXCEPT !.mem = [run[p].mem EXCEPT ![run[p].req] = ans]]
           IN b \in Attempt /\ Good(b) /\ b.pc = "reply"
<1> DEFINE a == run[p]
           m == [a.mem EXCEPT ![a.req] = ans]
           b == [b2 EXCEPT !.mem = m]
<1>1. a \in Attempt /\ Good(a) /\ a.req \in Requests
      /\ a.mem \in [Requests -> Replies \cup {"none"}]
  BY AttemptFacts
<1>2. m \in [Requests -> Replies \cup {"none"}]
  BY <1>1
<1>3. \A r \in Requests : m[r] # "none" => paid[r] > 0
  BY <1>1 DEF Good
<1> HIDE DEF m
<1>4. b \in Attempt /\ b.mem = m /\ SameBut(b, b2, "mem")
  BY <1>2, SetField
<1> HIDE DEF b
<1>5. /\ b.pc = "reply" /\ b.made = a.made /\ b.req = a.req /\ b.tries = a.tries
      /\ b.asked = a.asked /\ b.spent = a.spent
  BY <1>4 DEF SameBut
<1>6. Good(b)
  BY <1>1, <1>3, <1>4, <1>5 DEF Good, Asking
<1>7. QED
  BY <1>4, <1>5, <1>6 DEF b, m

LEMMA ServeKeeps ==
    ASSUME MInv, NEW p \in Runners, ServeFromLedger(p)
    PROVE  MInv'
<1>1. PICK ans \in ledger[run[p].req] :
          run' = [run EXCEPT ![p].pc = "reply", ![p].answer = ans,
                             ![p].mem[run[p].req] = ans]
  BY DEF ServeFromLedger
<1> DEFINE a  == run[p]
           b1 == [a EXCEPT !.pc = "reply"]
           b2 == [b1 EXCEPT !.answer = ans]
           b  == [b2 EXCEPT !.mem = [a.mem EXCEPT ![a.req] = ans]]
<1>2. a \in Attempt /\ a.req \in Requests /\ a.pc = "lookup"
  BY AttemptFacts DEF ServeFromLedger
<1>3. ans \in Replies /\ paid[a.req] > 0
  BY <1>1, <1>2 DEF MInv, CallsTypeOK, LedgerPaid
<1>4. b1 \in Attempt /\ b1.pc = "reply" /\ SameBut(b1, a, "pc")
  BY <1>2, SetField DEF PC
<1> HIDE DEF b1
<1>5. b2 \in Attempt /\ SameBut(b2, b1, "answer")
  BY <1>3, <1>4, SetField
<1>6. b2.mem = a.mem /\ b2.pc = "reply"
  BY <1>4, <1>5 DEF SameBut
<1>7. run' = [run EXCEPT ![p] = b]
  BY <1>1, <1>6, AttemptFacts DEF b1
<1> HIDE DEF b2
<1>8. b \in Attempt /\ Good(b) /\ b.pc = "reply"
  BY <1>2, <1>3, <1>4, <1>5, <1>6, IntoMemory DEF Asking
<1> HIDE DEF b
<1>9. stored' \subseteq Requests
  BY <1>2, AttemptFacts DEF ServeFromLedger
<1>10. QED
  BY <1>2, <1>7, <1>8, <1>9, AttemptFacts, RunnerMoves DEF ServeFromLedger

LEMMA CachePutKeeps ==
    ASSUME MInv, NEW p \in Runners, CachePut(p)
    PROVE  MInv'
<1> DEFINE a  == run[p]
           b2 == [a EXCEPT !.pc = "reply"]
           b  == [b2 EXCEPT !.mem = [a.mem EXCEPT ![a.req] = a.answer]]
<1>1. a \in Attempt /\ a.req \in Requests /\ a.pc = "put" /\ Good(a)
  BY AttemptFacts DEF CachePut
<1>2. a.answer \in Replies /\ paid[a.req] > 0
  BY <1>1 DEF Attempt, Good
<1>3. b2 \in Attempt /\ b2.pc = "reply" /\ SameBut(b2, a, "pc")
  BY <1>1, SetField DEF PC
<1>4. b2.mem = a.mem /\ b2.answer = a.answer
  BY <1>3 DEF SameBut
<1>5. run' = [run EXCEPT ![p] = b]
  BY <1>4, AttemptFacts DEF CachePut
<1> HIDE DEF b2
<1>6. b \in Attempt /\ Good(b) /\ b.pc = "reply"
  BY <1>1, <1>2, <1>3, IntoMemory DEF Asking
<1> HIDE DEF b
<1>7. stored' \subseteq Requests
  BY <1>1, AttemptFacts DEF CachePut
<1>8. QED
  BY <1>1, <1>5, <1>6, <1>7, AttemptFacts, RunnerMoves DEF CachePut

LEMMA NotInLedgerKeeps ==
    ASSUME MInv, NEW p \in Runners, NotInLedger(p)
    PROVE  MInv'
<1> DEFINE a == run[p]
           b == [a EXCEPT !.pc = "call"]
<1>1. a \in Attempt /\ Good(a) /\ a.pc = "lookup"
  BY AttemptFacts DEF NotInLedger
<1>2. b \in Attempt /\ b.pc = "call" /\ SameBut(b, a, "pc")
  BY <1>1, SetField DEF PC
<1>3. run' = [run EXCEPT ![p] = b]
  BY DEF NotInLedger, Goto
<1> HIDE DEF b
<1>4. Good(b) /\ b.req = a.req
  BY <1>1, <1>2 DEF Good, SameBut, Asking
<1>5. CASE SpendFault
  BY <1>2, <1>3, <1>4, <1>5, FaultFacts, AttemptFacts, RunnerMoves DEF NotInLedger, Durable
<1>6. CASE ledger[a.req] = {} /\ UNCHANGED faults
  BY <1>1, <1>2, <1>3, <1>4, <1>6, AttemptFacts, RunnerMoves DEF NotInLedger, Durable
<1>7. QED
  BY <1>5, <1>6 DEF NotInLedger

LEMMA AccountKeeps ==
    ASSUME MInv, NEW p \in Runners, Account(p)
    PROVE  MInv'
<1>1. PICK cost \in 1..MaxCost :
          LET spent == IF BudgetWired THEN run[p].spent + cost ELSE 0
          IN IF BudgetWired /\ spent >= MaxSpend
                THEN IF Generating(p)
                        THEN Abandon(p)
                        ELSE run' = [run EXCEPT ![p].pc = "judge", ![p].spent = spent]
                ELSE run' = [run EXCEPT ![p].spent = spent,
                                        ![p].pc = IF LedgerWired THEN "record" ELSE "put"]
  BY DEF Account
<1> DEFINE a     == run[p]
           spent == IF BudgetWired THEN a.spent + cost ELSE 0
<1>2. a \in Attempt /\ Good(a) /\ a.spent \in Nat /\ a.pc = "answered"
      /\ UNCHANGED <<committed, Durable, starts, faults>>
  BY AttemptFacts DEF Account
<1>3. /\ spent \in 0..(MaxSpend + MaxCost) /\ spent < MaxSpend + MaxCost
      /\ ~BudgetWired => spent = 0
  <2>1. CASE BudgetWired
    <3>1. a.spent < MaxSpend
      BY <1>2, <2>1 DEF Good
    <3>2. QED
      BY <1>2, <2>1, <3>1, ModelCallsSizes
  <2>2. CASE ~BudgetWired
    BY <2>2, ModelCallsSizes
  <2>3. QED
    BY <2>1, <2>2
<1> HIDE DEF spent
<1>4. CASE Abandon(p) /\ BudgetWired
  BY <1>2, <1>4, AbandonKeeps, AttemptFacts
<1>5. CASE BudgetWired /\ run' = [run EXCEPT ![p].pc = "judge", ![p].spent = spent]
  <2> DEFINE b1 == [a EXCEPT !.pc = "judge"]
             b  == [b1 EXCEPT !.spent = spent]
  <2>1. b1 \in Attempt /\ b1.pc = "judge" /\ SameBut(b1, a, "pc")
    BY <1>2, SetField DEF PC
  <2>2. run' = [run EXCEPT ![p] = b]
    BY <1>5, AttemptFacts
  <2> HIDE DEF b1
  <2>3. b \in Attempt /\ b.spent = spent /\ SameBut(b, b1, "spent")
    BY <1>3, <2>1, SetField
  <2> HIDE DEF b
  <2>4. /\ b.pc = "judge" /\ b.tries = a.tries /\ b.asked = a.asked /\ b.mem = a.mem
    BY <2>1, <2>3 DEF SameBut
  <2>5. Good(b)
    BY <1>2, <1>3, <2>3, <2>4 DEF Good, Asking
  <2>6. QED
    BY <1>2, <1>5, <2>2, <2>3, <2>4, <2>5, AttemptFacts, RunnerMoves DEF Durable
<1>6. CASE run' = [run EXCEPT ![p].spent = spent,
                              ![p].pc = IF LedgerWired THEN "record" ELSE "put"]
  <2> DEFINE pc == IF LedgerWired THEN "record" ELSE "put"
             b1 == [a EXCEPT !.spent = spent]
             b  == [b1 EXCEPT !.pc = pc]
  <2>1. pc \in PC
    BY DEF PC
  <2>2. b1 \in Attempt /\ b1.spent = spent /\ SameBut(b1, a, "spent")
    BY <1>2, <1>3, SetField
  <2>3. run' = [run EXCEPT ![p] = b]
    BY <1>6, AttemptFacts
  <2> HIDE DEF b1, pc
  <2>4. b \in Attempt /\ b.pc = pc /\ SameBut(b, b1, "pc")
    BY <2>1, <2>2, SetField
  <2> HIDE DEF b
  <2>5. /\ b.made = a.made /\ b.req = a.req /\ b.tries = a.tries /\ b.asked = a.asked
        /\ b.mem = a.mem /\ b.spent = spent
    BY <2>2, <2>4 DEF SameBut
  <2>6. pc \in {"record", "put"} /\ (pc = "record" <=> LedgerWired)
    BY DEF pc
  <2>7. Good(b)
    BY <1>2, <1>3, <2>4, <2>5, <2>6 DEF Good, Asking
  <2>8. QED
    BY <1>2, <2>3, <2>4, <2>5, <2>6, <2>7, AttemptFacts, RunnerMoves DEF Durable
<1>7. QED
  BY <1>1, <1>4, <1>5, <1>6 DEF spent

LEMMA JudgeKeeps ==
    ASSUME MInv, NEW p \in Runners, Judge(p)
    PROVE  MInv'
<1>1. PICK c \in Unjudged(p) :
          run' = [run EXCEPT ![p].pc = "check", ![p].judged = @ \cup {c}, ![p].asked = 0,
                             ![p].req = [kind |-> "judge", chunk |-> c]]
  BY DEF Judge
<1> DEFINE a  == run[p]
           j  == a.judged \cup {c}
           q  == [kind |-> "judge", chunk |-> c]
           b1 == [a EXCEPT !.pc = "check"]
           b2 == [b1 EXCEPT !.judged = j]
           b3 == [b2 EXCEPT !.asked = 0]
           b  == [b3 EXCEPT !.req = q]
<1>2. a \in Attempt /\ Good(a) /\ a.pc = "judge" /\ a.tries \in Nat
  BY AttemptFacts DEF Judge
<1>3. c \in Chunks /\ j \in SUBSET Chunks
  BY <1>1, <1>2 DEF Unjudged, Attempt
<1>4. q \in Requests /\ 0 \in 0..(MaxRepairs + 1)
  BY <1>3, ModelCallsSizes DEF Requests
<1>5. b1 \in Attempt /\ b1.pc = "check" /\ SameBut(b1, a, "pc")
  BY <1>2, SetField DEF PC
<1>6. b1.judged = a.judged
  BY <1>5 DEF SameBut
<1>7. run' = [run EXCEPT ![p] = b]
  BY <1>1, <1>6, AttemptFacts
<1> HIDE DEF b1, j
<1>8. b2 \in Attempt /\ SameBut(b2, b1, "judged")
  BY <1>3, <1>5, SetField
<1> HIDE DEF b2
<1>9. b3 \in Attempt /\ b3.asked = 0 /\ SameBut(b3, b2, "asked")
  BY <1>4, <1>8, SetField
<1> HIDE DEF b3
<1>10. b \in Attempt /\ b.req = q /\ SameBut(b, b3, "req")
  BY <1>4, <1>9, SetField
<1> HIDE DEF b
<1>11. /\ b.pc = "check" /\ b.req.kind = "judge" /\ b.tries = a.tries /\ b.asked = 0
       /\ b.spent = a.spent /\ b.mem = a.mem
  BY <1>5, <1>8, <1>9, <1>10 DEF SameBut
<1>12. Good(b)
  BY <1>2, <1>11 DEF Good
<1>13. QED
  BY <1>2, <1>7, <1>10, <1>11, <1>12, AttemptFacts, RunnerMoves DEF Judge, Durable

LEMMA EndingKeeps ==
    ASSUME MInv, NEW p \in Runners, Finish(p) \/ Crash(p)
    PROVE  MInv'
<1>1. CASE Finish(p)
  BY <1>1, AbandonKeeps, AttemptFacts DEF Finish
<1>2. CASE Crash(p)
  BY <1>2, AbandonKeeps, AttemptFacts DEF Crash
<1>3. QED
  BY <1>1, <1>2

\* A step of p on its request is nothing to the other requests.
LEMMA OtherRequests ==
    ASSUME MInv, NEW p \in Runners, NEW b, run' = [run EXCEPT ![p] = b], b.req = run[p].req,
           NEW r \in Requests \ {run[p].req}
    PROVE  /\ Pending(r, {"answered", "record"})' = Pending(r, {"answered", "record"})
           /\ Pending(r, {"call"})' = Pending(r, {"call"})
BY DEF Pending, MInv, CallsTypeOK

LEMMA AnsweredKeeps ==
    ASSUME MInv, NEW p \in Runners, Answered(p)
    PROVE  MInv'
<1>1. PICK ans \in Replies :
          run' = [run EXCEPT ![p].pc = "answered", ![p].answer = ans, ![p].asked = @ + 1]
  BY DEF Answered
<1> DEFINE a  == run[p]
           b1 == [a EXCEPT !.pc = "answered"]
           b2 == [b1 EXCEPT !.answer = ans]
           b  == [b2 EXCEPT !.asked = a.asked + 1]
<1>2. /\ a \in Attempt /\ Good(a) /\ a.pc = "call" /\ a.tries \in Nat /\ a.asked \in Nat
      /\ a.req \in Requests
      /\ paid' = [paid EXCEPT ![a.req] = @ + 1]
      /\ UNCHANGED <<committed, ledger, stored, starts, faults>>
  BY AttemptFacts DEF Answered
<1>3. /\ paid \in [Requests -> Nat] /\ paid' \in [Requests -> Nat]
      /\ \A r \in Requests : paid[r] <= paid'[r]
      /\ paid'[a.req] = paid[a.req] + 1 /\ paid'[a.req] > 0
      /\ \A r \in Requests \ {a.req} : paid'[r] = paid[r]
  <2>1. paid \in [Requests -> Nat]
    BY DEF MInv, CallsTypeOK
  <2>2. QED
    BY <1>2, <2>1
<1>4. a.asked <= a.tries /\ a.asked + 1 \in 0..(MaxRepairs + 1)
  <2>1. a.tries \in 0..MaxRepairs /\ a.asked <= a.tries
    BY <1>2 DEF Attempt, Good
  <2>2. QED
    BY <1>2, <2>1, ModelCallsSizes
<1>5. b1 \in Attempt /\ b1.pc = "answered" /\ SameBut(b1, a, "pc")
  BY <1>2, SetField DEF PC
<1>6. b1.asked = a.asked
  BY <1>5 DEF SameBut
<1> HIDE DEF b1
<1>7. b2 \in Attempt /\ SameBut(b2, b1, "answer")
  BY <1>5, SetField
<1>8. b2.asked = a.asked
  BY <1>6, <1>7 DEF SameBut
<1>9. run' = [run EXCEPT ![p] = b]
  BY <1>1, <1>8, AttemptFacts DEF b1
<1> HIDE DEF b2
<1>10. b \in Attempt /\ b.asked = a.asked + 1 /\ SameBut(b, b2, "asked")
  BY <1>4, <1>7, SetField
<1> HIDE DEF b
<1>11. /\ b.pc = "answered" /\ b.made = a.made /\ b.req = a.req /\ b.tries = a.tries
       /\ b.spent = a.spent /\ b.mem = a.mem
  BY <1>5, <1>7, <1>10 DEF SameBut
<1>12. CallsTypeOK'
  BY <1>2, <1>3, <1>9, <1>10 DEF MInv, CallsTypeOK
<1>13. (\A q \in Runners : Good(run[q]))'
  <2> SUFFICES ASSUME NEW q \in Runners PROVE Good(run[q])'
    OBVIOUS
  <2>1. CASE q = p
    <3>1. PICK k : k = b
      OBVIOUS
    <3>2. \A r \in Requests : a.mem[r] # "none" => paid'[r] > 0
      BY <1>2, <1>3 DEF Good
    <3>3. Good(k)'
      BY <1>2, <1>3, <1>4, <1>10, <1>11, <3>1, <3>2 DEF Good, Asking
    <3>4. run'[q] = k
      BY <1>9, <2>1, <3>1, AttemptFacts
    <3>5. QED
      BY <3>3, <3>4 DEF Good
  <2>2. CASE q # p
    <3>1. PICK c : c = run[q] /\ c = run'[q]
      BY <1>9, <2>2, AttemptFacts
    <3>2. Good(c) /\ c.req \in Requests
      BY <3>1, AttemptFacts
    <3>3. Good(c)'
      BY <1>3, <3>2, GoodStays
    <3>4. QED
      BY <3>1, <3>3 DEF Good
  <2>3. QED
    BY <2>1, <2>2
<1>14. LedgerPaid'
  BY <1>2, <1>3 DEF MInv, LedgerPaid
<1>15. ChargesBounded'
  <2> SUFFICES ASSUME LedgerWired, ~BudgetWired, NEW r \in Requests, r.kind = "generate"
               PROVE  IF ledger[r] = {}
                         THEN paid'[r] <= faults
                                 + Cardinality(Pending(r, {"answered", "record"})')
                         ELSE paid'[r] + Cardinality(Pending(r, {"call"})')
                                 <= Cardinality(Runners) + faults
    BY <1>2 DEF ChargesBounded
  <2>1. IF ledger[r] = {} THEN paid[r] <= faults + Cardinality(Pending(r, {"answered", "record"}))
        ELSE paid[r] + Cardinality(Pending(r, {"call"})) <= Cardinality(Runners) + faults
    BY DEF MInv, ChargesBounded
  <2>2. {"answered", "record"} \in SUBSET PC /\ {"call"} \in SUBSET PC
    BY DEF PC
  <2>3. CASE r # a.req
    BY <1>3, <1>9, <1>11, <2>1, <2>2, <2>3, OtherRequests
  <2>4. CASE r = a.req
    <3> DEFINE A == Pending(r, {"answered", "record"})
               C == Pending(r, {"call"})
    <3>1. A \in SUBSET Runners /\ C \in SUBSET Runners
      BY DEF Pending
    <3>2. A' = A \cup {p} /\ p \notin A
      BY <1>2, <1>9, <1>11, <2>4, AttemptFacts DEF Pending
    <3>3. C' = C \ {p} /\ p \in C
      BY <1>2, <1>9, <1>11, <2>4, AttemptFacts DEF Pending
    <3>4. paid[r] \in Nat /\ faults \in Nat /\ paid'[r] = paid[r] + 1
      BY <1>3, <2>4, AttemptFacts
    <3> HIDE DEF A, C
    <3>5. /\ Cardinality(A') = Cardinality(A) + 1 /\ Cardinality(A) \in Nat
          /\ Cardinality(C') = Cardinality(C) - 1 /\ Cardinality(C) \in Nat
          /\ Cardinality(Runners) \in Nat
      BY <3>1, <3>2, <3>3, Counting
    <3>6. QED
      BY <2>1, <3>4, <3>5 DEF A, C
  <2>5. QED
    BY <2>3, <2>4
<1>16. QED
  BY <1>12, <1>13, <1>14, <1>15 DEF MInv

\* The first row of a request fixes how often it can still be charged.
LEMMA RecordKeeps ==
    ASSUME MInv, NEW p \in Runners, Record(p)
    PROVE  MInv'
<1> DEFINE a == run[p]
           b == [a EXCEPT !.pc = "put"]
<1>1. /\ a \in Attempt /\ Good(a) /\ a.pc = "record" /\ a.req \in Requests /\ a.answer \in Replies
      /\ UNCHANGED <<committed, stored, paid, starts>>
  <2>1. a.answer \in Replies
    BY AttemptFacts DEF Attempt
  <2>2. QED
    BY <2>1, AttemptFacts DEF Record
<1>2. b \in Attempt /\ b.pc = "put" /\ SameBut(b, a, "pc")
  BY <1>1, SetField DEF PC
<1>3. run' = [run EXCEPT ![p] = b]
  BY DEF Record, Goto
<1> HIDE DEF b
<1>4. Good(b) /\ b.req = a.req
  BY <1>1, <1>2 DEF Good, SameBut, Asking
<1>5. CASE SpendFault /\ UNCHANGED ledger
  BY <1>1, <1>2, <1>3, <1>4, <1>5, FaultFacts, AttemptFacts, RunnerMoves
<1>6. CASE ledger' = [ledger EXCEPT ![a.req] = @ \cup {a.answer}] /\ UNCHANGED faults
  <2>1. /\ ledger \in [Requests -> SUBSET Replies] /\ ledger' \in [Requests -> SUBSET Replies]
        /\ ledger'[a.req] # {}
        /\ \A r \in Requests \ {a.req} : ledger'[r] = ledger[r]
    <3>1. ledger \in [Requests -> SUBSET Replies]
      BY DEF MInv, CallsTypeOK
    <3>2. QED
      BY <1>1, <1>6, <3>1
  <2>2. CallsTypeOK'
    BY <1>1, <1>2, <1>3, <1>6, <2>1 DEF MInv, CallsTypeOK
  <2>3. (\A q \in Runners : Good(run[q]))'
    <3> SUFFICES ASSUME NEW q \in Runners PROVE Good(run[q])'
      OBVIOUS
    <3>1. run'[q] = (IF q = p THEN b ELSE run[q]) /\ Good(run[q])
      BY <1>3, AttemptFacts
    <3>2. QED
      BY <1>1, <1>4, <3>1 DEF Good
  <2>4. LedgerPaid'
    BY <1>1, <2>1 DEF MInv, LedgerPaid, Good
  <2>5. ChargesBounded'
    <3> SUFFICES ASSUME LedgerWired, ~BudgetWired, NEW r \in Requests, r.kind = "generate"
                 PROVE  IF ledger'[r] = {}
                           THEN paid[r] <= faults
                                   + Cardinality(Pending(r, {"answered", "record"})')
                           ELSE paid[r] + Cardinality(Pending(r, {"call"})')
                                   <= Cardinality(Runners) + faults
      BY <1>1, <1>6 DEF ChargesBounded
    <3> DEFINE A == Pending(r, {"answered", "record"})
               C == Pending(r, {"call"})
    <3>1. IF ledger[r] = {} THEN paid[r] <= faults + Cardinality(A)
          ELSE paid[r] + Cardinality(C) <= Cardinality(Runners) + faults
      BY DEF MInv, ChargesBounded
    <3>2. {"answered", "record"} \in SUBSET PC /\ {"call"} \in SUBSET PC
      BY DEF PC
    <3>3. CASE r # a.req
      BY <1>3, <1>4, <2>1, <3>1, <3>2, <3>3, OtherRequests
    <3>4. CASE r = a.req
      <4>1. A \in SUBSET Runners /\ C \in SUBSET Runners /\ A \cap C = {}
        BY DEF Pending
      <4>2. C' = C
        BY <1>1, <1>2, <1>3, AttemptFacts DEF Pending
      <4>3. paid[r] \in Nat /\ faults \in Nat
        BY AttemptFacts DEF MInv, CallsTypeOK
      <4> HIDE DEF A, C
      <4>4. /\ Cardinality(A) + Cardinality(C) <= Cardinality(Runners)
            /\ Cardinality(A) \in Nat /\ Cardinality(C) \in Nat /\ Cardinality(Runners) \in Nat
        BY <4>1, Counting, CountingApart
      <4>5. paid[r] + Cardinality(C) <= Cardinality(Runners) + faults
        BY <3>1, <4>3, <4>4
      <4>6. QED
        BY <2>1, <3>4, <4>2, <4>5 DEF C
    <3>5. QED
      BY <3>3, <3>4
  <2>6. QED
    BY <2>2, <2>3, <2>4, <2>5 DEF MInv
<1>7. QED
  BY <1>5, <1>6 DEF Record

-----------------------------------------------------------------------------
(* Theorems. *)

LEMMA InitIsGood == Init => MInv
<1> SUFFICES ASSUME Init PROVE MInv
  OBVIOUS
<1>1. 0 \in 0..MaxStarts /\ 0 \in 0..MaxFaults
  BY ModelCallsSizes
<1>2. CallsTypeOK
  BY <1>1, AbandonIsGood DEF Init, CallsTypeOK
<1>3. \A p \in Runners : Good(run[p])
  BY AbandonIsGood DEF Init
<1>4. LedgerPaid
  BY DEF Init, LedgerPaid
<1>5. ChargesBounded
  <2> SUFFICES ASSUME NEW r \in Requests
               PROVE  0 <= 0 + Cardinality(Pending(r, {"answered", "record"}))
    BY DEF Init, ChargesBounded
  <2>1. Pending(r, {"answered", "record"}) \in SUBSET Runners
    BY DEF Pending
  <2>2. QED
    BY <2>1, Counting
<1>6. QED
  BY <1>2, <1>3, <1>4, <1>5 DEF MInv

\* The inductive invariant holds of every behaviour.
THEOREM CallsInvariance == Spec => []MInv
<1>1. Init => MInv
  BY InitIsGood
<1>2. MInv /\ [Next]_vars => MInv'
  <2> SUFFICES ASSUME MInv, [Next]_vars PROVE MInv'
    OBVIOUS
  <2>1. ASSUME NEW p \in Runners, Start(p) PROVE MInv'
    BY <2>1, StartKeeps
  <2>2. ASSUME NEW p \in Runners, Crash(p) \/ JudgeTimesOut(p) PROVE MInv'
    BY <2>2, EndingKeeps, LeavingKeeps
  <2>3. ASSUME NEW p \in Runners, Proceed(p) PROVE MInv'
    BY <2>3, LeavingKeeps, EndingKeeps, VisitKeeps, EmitKeeps, RepairKeeps, CheckKeeps,
       RefusedKeeps, ServeKeeps, NotInLedgerKeeps, AnsweredKeeps, AccountKeeps, RecordKeeps,
       CachePutKeeps, JudgeKeeps DEF Proceed
  <2>4. CASE UNCHANGED vars
    BY <2>4 DEF vars, MInv, CallsTypeOK, Good, LedgerPaid, ChargesBounded, Pending
  <2>5. QED
    BY <2>1, <2>2, <2>3, <2>4 DEF Next
<1>3. QED
  BY <1>1, <1>2, PTL DEF Spec

\* The state keeps its types.
THEOREM CallsTypes == Spec => []CallsTypeOK
BY CallsInvariance, PTL DEF MInv

\* No stage attempt spends a whole call beyond its budget (BudgetState.check).
THEOREM SpendIsBounded == Spec => []SpendBounded
<1>1. MInv => SpendBounded
  BY DEF MInv, Good, SpendBounded
<1>2. QED
  BY <1>1, CallsInvariance, PTL

\* Caches and ledger never serve what was never paid for (ModelGateway.generate).
THEOREM OnlyPaidIsServed == Spec => []ServedWasPaid
<1>1. MInv => ServedWasPaid
  BY DEF MInv, Good, LedgerPaid, ServedWasPaid
<1>2. QED
  BY <1>1, CallsInvariance, PTL

\* A generation call is charged at most once for each overlapping execution and
\* each failure (ModelGateway.generate, get_by_fingerprint).
THEOREM ChargesAreAccountedFor == Spec => []PaidOncePerFailure
<1>1. MInv => PaidOncePerFailure
  <2> SUFFICES ASSUME MInv, LedgerWired, ~BudgetWired, NEW r \in Requests, r.kind = "generate"
               PROVE  paid[r] <= Cardinality(Runners) + faults
    BY DEF PaidOncePerFailure
  <2> DEFINE A == Pending(r, {"answered", "record"})
             C == Pending(r, {"call"})
  <2>1. IF ledger[r] = {} THEN paid[r] <= faults + Cardinality(A)
        ELSE paid[r] + Cardinality(C) <= Cardinality(Runners) + faults
    BY DEF MInv, ChargesBounded
  <2>2. A \in SUBSET Runners /\ C \in SUBSET Runners
    BY DEF Pending
  <2>3. paid[r] \in Nat /\ faults \in Nat
    BY DEF MInv, CallsTypeOK
  <2> HIDE DEF A, C
  <2>4. /\ Cardinality(A) <= Cardinality(Runners) /\ Cardinality(A) \in Nat
        /\ Cardinality(C) \in Nat /\ Cardinality(Runners) \in Nat
    BY <2>2, Counting
  <2>5. QED
    BY <2>1, <2>3, <2>4
<1>2. QED
  BY <1>1, CallsInvariance, PTL

-----------------------------------------------------------------------------
(* How far an attempt is from its end. *)

Pos(pc) == CASE pc = "check" -> 8 [] pc = "lookup" -> 7 [] pc = "call" -> 6
             [] pc = "answered" -> 5 [] pc = "record" -> 4 [] pc = "put" -> 3
             [] pc = "reply" -> 2 [] pc = "pick" -> 1 [] OTHER -> 0

\* The positions, one by one.
LEMMA PosValues ==
    /\ Pos("check") = 8 /\ Pos("lookup") = 7 /\ Pos("call") = 6 /\ Pos("answered") = 5
    /\ Pos("record") = 4 /\ Pos("put") = 3 /\ Pos("reply") = 2 /\ Pos("pick") = 1
    /\ Pos("judge") = 0 /\ Pos("idle") = 0
BY DEF Pos

\* The candidates still to judge, and what is left of the judgement in hand.
JudgingRank(a) == 10 * (NumChunks - Cardinality(a.judged)) + Pos(a.pc)

\* The visits still to make, each with all its repairs, and what is left of the
\* visit in hand.
PerVisit == 10 * (MaxRepairs + 2)
VisitsLeft(a) == (VisitLimit - a.visits) * PerVisit
VisitRank(a) == IF a.pc = "pick" THEN 1 ELSE 10 * (MaxRepairs - a.tries) + Pos(a.pc)

Rank(a) ==
    IF a.pc = "pick" \/ (a.pc # "judge" /\ a.req.kind = "generate")
       THEN 10 * NumChunks + 9 + VisitsLeft(a) + VisitRank(a)
       ELSE JudgingRank(a)

MaxRank == 10 * NumChunks + 10 + VisitLimit * PerVisit + PerVisit

\* The attempt is over, or nearer to its end.
Nearer(b, a) == b.pc = "idle" \/ Rank(b) < Rank(a)

\* What the measure is made of are natural numbers.
LEMMA RankFacts ==
    ASSUME NEW a \in Attempt
    PROVE  /\ NumChunks \in Nat /\ Cardinality(a.judged) \in 0..NumChunks
           /\ VisitsLeft(a) \in Nat /\ VisitsLeft(a) <= VisitLimit * PerVisit
           /\ VisitLimit * PerVisit \in Nat
           /\ a.tries \in Nat /\ a.tries <= MaxRepairs /\ MaxRepairs \in Nat
           /\ Pos(a.pc) \in 0..8 /\ PerVisit \in Nat /\ PerVisit = 10 * (MaxRepairs + 2)
<1>1. /\ NumChunks \in Nat /\ MaxRepairs \in Nat /\ VisitLimit \in Nat /\ PerVisit \in Nat
      /\ a.tries \in 0..MaxRepairs /\ a.visits \in 0..VisitLimit /\ a.judged \in SUBSET Chunks
  BY ModelCallsSizes DEF Attempt, VisitLimit, PerVisit
<1>2. Cardinality(a.judged) \in 0..NumChunks
  <2>1. IsFiniteSet(Chunks) /\ Cardinality(Chunks) = NumChunks
    <3>1. 1 \in Int /\ NumChunks \in Int /\ ~(1 > NumChunks)
      BY ModelCallsSizes
    <3>2. IsFiniteSet(1..NumChunks)
          /\ Cardinality(1..NumChunks) = IF 1 > NumChunks THEN 0 ELSE NumChunks - 1 + 1
      BY <3>1, FS_Interval
    <3>3. QED
      BY <3>1, <3>2 DEF Chunks
  <2>2. IsFiniteSet(a.judged) /\ Cardinality(a.judged) <= NumChunks
    BY <1>1, <2>1, FS_Subset
  <2>3. Cardinality(a.judged) \in Nat
    BY <2>2, FS_CardinalityType
  <2>4. QED
    BY <1>1, <2>2, <2>3
<1>3. VisitsLeft(a) \in Nat /\ VisitsLeft(a) <= VisitLimit * PerVisit /\ VisitLimit * PerVisit \in Nat
  <2>1. PICK v \in 0..VisitLimit : v = a.visits
    BY <1>1
  <2>2. VisitLimit - v \in Nat /\ VisitLimit - v <= VisitLimit
    BY <1>1
  <2>3. \A x, y, k \in Nat : x * k \in Nat /\ (x <= y => x * k <= y * k)
    OBVIOUS
  <2>4. QED
    BY <1>1, <2>1, <2>2, <2>3 DEF VisitsLeft
<1>4. Pos(a.pc) \in 0..8
  BY DEF Pos
<1>5. QED
  BY <1>1, <1>2, <1>3, <1>4 DEF PerVisit

\* An attempt is never further from its end than MaxRank steps.
LEMMA RankIsBounded ==
    ASSUME NEW a \in Attempt
    PROVE  Rank(a) \in 0..MaxRank
BY RankFacts DEF Rank, MaxRank, JudgingRank, VisitRank

\* Within a visit or a judgement every step leads towards the reply.
LEMMA Downhill ==
    ASSUME NEW a \in Attempt, NEW b \in Attempt,
           b.visits = a.visits, b.tries = a.tries, b.judged = a.judged, b.req = a.req,
           a.pc \notin {"idle", "pick", "judge"}, Pos(b.pc) < Pos(a.pc),
           b.pc = "pick" => a.req.kind = "generate",
           b.pc = "judge" => a.req.kind # "generate"
    PROVE  Nearer(b, a)
<1>1. VisitsLeft(b) = VisitsLeft(a)
  BY DEF VisitsLeft
<1>2. Pos(a.pc) >= 2 /\ Pos(a.pc) \in 0..8 /\ Pos(b.pc) \in 0..8
  BY DEF Attempt, PC, Pos
<1>3. CASE a.req.kind = "generate"
  <2>1. /\ Rank(a) = 10 * NumChunks + 9 + VisitsLeft(a) + 10 * (MaxRepairs - a.tries) + Pos(a.pc)
    BY <1>3, RankFacts DEF Rank, VisitRank
  <2>2. Rank(b) = 10 * NumChunks + 9 + VisitsLeft(a) + VisitRank(b)
    BY <1>1, <1>3 DEF Rank
  <2>3. VisitRank(b) < 10 * (MaxRepairs - a.tries) + Pos(a.pc) /\ VisitRank(b) \in Int
    BY <1>2, RankFacts DEF VisitRank
  <2>4. QED
    BY <2>1, <2>2, <2>3, RankFacts DEF Nearer
<1>4. CASE a.req.kind # "generate"
  <2>1. Rank(a) = JudgingRank(a) /\ Rank(b) = JudgingRank(b)
    BY <1>4 DEF Rank
  <2>2. QED
    BY <1>2, <2>1, RankFacts DEF Nearer, JudgingRank
<1>5. QED
  BY <1>3, <1>4

\* A visit uses up one of the visits.
LEMMA VisitNears ==
    ASSUME CallsTypeOK, CallsTypeOK', NEW p \in Runners, Visit(p)
    PROVE  Nearer(run'[p], run[p])
<1> DEFINE a == run[p]
           b == run'[p]
<1>1. a \in Attempt /\ b \in Attempt
  BY DEF CallsTypeOK
<1>2. /\ a.pc = "pick" /\ b.pc = "check" /\ b.visits = a.visits + 1 /\ b.tries = 0
      /\ b.req.kind = "generate" /\ a.visits < VisitLimit
  BY DEF Visit, Wanting, CallsTypeOK
<1> HIDE DEF a, b
<1>3. VisitsLeft(a) = VisitsLeft(b) + PerVisit
  <2>1. PICK v \in Nat : v = a.visits
    BY <1>1 DEF Attempt
  <2>2. VisitLimit \in Nat
    BY ModelCallsSizes DEF VisitLimit
  <2>3. PICK w \in Nat : w = VisitLimit - (v + 1)
    BY <1>2, <2>1, <2>2
  <2>4. VisitLimit - v = w + 1
    BY <2>2, <2>3
  <2>5. PerVisit \in Nat
    BY <1>1, RankFacts
  <2>6. (w + 1) * PerVisit = w * PerVisit + PerVisit
    BY <2>5
  <2>7. QED
    BY <1>2, <2>1, <2>3, <2>4, <2>6 DEF VisitsLeft
<1>4. Rank(a) = 10 * NumChunks + 9 + VisitsLeft(a) + 1
  BY <1>2 DEF Rank, VisitRank
<1>5. Rank(b) = 10 * NumChunks + 9 + VisitsLeft(b) + (10 * (MaxRepairs - b.tries) + 8)
  BY <1>2 DEF Rank, VisitRank, Pos
<1>6. QED
  BY <1>1, <1>2, <1>3, <1>4, <1>5, RankFacts DEF Nearer, a, b

\* The last visit is over.
LEMMA GenerationDoneNears ==
    ASSUME CallsTypeOK, CallsTypeOK', NEW p \in Runners, GenerationDone(p)
    PROVE  Nearer(run'[p], run[p])
<1> DEFINE a == run[p]
           b == run'[p]
<1>1. a \in Attempt /\ b \in Attempt
  BY DEF CallsTypeOK
<1>2. a.pc = "pick" /\ b.pc = "judge" /\ b.judged = a.judged
  BY DEF GenerationDone, Goto, CallsTypeOK
<1> HIDE DEF a, b
<1>3. /\ Rank(a) = 10 * NumChunks + 9 + VisitsLeft(a) + 1
      /\ Rank(b) = 10 * (NumChunks - Cardinality(b.judged)) + 0
  BY <1>2 DEF Rank, VisitRank, JudgingRank, Pos
<1>4. QED
  BY <1>1, <1>2, <1>3, RankFacts DEF Nearer, a, b

\* A repair uses up one of the repairs of its visit.
LEMMA RepairNears ==
    ASSUME CallsTypeOK, CallsTypeOK', NEW p \in Runners, Repair(p)
    PROVE  Nearer(run'[p], run[p])
<1> DEFINE a == run[p]
           b == run'[p]
<1>1. a \in Attempt /\ b \in Attempt
  BY DEF CallsTypeOK
<1>2. /\ a.pc = "reply" /\ b.pc = "check" /\ b.visits = a.visits /\ b.tries = a.tries + 1
      /\ b.req = a.req /\ a.req.kind = "generate" /\ a.tries < MaxRepairs
  BY DEF Repair, Generating, CallsTypeOK
<1> HIDE DEF a, b
<1>3. VisitsLeft(b) = VisitsLeft(a)
  BY <1>2 DEF VisitsLeft
<1>4. /\ Rank(a) = 10 * NumChunks + 9 + VisitsLeft(a) + (10 * (MaxRepairs - a.tries) + 2)
      /\ Rank(b) = 10 * NumChunks + 9 + VisitsLeft(a) + (10 * (MaxRepairs - b.tries) + 8)
  BY <1>2, <1>3 DEF Rank, VisitRank, Pos
<1>5. QED
  BY <1>1, <1>2, <1>4, RankFacts DEF Nearer, a, b

\* No candidate is judged twice.
LEMMA JudgeNears ==
    ASSUME CallsTypeOK, CallsTypeOK', NEW p \in Runners, Judge(p)
    PROVE  Nearer(run'[p], run[p])
<1> DEFINE a == run[p]
           b == run'[p]
<1>1. a \in Attempt /\ b \in Attempt
  BY DEF CallsTypeOK
<1>2. PICK c \in Unjudged(p) :
         run' = [run EXCEPT ![p].pc = "check", ![p].judged = @ \cup {c}, ![p].asked = 0,
                            ![p].req = [kind |-> "judge", chunk |-> c]]
  BY DEF Judge
<1>3. /\ a.pc = "judge" /\ b.pc = "check" /\ b.judged = a.judged \cup {c} /\ b.req.kind = "judge"
      /\ c \notin a.judged
  <2>1. run \in [Runners -> Attempt] /\ a \in Attempt
    BY <1>1 DEF CallsTypeOK
  <2>2. c \notin a.judged
    BY <1>2 DEF Unjudged
  <2>3. QED
    BY <1>2, <2>1, <2>2 DEF Judge, Attempt
<1> HIDE DEF a, b
<1>4. Cardinality(b.judged) = Cardinality(a.judged) + 1
  <2>1. IsFiniteSet(a.judged)
    <3>1. IsFiniteSet(Chunks)
      <4>1. 1 \in Int /\ NumChunks \in Int
        BY ModelCallsSizes
      <4>2. QED
        BY <4>1, FS_Interval DEF Chunks
    <3>2. a.judged \in SUBSET Chunks
      BY <1>1 DEF Attempt
    <3>3. QED
      BY <3>1, <3>2, FS_Subset
  <2>2. QED
    BY <1>3, <2>1, FS_AddElement
<1>5. /\ Rank(a) = 10 * (NumChunks - Cardinality(a.judged)) + 0
      /\ Rank(b) = 10 * (NumChunks - Cardinality(b.judged)) + 8
  BY <1>3 DEF Rank, JudgingRank, Pos
<1>6. QED
  BY <1>1, <1>4, <1>5, RankFacts DEF Nearer, a, b

\* The steps of a visit, of a judgement, and the judge's timeout.
Inside(p) == \/ Emit(p) \/ Quarantine(p) \/ Check(p) \/ Refused(p) \/ ServeFromLedger(p)
             \/ NotInLedger(p) \/ Answered(p) \/ ProviderFails(p) \/ Account(p) \/ Record(p)
             \/ CachePut(p) \/ Verdict(p) \/ JudgeTimesOut(p)

\* They all lead on.
LEMMA InsideNears ==
    ASSUME CallsTypeOK, CallsTypeOK', NEW p \in Runners, Inside(p)
    PROVE  Nearer(run'[p], run[p])
<1> DEFINE a == run[p]
           b == run'[p]
<1>1. a \in Attempt /\ b \in Attempt
  BY DEF CallsTypeOK
<1> SUFFICES ASSUME b.pc # "idle" PROVE Nearer(b, a)
  BY DEF Nearer
<1>2. /\ b.visits = a.visits /\ b.tries = a.tries /\ b.judged = a.judged /\ b.req = a.req
      /\ a.pc \notin {"idle", "pick", "judge"} /\ Pos(b.pc) < Pos(a.pc)
      /\ b.pc = "pick" => a.req.kind = "generate"
      /\ b.pc = "judge" => a.req.kind # "generate"
  <2>a. run \in [Runners -> Attempt] /\ a \in Attempt
    BY <1>1 DEF CallsTypeOK
  <2>1. CASE Emit(p) \/ Quarantine(p)
    BY <2>1, <2>a, PosValues DEF Emit, Quarantine, Goto, Generating, Attempt
  <2>2. CASE Verdict(p)
    BY <2>2, <2>a, PosValues DEF Verdict, Goto, Generating, Attempt
  <2>3. CASE Check(p)
    BY <2>3, <2>a, PosValues DEF Check, Attempt
  <2>4. CASE Refused(p)
    BY <2>4, <2>a, PosValues DEF Refused, Abandon, NoAttempt, Goto, Generating, Attempt
  <2>5. CASE ServeFromLedger(p)
    BY <2>5, <2>a, PosValues DEF ServeFromLedger, Attempt
  <2>6. CASE NotInLedger(p)
    BY <2>6, <2>a, PosValues DEF NotInLedger, Goto, Attempt
  <2>7. CASE Answered(p)
    BY <2>7, <2>a, PosValues DEF Answered, Attempt
  <2>8. CASE ProviderFails(p)
    BY <2>8, <2>a, PosValues DEF ProviderFails, Goto, Generating, Attempt
  <2>9. CASE Account(p)
    BY <2>9, <2>a, PosValues DEF Account, Abandon, NoAttempt, Generating, Attempt
  <2>10. CASE Record(p)
    BY <2>10, <2>a, PosValues DEF Record, Goto, Attempt
  <2>11. CASE CachePut(p)
    BY <2>11, <2>a, PosValues DEF CachePut, Attempt
  <2>12. CASE JudgeTimesOut(p)
    BY <2>12, <2>a, PosValues DEF JudgeTimesOut, Goto, Generating, Attempt
  <2>13. QED
    BY <2>1, <2>2, <2>3, <2>4, <2>5, <2>6, <2>7, <2>8, <2>9, <2>10, <2>11, <2>12 DEF Inside
<1> HIDE DEF a, b
<1>3. QED
  BY <1>1, <1>2, Downhill

\* An attempt that is over is over.
LEMMA EndingNears ==
    ASSUME CallsTypeOK, NEW p \in Runners, Finish(p) \/ Crash(p)
    PROVE  Nearer(run'[p], run[p])
BY DEF CallsTypeOK, Finish, Crash, Abandon, NoAttempt, Nearer

\* A step of one runner leaves the others' attempts alone.
LEMMA OthersStay ==
    ASSUME CallsTypeOK, NEW p \in Runners, NEW q \in Runners, q # p,
           Start(q) \/ Proceed(q) \/ Crash(q) \/ JudgeTimesOut(q)
    PROVE  run'[p] = run[p]
<1>a. p \in DOMAIN run /\ q \in DOMAIN run
  BY DEF CallsTypeOK
<1>1. CASE Start(q) \/ GenerationDone(q) \/ Quarantine(q) \/ NotInLedger(q) \/ ProviderFails(q)
           \/ Record(q) \/ Verdict(q) \/ JudgeTimesOut(q)
  BY <1>1, <1>a DEF Start, GenerationDone, Quarantine, NotInLedger, ProviderFails, Record,
     Verdict, JudgeTimesOut, Goto
<1>2. CASE Visit(q) \/ Emit(q) \/ Repair(q)
  BY <1>2, <1>a DEF Visit, Emit, Repair
<1>3. CASE Check(q) \/ ServeFromLedger(q) \/ Answered(q) \/ CachePut(q) \/ Judge(q)
  BY <1>3, <1>a DEF Check, ServeFromLedger, Answered, CachePut, Judge
<1>4. CASE Refused(q) \/ Account(q) \/ Finish(q) \/ Crash(q)
  BY <1>4, <1>a DEF Refused, Account, Finish, Crash, Abandon, Goto
<1>5. QED
  BY <1>1, <1>2, <1>3, <1>4 DEF Proceed

OwnStepNears(p) ==
    Proceed(p) \/ Crash(p) \/ JudgeTimesOut(p) => Nearer(run'[p], run[p])

\* An attempt under way moves only towards its end.
OnlyNearer ==
    \A p \in Runners :
        /\ OwnStepNears(p)
        /\ run[p].pc # "idle" => run'[p] = run[p] \/ Nearer(run'[p], run[p])

\* Every step of a stage attempt, failures included, ends it or brings it nearer
\* to its end, and no step of another execution sets it back (generate_for_plan's
\* guard counter, _generate_one's repairs, the loop over the candidates).
THEOREM AttemptsShrink == Spec => [][OnlyNearer]_vars
<1>1. CallsTypeOK /\ CallsTypeOK' /\ [Next]_vars => [OnlyNearer]_vars
  <2> SUFFICES ASSUME CallsTypeOK, CallsTypeOK', Next, NEW p \in Runners
               PROVE  /\ OwnStepNears(p)
                      /\ run[p].pc # "idle" => run'[p] = run[p] \/ Nearer(run'[p], run[p])
    BY DEF OnlyNearer
  <2>1. \A q \in Runners : OwnStepNears(q)
    BY VisitNears, GenerationDoneNears, RepairNears, JudgeNears, InsideNears, EndingNears
       DEF OwnStepNears, Proceed, Inside
  <2>2. PICK q \in Runners : Start(q) \/ Proceed(q) \/ Crash(q) \/ JudgeTimesOut(q)
    BY DEF Next
  <2>3. CASE q = p
    BY <2>1, <2>2, <2>3 DEF OwnStepNears, Start
  <2>4. CASE q # p
    BY <2>1, <2>2, <2>4, OthersStay
  <2>5. QED
    BY <2>1, <2>3, <2>4
<1>2. QED
  BY <1>1, CallsTypes, PTL DEF Spec

\* The end of an attempt is never more than MaxRank of its own steps away.
EndInReach == \A p \in Runners : Rank(run[p]) \in 0..MaxRank

\* An attempt has a bounded number of steps, whatever provider and ledger do.
THEOREM AttemptsBounded == Spec => []EndInReach
<1>1. CallsTypeOK => EndInReach
  BY RankIsBounded DEF CallsTypeOK, EndInReach
<1>2. QED
  BY <1>1, CallsTypes, PTL

=============================================================================
