--------------------------- MODULE MCDurableJobs ---------------------------
(* DurableJobs on small instances. *)
EXTENDS DurableJobs, TLC

\* Worker identities are interchangeable; used only where no liveness is checked.
WorkerSymmetry == Permutations(Workers)

\* Bounds: in one behaviour either something fails or a client cancels, and a job
\* is cancelled once.
OneTrouble ==
  /\ faults > 0 => \A c \in Clients, j \in Jobs : calls[c] = NoCall /\ ~ rows[j].cancel
  /\ \A c \in Clients : calls[c] # NoCall => ~ rows[calls[c].job].cancel

ProgressSpec == Init /\ [][Next /\ OneTrouble']_vars /\ Fairness

=============================================================================
