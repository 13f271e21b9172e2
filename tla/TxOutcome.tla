----------------------------- MODULE TxOutcome ------------------------------
(***************************************************************************)
(* What the transaction outcome log promises about one transaction,        *)
(* whoever writes it and whatever crashes: the verdict a reader is given   *)
(* is given once, and a definite verdict is the truth.  The promise is the *)
(* one core/meta/txoutcome.go states for the table; TxOutcomeLog shows how *)
(* the engine's writers keep it.                                           *)
(***************************************************************************)

VARIABLES
  fate,     \* what will have become of the transaction's effects
  verdict   \* the terminal a reader of the log is given, or "none"

Fates    == {"open", "committed", "doomed"}
Verdicts == {"none", "committed", "rolled_back", "outcome_unresolvable"}

Init == fate = "open" /\ verdict = "none"

\* The target decides, once: the effects are durable, or they never will be.
Decide ==
  /\ fate = "open" /\ fate' \in {"committed", "doomed"}
  /\ UNCHANGED verdict

\* A resolver settles the transaction with the truth, or gives up on it.
Settle ==
  /\ verdict = "none"
  /\ \/ fate = "committed" /\ verdict' = "committed"
     \/ fate = "doomed" /\ verdict' = "rolled_back"
     \/ verdict' = "outcome_unresolvable"
  /\ UNCHANGED fate

Next == Decide \/ Settle

Spec == Init /\ [][Next]_<<fate, verdict>>

=============================================================================
