------------------------ MODULE MCPaymentExecution ------------------------
(* Instances of PaymentExecution for TLC: see the cfg files for the sizes. *)
EXTENDS PaymentExecution, TLC

\* Workers and transaction identities are interchangeable; used by the runs
\* that check no liveness property.
Symmetry == Permutations(Worker) \cup Permutations(Tx)
=============================================================================
