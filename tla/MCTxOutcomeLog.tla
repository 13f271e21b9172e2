--------------------------- MODULE MCTxOutcomeLog ---------------------------
(***************************************************************************)
(* TxOutcomeLog for TLC.  The reconciliation passes are interchangeable:   *)
(* no action and no property names one of them.                            *)
(***************************************************************************)
EXTENDS TxOutcomeLog, TLC

Symmetry == Permutations(Resolvers)

=============================================================================
