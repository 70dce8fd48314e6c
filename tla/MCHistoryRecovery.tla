------------------------- MODULE MCHistoryRecovery -------------------------
(* Finite instances of HistoryRecovery. *)
EXTENDS HistoryRecovery

CONSTANT A
=============================================================================
