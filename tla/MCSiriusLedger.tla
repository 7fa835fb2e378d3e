--------------------------- MODULE MCSiriusLedger ---------------------------
(* Small instances of SiriusLedger for TLC. *)
EXTENDS SiriusLedger, TLC

CONSTANTS p1, p2, a1, a2, e1, e2

Symmetry == Permutations(Procs) \cup Permutations(Approvals) \cup Permutations(Executions)
=============================================================================
