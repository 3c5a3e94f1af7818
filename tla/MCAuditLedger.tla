--------------------------- MODULE MCAuditLedger ---------------------------
(* TLC instances of AuditLedger. *)
EXTENDS AuditLedger, TLC

MCSymmetry == Permutations(Threads) \cup Permutations(RecordIds)
============================================================================
