---------------------------- MODULE MCAuditLog ----------------------------
(* Small instances of AuditLog: an anchor is due every second line and the *)
(* window keeps two runs, so both limits are passed within four records.   *)
EXTENDS AuditLog, TLC

CONSTANTS w1, w2

MCWriters == {w1, w2}
WriterSymmetry == Permutations(MCWriters)
=============================================================================
