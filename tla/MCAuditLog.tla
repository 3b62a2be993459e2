----------------------------- MODULE MCAuditLog -----------------------------
(* Small instance of AuditLog: four rows of two and three bytes, one of    *)
(* them a parse failure, and a two-byte window, so that the tail's first   *)
(* read nearly always cuts a line.                                         *)
EXTENDS AuditLog

CONSTANTS a1, a2, a3, a4

MCRows == {a1, a2, a3, a4}
MCUi(row) == row # a3
MCSizeOf(row) == IF row \in {a1, a3} THEN 2 ELSE 3
=============================================================================
