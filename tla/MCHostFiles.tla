---------------------------- MODULE MCHostFiles -----------------------------
(* Small instances of the three parts of vetterd that keep files on the    *)
(* host, one of them in each behaviour: AuditLog (four rows of two and     *)
(* three bytes, one of them a parse failure, and a two-byte window, so     *)
(* that the tail's first read nearly always cuts a line); Lifecycle (three *)
(* daemons, two stop commands); Autostart (three moves).                   *)
EXTENDS AuditLog, Lifecycle, Autostart

CONSTANTS a1, a2, a3, a4

MCRows == {a1, a2, a3, a4}
MCUi(row) == row # a3
MCSizeOf(row) == IF row \in {a1, a3} THEN 2 ELSE 3
MCDaemons == 1 .. 3

VARIABLE part

AutostartIdle == platform = "linux" /\ file = Default /\ entry = "absent"

Init ==
  /\ part \in {"audit", "lifecycle", "autostart"}
  /\ AuditInit
  /\ LifecycleInit /\ (part # "lifecycle" => private)
  /\ AutostartInit /\ (part # "autostart" => AutostartIdle)

Next ==
  /\ UNCHANGED part
  /\ \/ part = "audit"     /\ AuditNext     /\ UNCHANGED <<lifecycleVars, autostartVars>>
     \/ part = "lifecycle" /\ LifecycleNext /\ UNCHANGED <<auditVars, autostartVars>>
     \/ part = "autostart" /\ AutostartNext /\ UNCHANGED <<auditVars, lifecycleVars>>

Spec == Init /\ [][Next]_<<part, auditVars, lifecycleVars, autostartVars>>
=============================================================================
