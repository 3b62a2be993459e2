-------------------------------- MODULE Gate --------------------------------
(***************************************************************************)
(* What vetter promises, with no sockets, threads or queues: a wrapped     *)
(* command runs only after one ruling to allow it, made once and put on    *)
(* record first; a command the denylist or the parser rejects never runs;  *)
(* and anything that goes wrong ends with the command not run.             *)
(*                                                                         *)
(* "On record" is what the daemon promises about its log: the row has been *)
(* handed to the audit log, whose failure is reported and not fatal.       *)
(***************************************************************************)
CONSTANTS
  Requests,   \* wrapped commands
  Barred      \* commands that must not be allowed

VARIABLES
  ruling,     \* "none", then "allow" or "deny"
  recorded,   \* requests whose ruling is on record
  command     \* "waiting", then "ran" or "stopped"

gateVars == <<ruling, recorded, command>>

GateInit ==
  /\ ruling   = [r \in Requests |-> "none"]
  /\ recorded = {}
  /\ command  = [r \in Requests |-> "waiting"]

Rule(r, d) ==
  /\ ruling[r] = "none"
  /\ d = "allow" => r \notin Barred
  /\ ruling' = [ruling EXCEPT ![r] = d]
  /\ UNCHANGED <<recorded, command>>

Record(r) ==
  /\ ruling[r] # "none"
  /\ recorded' = recorded \cup {r}
  /\ UNCHANGED <<ruling, command>>

Run(r) ==
  /\ command[r] = "waiting"
  /\ ruling[r] = "allow"
  /\ r \in recorded
  /\ command' = [command EXCEPT ![r] = "ran"]
  /\ UNCHANGED <<ruling, recorded>>

(* Denied, failed closed, or given up by the user. *)
Stop(r) ==
  /\ command[r] = "waiting"
  /\ command' = [command EXCEPT ![r] = "stopped"]
  /\ UNCHANGED <<ruling, recorded>>

GateNext ==
  \E r \in Requests : Rule(r, "allow") \/ Rule(r, "deny") \/ Record(r) \/ Run(r) \/ Stop(r)

GateSpec == GateInit /\ [][GateNext]_gateVars
=============================================================================
