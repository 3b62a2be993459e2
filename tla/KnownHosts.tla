----------------------------- MODULE KnownHosts -----------------------------
(***************************************************************************)
(* The hosts the user knows: known-hosts.yaml, the daemon's copy behind    *)
(* its lock, and the threads that add to both (known_hosts.rs, add_host;   *)
(* vetterd/src/suggestions.rs, add_known_host).                            *)
(*                                                                         *)
(* An add rewrites the file without a lock around reading and writing it,  *)
(* loads it again, replaces the copy under the write lock, and then goes   *)
(* over the cards with a snapshot of the copy.  `reading` is whether a     *)
(* connection worker holds the read lock.                                  *)
(***************************************************************************)
EXTENDS Signals

CONSTANTS
  Builtin,   \* the patterns compiled in
  Adders     \* threads that add: the admin thread, the window's threads

VARIABLES
  khFile,    \* the patterns of known-hosts.yaml
  khLive,    \* the patterns of Context::known_hosts that are not built in
  kpc,       \* what each adder does next
  khHeld,    \* the patterns it is about to write, to install, or to go by
  reading

khVars == <<khFile, khLive, kpc, khHeld, reading>>

Store == khLive \cup Builtin

KnownHostsInit ==
  /\ khFile = {} /\ khLive = {}
  /\ kpc = [t \in Adders |-> "idle"]
  /\ khHeld = [t \in Adders |-> {}]
  /\ reading = FALSE

(* load_file and the check: the same pattern twice is an error. *)
ReadHosts(t, pattern) ==
  /\ kpc[t] = "idle"
  /\ pattern \notin khFile
  /\ khHeld' = [khHeld EXCEPT ![t] = khFile \cup {pattern}]
  /\ kpc' = [kpc EXCEPT ![t] = "write"]
  /\ UNCHANGED <<khFile, khLive, reading>>

(* write_file: the rename replaces whatever is there now. *)
WriteHosts(t) ==
  /\ kpc[t] = "write"
  /\ khFile' = khHeld[t]
  /\ kpc' = [kpc EXCEPT ![t] = "load"]
  /\ UNCHANGED <<khLive, khHeld, reading>>

(* load_default(None): no project file. *)
LoadHosts(t) ==
  /\ kpc[t] = "load"
  /\ khHeld' = [khHeld EXCEPT ![t] = khFile]
  /\ kpc' = [kpc EXCEPT ![t] = "install"]
  /\ UNCHANGED <<khFile, khLive, reading>>

(* Writing or loading fails: the caller is told, nothing is undone. *)
FailHosts(t) ==
  /\ kpc[t] \in {"write", "load"}
  /\ kpc' = [kpc EXCEPT ![t] = "idle"]
  /\ khHeld' = [khHeld EXCEPT ![t] = {}]
  /\ UNCHANGED <<khFile, khLive, reading>>

(* Under the write lock, so no worker is between its two reads. *)
InstallHosts(t) ==
  /\ kpc[t] = "install" /\ ~reading
  /\ khLive' = khHeld[t]
  /\ kpc' = [kpc EXCEPT ![t] = "snapshot"]
  /\ UNCHANGED <<khFile, khHeld, reading>>

SnapshotHosts(t) ==
  /\ kpc[t] = "snapshot"
  /\ khHeld' = [khHeld EXCEPT ![t] = khLive]
  /\ kpc' = [kpc EXCEPT ![t] = "refresh"]
  /\ UNCHANGED <<khFile, khLive, reading>>

(* refresh_with has gone over the cards, and the add reports success. *)
FinishHosts(t) ==
  /\ kpc[t] = "refresh"
  /\ khHeld' = [khHeld EXCEPT ![t] = {}]
  /\ kpc' = [kpc EXCEPT ![t] = "idle"]
  /\ UNCHANGED <<khFile, khLive, reading>>

(* A worker takes the read locks and lets go of them. *)
LockHosts(held) ==
  /\ reading # held
  /\ reading' = held
  /\ UNCHANGED <<khFile, khLive, kpc, khHeld>>

AdderStep(t) ==
  WriteHosts(t) \/ LoadHosts(t) \/ FailHosts(t) \/ InstallHosts(t) \/ SnapshotHosts(t)
=============================================================================
