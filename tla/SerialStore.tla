---------------------------- MODULE SerialStore -----------------------------
(***************************************************************************)
(* AllowlistStore, watched: `muddied` records that two writes overlapped,  *)
(* or that a `vet allow` process changed the file behind the daemon's      *)
(* back.  Until then the daemon promises that its store is the file.       *)
(* Nothing in the code is guarded by it.                                   *)
(***************************************************************************)
EXTENDS AllowlistStore

VARIABLE muddied

serialVars == <<storeVars, muddied>>

(* Writers with a write under way. *)
Busy == {w \in AllWriters : ~AtRest(w)}

SerialInit == StoreInit /\ muddied = FALSE

Watch ==
  muddied' = (\/ muddied
              \/ \E v, w \in Busy' : v # w
              \/ \E c \in Clis : c \in Busy /\ disk' # disk)

SerialNext == StoreNext /\ Watch

SerialSpec == SerialInit /\ [][SerialNext]_serialVars

-----------------------------------------------------------------------------
(* While writes are serial, the store is the file whenever no write is     *)
(* under way or has failed.                                                *)
SerialStoreFresh == ~muddied => StoreFresh

(* While writes are serial, rewriting the file loses no other rule. *)
SerialNoLostRule == [][~muddied' => OnlyItsRule]_serialVars
=============================================================================
