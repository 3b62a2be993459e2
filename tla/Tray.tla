-------------------------------- MODULE Tray --------------------------------
(***************************************************************************)
(* The system-tray item (vetterd/src/tray.rs): a menu with an entry per    *)
(* pending request, which the panel draws from the cards last published.   *)
(*                                                                         *)
(* The queue's change listener only sends a job; the tray thread takes a   *)
(* snapshot of the queue and publishes it, two steps with anything in      *)
(* between.  Clicks arrive from whatever menu the panel last fetched.      *)
(* Icons, labels and tooltips are left out.                                *)
(***************************************************************************)
EXTENDS PendingQueue, FiniteSets

CONSTANTS
  Rank,      \* the order of the request ids: ULIDs sort by time
  MaxMenu    \* MAX_MENU_REQUESTS

ASSUME TrayAssumption ==
  /\ Rank \in [Requests -> Nat]
  /\ MaxMenu \in Nat \ {0}

VARIABLES
  trayJobs,   \* the channel of the tray thread
  trayAt,     \* the snapshot it is about to publish, or what else it is at
  menu,       \* VetterTray::cards
  published   \* the item is on the bus

trayVars == <<trayJobs, trayAt, menu, published>>

Waiting == [op |-> "waiting", cards |-> {}]
Publishing(cards) == [op |-> "publishing", cards |-> cards]
Ended == [op |-> "ended", cards |-> {}]

(* menu_model: the oldest requests get an entry, the rest a line "and n more". *)
MenuEntries ==
  {r \in menu : Cardinality({q \in menu : Rank[q] < Rank[r]}) < MaxMenu}

-----------------------------------------------------------------------------
(* install, which may fail and is then done without. *)
TrayInit(installed) ==
  /\ trayJobs  = <<>>
  /\ trayAt    = IF installed THEN Waiting ELSE Ended
  /\ menu      = Pending
  /\ published = installed

(* Fault: a refresh is not sent while the thread is at work on one. *)
TrayHearsUnlessBusy ==
  trayJobs' = IF trayAt # Waiting THEN trayJobs ELSE Append(trayJobs, "refresh")

(* The change listener. *)
TrayHears == trayJobs' = IF trayAt = Ended THEN trayJobs ELSE Append(trayJobs, "refresh")

(* snapshot *)
TraySnapshot ==
  /\ trayAt = Waiting /\ trayJobs # <<>> /\ Head(trayJobs) = "refresh"
  /\ trayAt'   = Publishing(Pending)
  /\ trayJobs' = Tail(trayJobs)
  /\ UNCHANGED <<menu, published>>

(* update; without a service there is nothing left to drive. *)
TrayPublish ==
  /\ trayAt.op = "publishing"
  /\ IF published
     THEN menu' = trayAt.cards /\ trayAt' = Waiting
     ELSE UNCHANGED menu /\ trayAt' = Ended
  /\ UNCHANGED <<trayJobs, published>>

TrayThreadEnds ==
  /\ trayAt = Waiting /\ trayJobs # <<>> /\ Head(trayJobs) = "stop"
  /\ trayAt'   = Ended
  /\ trayJobs' = Tail(trayJobs)
  /\ UNCHANGED <<menu, published>>

TrayStep == TraySnapshot \/ TrayPublish \/ TrayThreadEnds

(* shutdown: the job is queued, and the item leaves the panel at once. *)
TrayShutdown ==
  /\ published
  /\ trayJobs'  = IF trayAt = Ended THEN trayJobs ELSE Append(trayJobs, "stop")
  /\ published' = FALSE
  /\ UNCHANGED <<trayAt, menu>>

-----------------------------------------------------------------------------
TrayTypeOK ==
  /\ trayJobs \in Seq({"refresh", "stop"})
  /\ trayAt \in [op : {"waiting", "publishing", "ended"}, cards : SUBSET Requests]
  /\ menu \subseteq Requests
  /\ published \in BOOLEAN

(* Whatever was resolved or submitted while a snapshot was on its way, the *)
(* menu is that of the queue once no change is still to be heard of.       *)
TrayCatchesUp(unheard) ==
  published /\ trayAt = Waiting /\ trayJobs = <<>> /\ ~unheard => menu = Pending
=============================================================================
