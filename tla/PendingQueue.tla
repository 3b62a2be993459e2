---------------------------- MODULE PendingQueue ----------------------------
(***************************************************************************)
(* The pending-prompt queue of vetterd (vetterd/src/pending.rs).           *)
(*                                                                         *)
(* A connection worker that needs a human parks its request here and       *)
(* blocks on the receiving end of a one-shot channel.  Approvers (window,  *)
(* tray, notification, admin socket, rule sweep) resolve requests by id.   *)
(* Every operation runs its map and ring updates inside one mutex, and     *)
(* sends on the channel only after the mutex is released, so Resolve and   *)
(* Deliver are two steps with anything in between.                         *)
(*                                                                         *)
(* The payload of a request is abstracted to the request itself.  The      *)
(* verdict (WireDecision plus reason and rule attribution) is an opaque    *)
(* member of Verdicts.                                                     *)
(***************************************************************************)
EXTENDS Naturals, Sequences

CONSTANTS
  Requests,     \* prompt- or auto-decided requests of this daemon run
  Past,         \* requests of earlier daemon runs, known from the audit log
  Ids,          \* request ids chosen by the clients
  IdOf,         \* the id each request carries; normally a fresh ULID
  NoRequest,    \* an id with no entry in the map
  Verdicts,     \* what an approver, a rule or the parser can decide
  NoVerdict,    \* no decision yet
  ResolvedCap   \* RESOLVED_CAP: rows kept in the history ring

ASSUME QueueAssumption ==
  /\ IdOf \in [Requests -> Ids]
  /\ NoRequest \notin Requests
  /\ NoVerdict \notin Verdicts
  /\ Requests \cap Past = {}
  /\ ResolvedCap \in Nat \ {0}

VARIABLES
  entries,    \* id -> the request whose sender is stored under it
  calls,      \* which entry point each request's worker has called
  raised,     \* requests whose NotifyHint said was_empty_before
  handoff,    \* verdict taken out of the map, not yet sent on the channel
  mail,       \* verdict sitting in the worker's channel
  hungup,     \* requests whose sender was dropped without a verdict
  resolved    \* the history ring, newest first

queueVars == <<entries, calls, raised, handoff, mail, hungup, resolved>>

Rows == [req : Requests \cup Past, verdict : Verdicts]

Row(r, v) == [req |-> r, verdict |-> v]

Pending == {r \in Requests : entries[IdOf[r]] = r}

(* Fault: the hint counts the entry that is about to be inserted. *)
QueueAtMostOne ==
  \E r \in Requests \cup {NoRequest} : \A i \in Ids : entries[i] \in {NoRequest, r}

QueueEmpty == \A i \in Ids : entries[i] = NoRequest

(* Fault: the row is pushed and nothing is ever popped. *)
PushFrontUncapped(row, ring) == <<row>> \o ring

(* The ring after push_front and the pop_back that keeps it at the cap. *)
PushFront(row, ring) ==
  LET longer == <<row>> \o ring
  IN  IF Len(longer) > ResolvedCap THEN SubSeq(longer, 1, ResolvedCap) ELSE longer

-----------------------------------------------------------------------------
(* A queue as PendingQueue::new leaves it. *)
QueueInit ==
  /\ entries  = [i \in Ids |-> NoRequest]
  /\ calls    = [r \in Requests |-> "none"]
  /\ raised   = {}
  /\ handoff  = [r \in Requests |-> NoVerdict]
  /\ mail     = [r \in Requests |-> NoVerdict]
  /\ hungup   = {}
  /\ resolved = <<>>

(* submit_with_render: the hint and the insert are one critical section.   *)
(* A duplicate id replaces the earlier entry, whose sender is dropped.     *)
Submit(r) ==
  /\ calls[r] = "none"
  /\ calls'   = [calls EXCEPT ![r] = "parked"]
  /\ raised'  = IF QueueEmpty THEN raised \cup {r} ELSE raised
  /\ hungup'  = hungup \cup ({entries[IdOf[r]]} \ {NoRequest})
  /\ entries' = [entries EXCEPT ![IdOf[r]] = r]
  /\ UNCHANGED <<handoff, mail, resolved>>

(* Fault: the entry is read and left in the map. *)
ResolveLeavesEntry(i, v) ==
  LET r == entries[i]
  IN  /\ r # NoRequest
      /\ handoff'  = [handoff EXCEPT ![r] = v]
      /\ resolved' = PushFront(Row(r, v), resolved)
      /\ UNCHANGED <<entries, calls, raised, mail, hungup>>

(* resolve, up to the unlock: remove the entry and push its history row.   *)
(* An id with no entry changes nothing and reports false.                  *)
Resolve(i, v) ==
  LET r == entries[i]
  IN  /\ r # NoRequest
      /\ entries'  = [entries EXCEPT ![i] = NoRequest]
      /\ handoff'  = [handoff EXCEPT ![r] = v]
      /\ resolved' = PushFront(Row(r, v), resolved)
      /\ UNCHANGED <<calls, raised, mail, hungup>>

(* Fault: the sender is kept after the send. *)
DeliverKeepsSender(r) ==
  /\ handoff[r] # NoVerdict
  /\ mail' = [mail EXCEPT ![r] = handoff[r]]
  /\ UNCHANGED <<entries, calls, raised, handoff, hungup, resolved>>

(* Fault: the sender is forgotten without a send or a drop. *)
DeliverLost(r) ==
  /\ handoff[r] # NoVerdict
  /\ handoff' = [handoff EXCEPT ![r] = NoVerdict]
  /\ UNCHANGED <<entries, calls, raised, mail, hungup, resolved>>

(* resolve, after the unlock: send the verdict to the blocked worker. *)
Deliver(r) ==
  /\ handoff[r] # NoVerdict
  /\ mail'    = [mail EXCEPT ![r] = handoff[r]]
  /\ handoff' = [handoff EXCEPT ![r] = NoVerdict]
  /\ UNCHANGED <<entries, calls, raised, hungup, resolved>>

(* Fault: a request can be recorded again, or after it was submitted. *)
RecordAutoAgain(r, v) ==
  /\ calls'    = [calls EXCEPT ![r] = "auto"]
  /\ resolved' = PushFront(Row(r, v), resolved)
  /\ UNCHANGED <<entries, raised, handoff, mail, hungup>>

(* record_auto: a matcher decision goes straight to the history ring. *)
RecordAuto(r, v) ==
  /\ calls[r] = "none"
  /\ calls'    = [calls EXCEPT ![r] = "auto"]
  /\ resolved' = PushFront(Row(r, v), resolved)
  /\ UNCHANGED <<entries, raised, handoff, mail, hungup>>

(* cancel_all: drop every sender and the whole history. *)
CancelAll ==
  /\ hungup'   = hungup \cup Pending
  /\ entries'  = [i \in Ids |-> NoRequest]
  /\ resolved' = <<>>
  /\ UNCHANGED <<calls, raised, handoff, mail>>

(* warm_resolved: push_back rows tailed from the audit log until the cap. *)
WarmedWith(rows, ring) ==
  LET all == ring \o rows
  IN  IF Len(all) > ResolvedCap THEN SubSeq(all, 1, ResolvedCap) ELSE all

(* The daemon warms a fresh queue once, before any worker exists. *)
Warm(rows) ==
  /\ resolved = <<>>
  /\ \A r \in Requests : calls[r] = "none"
  /\ resolved' = WarmedWith(rows, resolved)
  /\ UNCHANGED <<entries, calls, raised, handoff, mail, hungup>>

(* Histories an earlier run can have left: one row per past request. *)
PastTails ==
  LET rows(n) == [1 .. n -> [req : Past, verdict : Verdicts]]
  IN  {t \in UNION {rows(n) : n \in 0 .. ResolvedCap} :
         \A j, k \in DOMAIN t : t[j].req = t[k].req => j = k}

QueueNext ==
  \/ \E r \in Requests : Submit(r)
  \/ \E i \in Ids, v \in Verdicts : Resolve(i, v)
  \/ \E r \in Requests : Deliver(r)
  \/ \E r \in Requests, v \in Verdicts : RecordAuto(r, v)
  \/ CancelAll
  \/ \E rows \in PastTails : Warm(rows)

QueueSpec == QueueInit /\ [][QueueNext]_queueVars

-----------------------------------------------------------------------------
QueueTypeOK ==
  /\ entries  \in [Ids -> Requests \cup {NoRequest}]
  /\ calls    \in [Requests -> {"none", "parked", "auto"}]
  /\ raised   \subseteq Requests
  /\ handoff  \in [Requests -> Verdicts \cup {NoVerdict}]
  /\ mail     \in [Requests -> Verdicts \cup {NoVerdict}]
  /\ hungup   \subseteq Requests
  /\ resolved \in Seq(Rows)
  /\ Len(resolved) <= ResolvedCap

(* What has been decided about a parked request, wherever it now is. *)
Answer(r) == IF handoff[r] # NoVerdict THEN handoff[r] ELSE mail[r]

(* The four places a parked request's sender can have got to. *)
InMap(r)     == entries[IdOf[r]] = r
InHand(r)    == handoff[r] # NoVerdict
Delivered(r) == mail[r] # NoVerdict
HungUp(r)    == r \in hungup

(* The sender of every parked request is in exactly one place: the map, a  *)
(* resolving thread's hand, spent on the channel, or dropped.  So no       *)
(* worker blocks on a channel nobody can write to, and none is told twice, *)
(* whatever approvers, cancel_all and a duplicate id do concurrently.      *)
SenderHeldOnce ==
  \A r \in Requests :
    IF calls[r] = "parked"
    THEN /\ InMap(r) \/ InHand(r) \/ Delivered(r) \/ HungUp(r)
         /\ InMap(r) => ~InHand(r) /\ ~Delivered(r) /\ ~HungUp(r)
         /\ InHand(r) => ~Delivered(r) /\ ~HungUp(r)
         /\ Delivered(r) => ~HungUp(r)
    ELSE ~InMap(r) /\ ~InHand(r) /\ ~Delivered(r) /\ ~HungUp(r)

(* The Recent list tells the truth: a row for a parked request shows the   *)
(* verdict that its worker is about to be told or was told, and never a    *)
(* request that is still pending or was hung up on; one row per request.   *)
HistoryMatchesAnswer ==
  /\ \A k \in DOMAIN resolved :
       LET row == resolved[k] IN
         row.req \in Requests =>
           /\ calls[row.req] # "none"
           /\ calls[row.req] = "parked" => Answer(row.req) = row.verdict
  /\ \A j, k \in DOMAIN resolved : resolved[j].req = resolved[k].req => j = k

(* NotifyHint: two requests that are pending together cannot both have     *)
(* been told that they found the queue empty, however their submits raced. *)
OneBannerPerBurst ==
  \A r, s \in Pending \cap raised : r = s

(* The first approver wins: once a verdict has left the map no later       *)
(* click, rule or cancel_all changes what the worker will be told.         *)
FirstVerdictWins ==
  [][\A r \in Requests : Answer(r) # NoVerdict => Answer(r)' = Answer(r)]_queueVars
=============================================================================
