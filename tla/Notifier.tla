------------------------------ MODULE Notifier ------------------------------
(***************************************************************************)
(* The Linux notifier (vetterd/src/notifier/linux.rs): one banner per      *)
(* burst of prompts, posted to, and taken down from, the notification      *)
(* server on the session bus.                                              *)
(*                                                                         *)
(* Three threads share a map from notification ids to requests.  The jobs  *)
(* thread makes every outgoing call, in the order of its channel.  The     *)
(* signal thread handles what the server says about banners.  The name     *)
(* thread handles a server that leaves or moves the bus, whose ids start   *)
(* again.  Every lock of the map is a step of its own, so a click can come *)
(* between a banner and its entry in the map.                              *)
(*                                                                         *)
(* The server and the user in front of it are modelled from what the       *)
(* notifier relies on.  Banner text, sound and urgency are left out.       *)
(***************************************************************************)
EXTENDS PendingQueue, FiniteSets

CONSTANTS
  UnknownHost,  \* requests with a host that is not trusted: the fifth button
  MaxTokens,    \* MAX_PARKED_TOKENS
  MaxBacklog    \* bound: signals waiting when a user acts

ActionKeys == {"default", "approve", "reject", "allowlist", "trust_host", "other"}

ASSUME NotifierAssumption ==
  /\ UnknownHost \subseteq Requests
  /\ MaxTokens \in Nat \ {0}
  /\ MaxBacklog \in Nat

VARIABLES
  jobs,       \* the channel of the jobs thread
  jobsAt,     \* what the jobs thread is in the middle of
  byNote,     \* NotificationMap::by_notification
  byReq,      \* NotificationMap::by_request, 0 for no entry
  buttons,    \* Capabilities::actions, as last queried
  tokens,     \* notification ids with a parked activation token
  noteStop,   \* Shared::shutdown
  screen,     \* notification id -> the banner on screen
  serving,    \* a notification server owns its name
  nextNote,   \* the id it gives to the next banner
  moves,      \* how often that name changed hands
  signals,    \* signals the signal thread has not handled
  changes     \* NameOwnerChanged signals the name thread has not handled

mapVars == <<byNote, byReq>>
serverVars == <<screen, serving, nextNote, moves>>
inboxVars == <<signals, changes>>
notifierVars == <<jobs, jobsAt, mapVars, buttons, tokens, noteStop, serverVars, inboxVars>>

Notes == 1 .. Cardinality(Requests)
NoBanner == [req |-> NoRequest, keys |-> {}]
Banner(r, keys) == [req |-> r, keys |-> keys]
OnScreen(r) == \E n \in Notes : screen[n].req = r

Job(op, r) == [op |-> op, req |-> r]
Reconcile == Job("reconcile", NoRequest)
RefreshCaps == Job("caps", NoRequest)
Stop == Job("stop", NoRequest)

At(op, reqs, n) == [op |-> op, reqs |-> reqs, note |-> n]
Idle == At("idle", {}, 0)
Exited == At("exited", {}, 0)

(* `shown` is what the user saw when clicking; no handler reads it. *)
Signal(kind, n, key, shown) == [kind |-> kind, note |-> n, key |-> key, shown |-> shown]

-----------------------------------------------------------------------------
(* actions_for: what a banner lets the user click. *)
ActionsFor(r) ==
  IF ~buttons THEN {}
  ELSE {"default", "approve", "reject", "allowlist"}
       \cup (IF r \in UnknownHost THEN {"trust_host"} ELSE {})

Outcome(kind, r, v, picker) == [kind |-> kind, req |-> r, verdict |-> v, picker |-> picker]
Nothing == Outcome("nothing", NoRequest, NoVerdict, "none")

(* click_outcome: a button decides the request the banner is mapped to and *)
(* nothing else; the body and the picker buttons only raise the window.    *)
ClickOutcome(key, r) ==
  CASE key \in {"approve", "reject"} ->
         IF r = NoRequest THEN Nothing
         ELSE Outcome("resolve", r, IF key = "approve" THEN "allow" ELSE "deny", "none")
    [] key = "default" -> Outcome("show", r, NoVerdict, "none")
    [] key \in {"allowlist", "trust_host"} ->
         Outcome("show", r, NoVerdict, IF r = NoRequest THEN "none" ELSE key)
    [] OTHER -> Nothing

-----------------------------------------------------------------------------
(* NotificationMap *)

(* Fault: a banner with no entry counts as whatever request has one. *)
RequestForGuess(n) ==
  LET held == {q \in Requests : byReq[q] # 0}
  IN  IF byNote[n] = NoRequest /\ held # {} THEN CHOOSE q \in held : TRUE ELSE byNote[n]

RequestFor(n) == byNote[n]

(* Fault: an id the server used before keeps its old request. *)
LinkKeepsStale(n, r) ==
  /\ byNote' = [byNote EXCEPT ![n] = r]
  /\ byReq'  = [byReq EXCEPT ![r] = n]

(* link: each side evicts the pairing it replaces. *)
Link(n, r) ==
  /\ byReq'  = [q \in Requests |-> IF q = r THEN n
                                   ELSE IF q = byNote[n] THEN 0 ELSE byReq[q]]
  /\ byNote' = [m \in Notes |-> IF m = n THEN r
                                ELSE IF m = byReq[r] /\ byNote[n] # r THEN NoRequest
                                ELSE byNote[m]]

(* Fault: the request keeps pointing at the banner. *)
ForgetNotificationHalf(n) ==
  /\ byNote' = [byNote EXCEPT ![n] = NoRequest]
  /\ UNCHANGED byReq

ForgetNotification(n) ==
  /\ byNote' = [byNote EXCEPT ![n] = NoRequest]
  /\ byReq'  = [q \in Requests |-> IF q = byNote[n] THEN 0 ELSE byReq[q]]

ForgetRequest(r) ==
  /\ byNote' = [m \in Notes |-> IF m = byReq[r] THEN NoRequest ELSE byNote[m]]
  /\ byReq'  = [byReq EXCEPT ![r] = 0]

ClearMap ==
  /\ byNote' = [m \in Notes |-> NoRequest]
  /\ byReq'  = [q \in Requests |-> 0]

-----------------------------------------------------------------------------
(* install: the capability query is the first job the thread will see. *)
NotifierInit ==
  /\ jobs     = <<RefreshCaps>>
  /\ jobsAt   = Idle
  /\ byNote   = [n \in Notes |-> NoRequest]
  /\ byReq    = [r \in Requests |-> 0]
  /\ buttons  = FALSE
  /\ tokens   = {}
  /\ noteStop = FALSE
  /\ screen   = [n \in Notes |-> NoBanner]
  /\ serving  \in BOOLEAN
  /\ nextNote = 1
  /\ moves    = 0
  /\ signals  = <<>>
  /\ changes  = 0

(* A send fails, unnoticed, once the thread has gone. *)
Send(job) == jobs' = IF jobsAt = Exited THEN jobs ELSE Append(jobs, job)

(* The change listener: send and forget. *)
NotifierHears == Send(Reconcile)

(* should_raise_banner and notify: only the first request of a burst. *)
Notify(r) == IF r \in raised THEN Send(Job("post", r)) ELSE UNCHANGED jobs

(* shutdown: the flag goes up before the two last jobs are queued. *)
NotifierShutdown ==
  /\ ~noteStop
  /\ noteStop' = TRUE
  /\ jobs'     = jobs \o <<Reconcile, Stop>>
  /\ UNCHANGED <<jobsAt, mapVars, buttons, tokens, serverVars, inboxVars>>

-----------------------------------------------------------------------------
(* The jobs thread *)

Take(op) ==
  /\ jobsAt = Idle /\ jobs # <<>> /\ ~noteStop
  /\ Head(jobs).op = op
  /\ jobs' = Tail(jobs)

(* The flag is looked at before the job: what is still queued is dropped. *)
JobsThreadEnds ==
  /\ jobsAt = Idle /\ jobs # <<>>
  /\ noteStop \/ Head(jobs) = Stop
  /\ jobsAt' = Exited
  /\ jobs'   = Tail(jobs)
  /\ UNCHANGED <<mapVars, buttons, tokens, noteStop, serverVars, inboxVars>>

(* refresh_capabilities: no server, no buttons. *)
RefreshCapabilities ==
  /\ Take("caps")
  /\ buttons' = serving
  /\ UNCHANGED <<jobsAt, mapVars, tokens, noteStop, serverVars, inboxVars>>

(* post, up to the server's answer.  Without a server the banner is lost. *)
PostBanner ==
  /\ Take("post")
  /\ LET r == Head(jobs).req IN
       IF serving
       THEN /\ screen'   = [screen EXCEPT ![nextNote] = Banner(r, ActionsFor(r))]
            /\ nextNote' = nextNote + 1
            /\ jobsAt'   = At("link", {r}, nextNote)
       ELSE UNCHANGED <<screen, nextNote, jobsAt>>
  /\ UNCHANGED <<mapVars, buttons, tokens, noteStop, serving, moves, inboxVars>>

(* post, after the answer: the id goes into the map. *)
LinkBanner ==
  /\ jobsAt.op = "link"
  /\ \A r \in jobsAt.reqs : Link(jobsAt.note, r)
  /\ jobsAt' = Idle
  /\ UNCHANGED <<jobs, buttons, tokens, noteStop, serverVars, inboxVars>>

(* banners_to_close *)
BannersToClose(held) == held \ Pending

(* reconcile: the requests we hold a banner for, less those still pending. *)
(* Both lists are read in one step: what leaves either of them in between  *)
(* is found gone below.                                                    *)
ReconcileStale ==
  /\ Take("reconcile")
  /\ LET stale == BannersToClose({r \in Requests : byReq[r] # 0})
     IN  jobsAt' = IF stale = {} THEN Idle ELSE At("forget", stale, 0)
  /\ UNCHANGED <<mapVars, buttons, tokens, noteStop, serverVars, inboxVars>>

(* Each is forgotten, unless someone else already did so ... *)
ReconcileForget ==
  /\ jobsAt.op = "forget"
  /\ \E r \in jobsAt.reqs :
       LET rest == jobsAt.reqs \ {r} IN
         /\ ForgetRequest(r)
         /\ jobsAt' = IF byReq[r] # 0 THEN At("close", rest, byReq[r])
                      ELSE IF rest = {} THEN Idle ELSE At("forget", rest, 0)
  /\ UNCHANGED <<jobs, buttons, tokens, noteStop, serverVars, inboxVars>>

(* ... and taken down.  The server says so, or reports an unknown id. *)
ReconcileClose ==
  /\ jobsAt.op = "close"
  /\ screen'  = [screen EXCEPT ![jobsAt.note] = NoBanner]
  /\ signals' = IF screen[jobsAt.note] = NoBanner THEN signals
                ELSE Append(signals, Signal("closed", jobsAt.note, "none", NoRequest))
  /\ jobsAt'  = IF jobsAt.reqs = {} THEN Idle ELSE At("forget", jobsAt.reqs, 0)
  /\ UNCHANGED <<jobs, mapVars, buttons, tokens, noteStop, serving, nextNote, moves, changes>>

JobsStep ==
  \/ JobsThreadEnds
  \/ RefreshCapabilities
  \/ PostBanner
  \/ LinkBanner
  \/ ReconcileStale
  \/ ReconcileForget
  \/ ReconcileClose

-----------------------------------------------------------------------------
(* The signal thread.  It stops at the first signal after the flag. *)

Hear(kind) ==
  /\ signals # <<>> /\ ~noteStop
  /\ Head(signals).kind = kind
  /\ signals' = Tail(signals)

(* NotificationClosed: not a decision, only the end of a pairing. *)
OnNotificationClosed ==
  /\ Hear("closed")
  /\ ForgetNotification(Head(signals).note)
  /\ tokens' = tokens \ {Head(signals).note}
  /\ UNCHANGED <<jobs, jobsAt, buttons, noteStop, serverVars, changes>>

(* Fault: parked tokens are never pruned. *)
ParkUnbounded(n) == tokens \cup {n}

(* prune_tokens, then insert. *)
Park(n) == (IF Cardinality(tokens) >= MaxTokens THEN {} ELSE tokens) \cup {n}

OnActivationToken ==
  /\ Hear("token")
  /\ tokens' = Park(Head(signals).note)
  /\ UNCHANGED <<jobs, jobsAt, mapVars, buttons, noteStop, serverVars, changes>>

(* on_action_invoked, up to what the click is found to mean. *)
OnActionInvoked(outcome) ==
  /\ Hear("action")
  /\ outcome = ClickOutcome(Head(signals).key, RequestFor(Head(signals).note))
  /\ tokens' = tokens \ {Head(signals).note}
  /\ UNCHANGED <<jobs, jobsAt, mapVars, buttons, noteStop, serverVars, changes>>

(* The name thread: the old ids mean nothing to the new server. *)
OnNameOwnerChanged ==
  /\ changes > 0 /\ ~noteStop
  /\ changes' = changes - 1
  /\ ClearMap
  /\ Send(RefreshCaps)
  /\ UNCHANGED <<jobsAt, buttons, tokens, noteStop, serverVars, signals>>

-----------------------------------------------------------------------------
(* The server and its user (external). *)

ServerLeaves ==
  /\ serving
  /\ serving' = FALSE
  /\ screen'  = [n \in Notes |-> NoBanner]
  /\ changes' = changes + 1
  /\ moves'   = moves + 1
  /\ UNCHANGED <<jobs, jobsAt, mapVars, buttons, tokens, noteStop, nextNote, signals>>

(* A new server numbers its banners from the start. *)
ServerJoins ==
  /\ ~serving
  /\ serving'  = TRUE
  /\ moves'    = moves + 1
  /\ nextNote' = 1
  /\ changes'  = changes + 1
  /\ UNCHANGED <<jobs, jobsAt, mapVars, buttons, tokens, noteStop, screen, signals>>

UserDismisses(n) ==
  /\ screen[n] # NoBanner /\ Len(signals) <= MaxBacklog
  /\ screen'  = [screen EXCEPT ![n] = NoBanner]
  /\ signals' = Append(signals, Signal("closed", n, "none", NoRequest))
  /\ UNCHANGED <<jobs, jobsAt, mapVars, buttons, tokens, noteStop, serving, nextNote, moves, changes>>

(* A token for an interaction that may or may not become an action. *)
UserTouches(n) ==
  /\ screen[n] # NoBanner /\ Len(signals) <= MaxBacklog
  /\ signals' = Append(signals, Signal("token", n, "none", NoRequest))
  /\ UNCHANGED <<jobs, jobsAt, mapVars, buttons, tokens, noteStop, serverVars, changes>>

(* The server reports the action, and takes the banner down or leaves it. *)
UserClicks(n, key) ==
  /\ key \in screen[n].keys /\ Len(signals) <= MaxBacklog
  /\ LET said == Append(signals, Signal("action", n, key, screen[n].req)) IN
       \/ signals' = said /\ UNCHANGED screen
       \/ /\ signals' = Append(said, Signal("closed", n, "none", NoRequest))
          /\ screen'  = [screen EXCEPT ![n] = NoBanner]
  /\ UNCHANGED <<jobs, jobsAt, mapVars, buttons, tokens, noteStop, serving, nextNote, moves, changes>>

(* Up to maxMoves comings and goings, and a user with these gestures. *)
ServerStep(maxMoves, gestures) ==
  \/ moves < maxMoves /\ (ServerLeaves \/ ServerJoins)
  \/ \E n \in Notes :
       \/ "dismiss" \in gestures /\ UserDismisses(n)
       \/ "touch" \in gestures /\ UserTouches(n)
       \/ \E key \in gestures \cap ActionKeys : UserClicks(n, key)

-----------------------------------------------------------------------------
NotifierTypeOK ==
  /\ jobs \in Seq([op : {"caps", "post", "reconcile", "stop"}, req : Requests \cup {NoRequest}])
  /\ jobsAt \in [op : {"idle", "exited", "link", "forget", "close"},
                 reqs : SUBSET Requests, note : Notes \cup {0}]
  /\ byNote \in [Notes -> Requests \cup {NoRequest}]
  /\ byReq \in [Requests -> Notes \cup {0}]
  /\ tokens \subseteq Notes /\ Cardinality(tokens) <= MaxTokens
  /\ nextNote \in Nat
  /\ \A n \in Notes : screen[n].req \in Requests \cup {NoRequest} /\ screen[n].keys \subseteq ActionKeys
  /\ \A r \in Requests : Cardinality({n \in Notes : screen[n].req = r}) <= 1

(* The two halves of NotificationMap are inverse, whatever the three       *)
(* threads and a server that reuses its ids do between two of its locks.   *)
MapIsPairing ==
  \A n \in Notes, r \in Requests : byNote[n] = r <=> byReq[r] = n

(* The daemon never takes down the banner of a request that still waits,   *)
(* even when the id it closes was given out again by a new server.         *)
CloseOnlyResolved ==
  [][jobsAt.op = "close" /\ jobsAt'.op # "close" => screen[jobsAt.note].req \notin Pending]_notifierVars

(* While there has been one server at most, a decision made on a banner    *)
(* goes to the request that banner showed and to no other.                 *)
ClickDecidesShown ==
  [][\A r \in Requests :
       signals # <<>> /\ signals' = Tail(signals) /\ entries[r] = r /\ entries'[r] # r
         /\ Head(signals).kind = "action" /\ moves <= 1 => Head(signals).shown = r]_<<signals, entries>>
=============================================================================
