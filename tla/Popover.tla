------------------------------ MODULE Popover -------------------------------
(***************************************************************************)
(* The macOS approval surfaces (vetterd/src/runloop and notifier/mac.rs):  *)
(* the menu-bar badge, the popover with its cards, the pickers and the     *)
(* notification banners, around one pending queue.                         *)
(*                                                                         *)
(* All of them live on the main thread.  Other threads reach it through    *)
(* the main dispatch queue, whose blocks run one at a time.  An alert is a *)
(* nested event loop: opened by a click it lets that queue go on, opened   *)
(* by a block of the queue it holds all later blocks until it is answered. *)
(*                                                                         *)
(* A button carries a number, and what it acts on is looked up when it is  *)
(* clicked, in registries the last repaint filled.  Approve and Reject     *)
(* count the pending cards; everything else counts all cards.              *)
(*                                                                         *)
(* AppKit and Notification Center are modelled from what the code relies   *)
(* on.  Layout, text, sounds and the footer's checkboxes (Autostart) are   *)
(* left out; the rule or host chosen in a picker is the request it is for. *)
(***************************************************************************)
EXTENDS PendingQueue, FiniteSets

CONSTANT Sessions   \* bounds: who may do what in a session

ASSUME PopoverAssumption ==
  /\ IsFiniteSet(Requests)
  /\ {"allow", "deny"} \subseteq Verdicts
  /\ "pending" \notin Verdicts

VARIABLES
  session,    \* the session
  app,        \* "launching", "listening", "running", "stopped", "cancelled"
  quit,       \* the shutdown flag, and whether the observer has seen it
  mainQueue,  \* blocks waiting for the main thread
  changed,    \* queue changes whose listener has not been called
  toPost,     \* requests whose worker is about to call Notifier::notify
  badge,      \* the count beside the menu-bar icon
  cards,      \* the cards of the popover, from the top
  cardIds,    \* PopoverControllerIvars::card_ids
  pickerIds,  \* ...::picker_ids
  targets,    \* ...::revoke_targets
  open,       \* the popover is shown
  pressed,    \* the button the user holds down
  alerts,     \* alerts on screen, the topmost first
  gestures,   \* buttons pressed and banners clicked so far
  jobs,       \* persists on the global queue
  banners,    \* delivered notifications
  settled     \* history: decided on this Mac while their banner was up

viewVars == <<badge, cards, cardIds, pickerIds, targets>>
userVars == <<open, pressed, alerts, gestures>>
popoverVars == <<session, app, quit, mainQueue, changed, toPost, viewVars, userVars, jobs, banners,
                 settled>>

Block(op, reqs) == [op |-> op, reqs |-> reqs]
Refresh == Block("refresh", {})
StopLoop == Block("stop", {})
Responses == {"approve", "reject", "dismiss", "allowlist", "trust", "default"}

Enqueue(blocks) == mainQueue' = mainQueue \o blocks

(* A repaint that waits last in the queue stands for one right behind it. *)
EnqueueRefresh(more) ==
  Enqueue((IF mainQueue # <<>> /\ mainQueue[Len(mainQueue)] = Refresh THEN <<>> ELSE <<Refresh>>)
          \o more)

(* `here`: made by the main thread, which then removes the banner. *)
Change(kind, r, here) ==
  [kind |-> kind, req |-> r, here |-> here, heard |-> app # "launching"]

Card(r, outcome, byRule) == [req |-> r, outcome |-> outcome, byRule |-> byRule]
Alert(kind, r, fromBlock) == [kind |-> kind, req |-> r, fromBlock |-> fromBlock]
Button(kind, tag, r) == [kind |-> kind, tag |-> tag, req |-> r, torn |-> FALSE]
NoButton == Button("none", 0, NoRequest)
Job(kind, r, approved) == [kind |-> kind, req |-> r, approved |-> approved]

(* The main thread takes its next block or event. *)
MainFree ==
  /\ app = "running"
  /\ \A c \in changed : ~c.here
  /\ \A k \in DOMAIN alerts : ~alerts[k].fromBlock

PopoverInit ==
  /\ session \in Sessions
  /\ app = "launching" /\ quit = "no"
  /\ mainQueue = <<>> /\ changed = {} /\ toPost = {}
  /\ badge = 0 /\ cards = <<>> /\ cardIds = <<>> /\ pickerIds = <<>> /\ targets = <<>>
  /\ open = FALSE /\ pressed = NoButton /\ alerts = <<>> /\ gestures = 0
  /\ jobs = {} /\ banners = {} /\ settled = {}

-----------------------------------------------------------------------------
(* The cards *)

(* all_entries: the map in whatever order it is iterated. *)
Orders == {o \in [1 .. Cardinality(Pending) -> Pending] : \A r \in Pending : \E k \in DOMAIN o : o[k] = r}

(* A recent card says which rule allowed it, and only an allowing one. *)
RecentCard(row) ==
  Card(row.req, row.verdict,
       row.verdict = "allow" /\ (row.req \in Past \/ calls[row.req] = "auto"))

CardsOf(order, ring) ==
  [k \in DOMAIN order |-> Card(order[k], "pending", FALSE)]
    \o [k \in DOMAIN ring |-> RecentCard(ring[k])]

(* Fault: a denied card pushes no slot, so the later ones move up. *)
PickerSlotsSkipDenied(all) ==
  [k \in DOMAIN SelectSeq(all, LAMBDA c : c.outcome # "deny") |->
     SelectSeq(all, LAMBDA c : c.outcome # "deny")[k].req]

PickerSlots(all) ==
  [k \in DOMAIN all |-> IF all[k].outcome = "deny" THEN NoRequest ELSE all[k].req]

RevokeSlots(all) == [k \in DOMAIN all |-> IF all[k].byRule THEN all[k].req ELSE NoRequest]

(* PopoverController::refresh: new cards, new registries; a button being   *)
(* held is torn out of the view with its card.                             *)
Rebuild ==
  \E order \in Orders :
    LET all == CardsOf(order, resolved) IN
    /\ cards'     = all
    /\ cardIds'   = order
    /\ pickerIds' = PickerSlots(all)
    /\ targets'   = RevokeSlots(all)
    /\ pressed'   = [pressed EXCEPT !.torn = (pressed # NoButton)]

(* refresh_ui *)
RefreshUi == badge' = Cardinality(Pending) /\ Rebuild

(* build_card: the buttons of the k-th card and the numbers they carry. *)
ButtonsOf(k) ==
  LET r == cards[k].req
  IN  (IF cards[k].outcome = "pending"
       THEN {Button("approve", k, r), Button("reject", k, r)} ELSE {})
      \cup (IF cards[k].outcome # "deny"
            THEN {Button("allowlist", k, r), Button("trust", k, r)} ELSE {})
      \cup (IF cards[k].byRule THEN {Button("revoke", k, r)} ELSE {})

-----------------------------------------------------------------------------
(* The queue's other users: connection workers, the admin socket, sweeps. *)

SubmitRequest(r) ==
  /\ r \in session.prompted /\ app # "cancelled"
  /\ Submit(r)
  /\ changed' = changed \cup {Change("submit", r, FALSE)}
  /\ UNCHANGED <<session, app, quit, mainQueue, toPost, viewVars, userVars, jobs, banners, settled>>

RuledByStore(r, v) ==
  /\ r \in session.ruled /\ app # "cancelled"
  /\ RecordAuto(r, v)
  /\ changed' = changed \cup {Change("auto", r, FALSE)}
  /\ UNCHANGED <<session, app, quit, mainQueue, toPost, viewVars, userVars, jobs, banners, settled>>

(* warm_resolved, before anything else runs. *)
WarmHistory(rows) ==
  /\ app = "launching" /\ changed = {} /\ session.warm
  /\ Warm(rows)
  /\ UNCHANGED popoverVars

ApproveElsewhere(r, v) ==
  /\ app # "cancelled" /\ session.elsewhere
  /\ r \in Pending /\ Resolve(IdOf[r], v)
  /\ changed' = changed \cup {Change("resolve", r, FALSE)}
  /\ UNCHANGED <<session, app, quit, mainQueue, toPost, viewVars, userVars, jobs, banners, settled>>

(* After the unlock: the verdict is sent, then the listener queues a       *)
(* refresh, then the main thread, if it was that, queues the removal.      *)
ListenerRuns(c) ==
  /\ c \in changed
  /\ changed' = changed \ {c}
  /\ IF c.kind = "resolve" THEN Deliver(c.req) ELSE UNCHANGED queueVars
  /\ IF c.heard
     THEN EnqueueRefresh(IF c.here THEN <<Block("remove", {c.req})>> ELSE <<>>)
     ELSE UNCHANGED mainQueue
  /\ toPost' = IF c.kind = "submit" THEN toPost \cup {c.req} ELSE toPost
  /\ UNCHANGED <<session, app, quit, viewVars, userVars, jobs, banners, settled>>

(* MacNotifier::notify: one banner per burst. *)
NotifyWorker(r) ==
  /\ r \in toPost
  /\ toPost' = toPost \ {r}
  /\ Enqueue(IF r \in raised THEN <<Block("post", {r})>> ELSE <<>>)
  /\ UNCHANGED <<session, queueVars, app, quit, changed, viewVars, userVars, jobs, banners, settled>>

-----------------------------------------------------------------------------
(* did_finish_launching *)

SetListener ==
  /\ app = "launching"
  /\ app' = "listening"
  /\ UNCHANGED <<session, queueVars, quit, mainQueue, changed, toPost, viewVars, userVars, jobs, banners,
                 settled>>

FirstPaint ==
  /\ app = "listening"
  /\ app' = "running"
  /\ RefreshUi
  /\ UNCHANGED <<session, queueVars, quit, mainQueue, changed, toPost, open, alerts, gestures, jobs, banners,
                 settled>>

-----------------------------------------------------------------------------
(* What a click comes to. *)

(* resolve(): an id that is no longer pending changes nothing in the queue. *)
ResolveHere(r, v) ==
  IF r \in Pending
  THEN /\ Resolve(IdOf[r], v)
       /\ changed' = changed \cup {Change("resolve", r, TRUE)}
       /\ settled' = settled \cup ({r} \cap banners)
       /\ UNCHANGED mainQueue
  ELSE /\ Enqueue(<<Block("remove", {r})>>)
       /\ UNCHANGED <<queueVars, changed, settled>>

(* suggestions_for: a request that is pending, or recent and not denied. *)
HasSuggestions(r) ==
  \/ r \in Pending
  \/ \E k \in DOMAIN resolved : resolved[k].req = r /\ resolved[k].verdict # "deny"

OpenPicker(kind, r, fromBlock) ==
  IF HasSuggestions(r)
  THEN alerts' = <<Alert(kind, r, fromBlock)>> \o alerts
  ELSE UNCHANGED alerts

(* A press on a button that is drawn; a popover behind an alert is dead. *)
Press ==
  /\ MainFree /\ open /\ alerts = <<>> /\ pressed = NoButton
  /\ \E k \in DOMAIN cards : pressed' \in ButtonsOf(k)
  /\ pressed'.kind \in session.buttons
  /\ gestures < session.gestures /\ gestures' = gestures + 1
  /\ UNCHANGED <<session, queueVars, app, quit, mainQueue, changed, toPost, viewVars, open, alerts,
                 jobs, banners, settled>>

(* The slot a button's number names now, if there is one. *)
Slot(registry, tag) == IF tag \in DOMAIN registry THEN registry[tag] ELSE NoRequest

Target ==
  CASE pressed.kind \in {"approve", "reject"}   -> Slot(cardIds, pressed.tag)
    [] pressed.kind \in {"allowlist", "trust"}  -> Slot(pickerIds, pressed.tag)
    [] OTHER                                    -> Slot(targets, pressed.tag)

(* The action is sent: resolve_for_tag, open_allowlist_picker,             *)
(* open_host_picker or invoke_revoke_for_tag.                              *)
Click ==
  /\ MainFree /\ pressed # NoButton /\ alerts = <<>>
  /\ pressed' = NoButton
  /\ Target # NoRequest
  /\ IF pressed.kind \in {"approve", "reject"}
     THEN ResolveHere(Target, IF pressed.kind = "approve" THEN "allow" ELSE "deny")
     ELSE UNCHANGED <<queueVars, mainQueue, changed, settled>>
  /\ CASE pressed.kind \in {"allowlist", "trust"} -> OpenPicker(pressed.kind, Target, FALSE)
       [] pressed.kind = "revoke" ->   \* or a note: a rule of a layer not edited here
            \E kind \in {"revoke", "note"} : alerts' = <<Alert(kind, Target, FALSE)>>
       [] OTHER -> UNCHANGED alerts
  /\ UNCHANGED <<session, app, quit, toPost, viewVars, open, gestures, jobs, banners>>

(* Let go outside the button, or over a number that names nothing. *)
LetGo ==
  /\ pressed # NoButton
  /\ pressed' = NoButton
  /\ UNCHANGED <<session, queueVars, app, quit, mainQueue, changed, toPost, viewVars, open, alerts, gestures,
                 jobs, banners, settled>>

(* The icon, toggle_popover: open with fresh cards, or close. *)
TogglePopover ==
  /\ session.buttons # {} /\ MainFree /\ alerts = <<>> /\ pressed = NoButton
  /\ open' = ~open
  /\ IF open THEN UNCHANGED <<cards, cardIds, pickerIds, targets, pressed>> ELSE Rebuild
  /\ UNCHANGED <<session, queueVars, app, quit, mainQueue, changed, toPost, badge, alerts, gestures, jobs,
                 banners, settled>>

(* The user acts on a banner; the answer waits for the main thread.  One   *)
(* answer waits at a time.                                                 *)
ClickBanner(r, op) ==
  /\ r \in banners /\ app = "running" /\ session.banners
  /\ \A k \in DOMAIN mainQueue : mainQueue[k].op \notin Responses
  /\ gestures < session.gestures /\ gestures' = gestures + 1
  /\ Enqueue(<<Block(op, {r})>>)
  /\ banners' \in (IF op = "dismiss" THEN {banners \ {r}} ELSE {banners, banners \ {r}})
  /\ UNCHANGED <<session, queueVars, app, quit, changed, toPost, viewVars, open, pressed, alerts,
                 jobs, settled>>

-----------------------------------------------------------------------------
(* Blocks of the main queue *)

RunPaint ==
  /\ Head(mainQueue) = Refresh
  /\ RefreshUi
  /\ mainQueue' = Tail(mainQueue)
  /\ UNCHANGED <<queueVars, app, changed, open, alerts, gestures, jobs, banners, settled>>

(* post_notification, remove_delivered_for_ids *)
RunBanners ==
  LET b == Head(mainQueue) IN
  /\ b.op \in {"post", "remove"}
  /\ banners' = IF b.op = "post" THEN banners \cup b.reqs ELSE banners \ b.reqs
  /\ mainQueue' = Tail(mainQueue)
  /\ UNCHANGED <<queueVars, app, changed, viewVars, userVars, jobs, settled>>

(* did_receive_response.  The body of a banner opens the popover. *)
RunResponse ==
  LET b == Head(mainQueue)
      r == CHOOSE q \in b.reqs : TRUE
      verdict == IF b.op = "approve" THEN "allow" ELSE "deny"
  IN
  /\ b.op \in Responses
  /\ IF b.op \in {"approve", "reject", "dismiss"} /\ r \in Pending
     THEN /\ Resolve(IdOf[r], verdict)
          /\ changed' = changed \cup {Change("resolve", r, TRUE)}
          /\ settled' = settled \cup ({r} \cap banners)
     ELSE UNCHANGED <<queueVars, changed, settled>>
  /\ mainQueue' = Tail(mainQueue) \o
       (IF b.op \in {"approve", "reject", "dismiss"} /\ r \notin Pending
        THEN <<Block("remove", {r})>> ELSE <<>>)
  /\ IF b.op \in {"allowlist", "trust"}
     THEN OpenPicker(b.op, r, TRUE) ELSE UNCHANGED alerts
  /\ IF b.op = "default"
     THEN open' = TRUE /\ Rebuild
     ELSE UNCHANGED <<open, cards, cardIds, pickerIds, targets, pressed>>
  /\ UNCHANGED <<app, badge, gestures, jobs, banners>>

(* Fault: the banners of requests a new rule approved stay. *)
RunReportKeepsBanners ==
  /\ Head(mainQueue).op = "report"
  /\ mainQueue' = Tail(mainQueue)
  /\ alerts' = <<Alert("report", NoRequest, TRUE)>> \o alerts
  /\ UNCHANGED <<queueVars, app, changed, viewVars, open, pressed, gestures, jobs, banners, settled>>

(* The end of persist_rule_async and its siblings: the banners of what the *)
(* sweep approved are to go, and the result is shown.                      *)
RunReport ==
  LET b == Head(mainQueue) IN
  /\ b.op = "report"
  /\ mainQueue' = Tail(mainQueue) \o
                  (IF b.reqs = {} THEN <<>> ELSE <<Block("remove", b.reqs)>>)
  /\ alerts' = <<Alert("report", NoRequest, TRUE)>> \o alerts
  /\ UNCHANGED <<queueVars, app, changed, viewVars, open, pressed, gestures, jobs, banners, settled>>

(* The topmost alert is closed.  A picker persists on its first button, a  *)
(* revocation on anything but its first.                                   *)
Close(response) ==
  LET a == Head(alerts)
      go == \/ a.kind \in {"allowlist", "trust"} /\ response = "first"
            \/ a.kind = "revoke" /\ response # "first"
  IN  /\ alerts' = Tail(alerts)
      /\ jobs' = IF go THEN jobs \cup {Job(a.kind, a.req, {})} ELSE jobs

(* stop_run_loop: [NSApp stop:] ends the innermost event loop. *)
RunStop ==
  /\ Head(mainQueue) = StopLoop
  /\ mainQueue' = Tail(mainQueue)
  /\ IF alerts = <<>>
     THEN app' = "stopped" /\ UNCHANGED <<alerts, jobs>>
     ELSE Close("stopped") /\ UNCHANGED app
  /\ UNCHANGED <<queueVars, changed, viewVars, open, pressed, gestures, banners, settled>>

RunBlock ==
  /\ MainFree /\ mainQueue # <<>>
  /\ RunPaint \/ RunBanners \/ RunResponse \/ RunReport \/ RunStop
  /\ UNCHANGED <<session, quit, toPost>>

AnswerAlert ==
  /\ alerts # <<>> /\ app = "running" /\ \A c \in changed : ~c.here
  /\ \E response \in {"first", "second"} : Close(response)
  /\ UNCHANGED <<session, queueVars, app, quit, mainQueue, changed, toPost, viewVars, open, pressed, gestures,
                 banners, settled>>

-----------------------------------------------------------------------------
(* The global queue: add_allowlist_rule with its sweep, add_known_host,    *)
(* remove_allowlist_rule, each followed by a report on the main queue.     *)

SweepApproves(j, r) ==
  /\ j \in jobs /\ j.kind = "allowlist" /\ r \in Pending
  /\ Resolve(IdOf[r], "allow")
  /\ changed' = changed \cup {Change("resolve", r, FALSE)}
  /\ settled' = settled \cup ({r} \cap banners)
  /\ jobs' = (jobs \ {j}) \cup {[j EXCEPT !.approved = @ \cup {r}]}
  /\ UNCHANGED <<session, app, quit, mainQueue, toPost, viewVars, userVars, banners>>

(* A host that was added rewrites the cards first (refresh_with).          *)
JobEnds(j) ==
  /\ j \in jobs
  /\ jobs' = jobs \ {j}
  /\ \/ Enqueue(<<Block("report", j.approved)>>)
     \/ j.kind = "trust" /\ EnqueueRefresh(<<Block("report", {})>>)
  /\ UNCHANGED <<session, queueVars, app, quit, changed, toPost, viewVars, userVars, banners, settled>>

-----------------------------------------------------------------------------
(* Shutdown: a signal or Quit, the observer thread, the end of run_app_kit. *)

AskToQuit ==
  /\ quit = "no" /\ session.quits
  /\ quit' = "asked"
  /\ UNCHANGED <<session, queueVars, app, mainQueue, changed, toPost, viewVars, userVars, jobs, banners,
                 settled>>

ObserverSees ==
  /\ quit = "asked"
  /\ quit' = "seen"
  /\ Enqueue(<<StopLoop>>)
  /\ UNCHANGED <<session, queueVars, app, changed, toPost, viewVars, userVars, jobs, banners, settled>>

LoopReturned ==
  /\ app = "stopped"
  /\ app' = "cancelled"
  /\ CancelAll
  /\ changed' = changed \cup {Change("cancel", NoRequest, FALSE) : r \in Pending}
  /\ UNCHANGED <<session, quit, mainQueue, toPost, viewVars, userVars, jobs, banners, settled>>

PopoverNext ==
  \/ \E r \in Requests : SubmitRequest(r) \/ NotifyWorker(r)
  \/ \E r \in Requests, v \in Verdicts : RuledByStore(r, v) \/ ApproveElsewhere(r, v)
  \/ \E rows \in PastTails : WarmHistory(rows)
  \/ \E c \in changed : ListenerRuns(c)
  \/ SetListener
  \/ FirstPaint
  \/ Press
  \/ Click
  \/ LetGo
  \/ TogglePopover
  \/ \E r \in Requests, op \in Responses : ClickBanner(r, op)
  \/ RunBlock
  \/ AnswerAlert
  \/ \E j \in jobs, r \in Requests : SweepApproves(j, r)
  \/ \E j \in jobs : JobEnds(j)
  \/ AskToQuit
  \/ ObserverSees
  \/ LoopReturned

PopoverSpec == QueueInit /\ PopoverInit /\ [][PopoverNext]_<<queueVars, popoverVars>>

-----------------------------------------------------------------------------
(* A click acts on the card it was made on: its number finds that card's   *)
(* request, across two ways of counting cards and slots left empty by      *)
(* denied ones, and the verdict, the picker or the revocation that follows *)
(* is for it.  Only a repaint during the click, which tears the button     *)
(* out, is excluded.                                                       *)
ClicksActOnTheirCard ==
  [][pressed # NoButton /\ pressed' = NoButton /\ ~pressed.torn =>
       /\ Target = pressed.req
       /\ \A r \in Pending : r \notin Pending' => r = pressed.req
       /\ alerts' # alerts => Head(alerts').req = pressed.req]_<<queueVars, popoverVars>>

Announced(r) ==
  \/ \E c \in changed : c.here /\ c.req = r
  \/ \E k \in DOMAIN mainQueue : mainQueue[k].op \in {"remove", "report"} /\ r \in mainQueue[k].reqs
  \/ \E j \in jobs : r \in j.approved

(* Once the queued repaints have run, badge and cards are those of the     *)
(* queue, whoever decided and whatever alert was open; and a banner that   *)
(* was up when its request was decided here, in the popover, on the banner *)
(* or by a rule picked here, is gone or about to be removed.               *)
PopoverCatchesUp ==
  /\ app = "running" /\ changed = {} /\ (\A k \in DOMAIN mainQueue : mainQueue[k] # Refresh) =>
       /\ badge = Cardinality(Pending)
       /\ {cardIds[k] : k \in DOMAIN cardIds} = Pending
       /\ SubSeq(cards, Len(cardIds) + 1, Len(cards)) =
            [k \in DOMAIN resolved |-> RecentCard(resolved[k])]
  /\ \A r \in settled \cap banners : Announced(r)
=============================================================================
