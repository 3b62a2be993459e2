------------------------------- MODULE Window -------------------------------
(***************************************************************************)
(* The approval window on Linux (vetterd/src/runloop/linux/window.rs,      *)
(* mod.rs and model.rs).                                                   *)
(*                                                                         *)
(* Only the GTK thread touches widgets.  Other threads park a payload in a *)
(* static and invoke a closure on the main loop: repaint, or raise.  The   *)
(* raise request slot and the raise result slot hold one value each.  The  *)
(* thread that answers `vet daemon open` waits for a measurement taken     *)
(* some time after the present, and gives up after a while.                *)
(*                                                                         *)
(* Painting is abstracted to the requests that have a card, scrolling,     *)
(* themes and widgets are left out.                                        *)
(***************************************************************************)
EXTENDS PendingQueue

CONSTANT MaxAsks   \* bound: how often `vet daemon open` is run

ASSUME WindowAssumption == MaxAsks \in Nat

VARIABLES
  window,      \* where the window is in its life
  painted,     \* requests with a card: those pending, and the recent ones
  open,        \* ExpandedState: sections that are open, by kind and request
  repaint,     \* a refresh is queued on the main loop
  showing,     \* PENDING_SHOW
  visible,     \* the window is on screen
  sheet,       \* the picker last opened
  toast,       \* TOAST: the last thing the user was told
  timers,      \* measurements that are due, by the question they belong to
  raise,       \* RAISE_RESULT
  asks,        \* how often `vet daemon open` asked
  asking,      \* the admin thread waits for a result
  late         \* questions that were given up

windowVars == <<window, painted, open, repaint, showing, visible, sheet, toast,
                timers, raise, asks, asking, late>>

paintVars == <<painted, open, repaint>>
raiseVars == <<timers, raise, asks, asking, late>>

Painted(pending, recent) == [pending |-> pending, recent |-> recent]
Cards == painted.pending \cup painted.recent

(* `observe` is the question that wants a measurement, 0 if none does. *)
NoShow == [card |-> NoRequest, picker |-> "none", observe |-> 0, parked |-> FALSE]
Show(card, picker, observe) ==
  [card |-> card, picker |-> picker, observe |-> observe, parked |-> TRUE]

NoSheet == [kind |-> "none", req |-> NoRequest]

(* A result, and the question whose present it measures. *)
NoRaise == [result |-> "none", ask |-> 0]

Recent == {resolved[k].req : k \in DOMAIN resolved}
Live(section) == section[2] \in Pending \cup Recent

(* WINDOW_INSTALLED *)
WindowAvailable == window \in {"installed", "listening"}

WindowInit ==
  /\ window  = "none"
  /\ painted = Painted({}, {})
  /\ open    = {}
  /\ repaint = FALSE
  /\ showing = NoShow
  /\ visible = FALSE
  /\ sheet   = NoSheet
  /\ toast   = "none"
  /\ timers  = {}
  /\ raise   = NoRaise
  /\ asks    = 0
  /\ asking  = FALSE
  /\ late    = 0

-----------------------------------------------------------------------------
(* Painting *)

(* Fault: sections of resolved cards are forgotten. *)
RepaintPendingOnly ==
  /\ painted' = Painted(Pending, Recent)
  /\ open'    = {section \in open : section[2] \in Pending}

(* refresh: both lists from one lock, and the sections that still have a card. *)
Repaint ==
  /\ painted' = Painted(Pending, Recent)
  /\ open'    = {section \in open : Live(section)}

(* startup: install builds the window and paints it. *)
InstallWindow ==
  /\ window = "none"
  /\ window' = "installed"
  /\ Repaint
  /\ UNCHANGED <<repaint, showing, visible, sheet, toast, raiseVars>>

(* run_glib without a usable display: the daemon does without a window. *)
GtkFails ==
  /\ window = "none"
  /\ window' = "absent"
  /\ UNCHANGED <<paintVars, showing, visible, sheet, toast, raiseVars>>

(* run_glib, after the application has registered: the change listener. *)
ListenToQueue ==
  /\ window = "installed"
  /\ window' = "listening"
  /\ UNCHANGED <<paintVars, showing, visible, sheet, toast, raiseVars>>

(* request_refresh, from the change listener. *)
WindowHears == repaint' = (repaint \/ window = "listening")

RefreshWindow ==
  /\ window = "listening" /\ repaint
  /\ repaint' = FALSE
  /\ Repaint
  /\ UNCHANGED <<window, showing, visible, sheet, toast, raiseVars>>

(* disclosure: the user opens or closes a section of a card. *)
ToggleSection(kind, r) ==
  /\ window = "listening" /\ visible /\ r \in Cards
  /\ open' = IF <<kind, r>> \in open THEN open \ {<<kind, r>>} ELSE open \cup {<<kind, r>>}
  /\ UNCHANGED <<window, painted, repaint, showing, visible, sheet, toast, raiseVars>>

(* The close button hides the window. *)
HideWindow ==
  /\ window = "listening" /\ visible
  /\ visible' = FALSE
  /\ UNCHANGED <<window, paintVars, showing, sheet, toast, raiseVars>>

-----------------------------------------------------------------------------
(* Raising *)

(* request_show_with: only the newest request survives. *)
RequestShow(card, picker, observe) == showing' = Show(card, picker, observe)

(* suggestions_for: pending requests, and recent ones that were allowed. *)
Suggestible(r) == r \in Pending \/ \E k \in DOMAIN resolved : resolved[k] = Row(r, "allow")

(* drain_show_requests: present, measure later if asked to, and open the   *)
(* picker if its request is still there; if not, say so and repaint.       *)
DrainShow ==
  /\ window = "listening" /\ showing.parked
  /\ showing' = NoShow
  /\ visible' = TRUE
  /\ timers'  = (timers \cup {showing.observe}) \ {0}
  /\ LET wanted == showing.picker # "none" /\ showing.card # NoRequest
     IN  IF wanted /\ Suggestible(showing.card)
         THEN sheet' = [kind |-> showing.picker, req |-> showing.card] /\ UNCHANGED <<toast, paintVars>>
         ELSE IF wanted
         THEN toast' = "gone" /\ Repaint /\ UNCHANGED <<sheet, repaint>>
         ELSE UNCHANGED <<sheet, toast, paintVars>>
  /\ UNCHANGED <<window, raise, asks, asking, late>>

(* The measurement: what the compositor made of the present by now.  The   *)
(* timers are alike and end in the order they were set; the slot does not  *)
(* say whose result it holds.                                              *)
Measure(result) ==
  /\ window = "listening"
  /\ \E k \in timers :
       /\ \A j \in timers : k <= j
       /\ timers' = timers \ {k}
       /\ raise'  = [result |-> result, ask |-> k]
  /\ UNCHANGED <<window, paintVars, showing, visible, sheet, toast, asks, asking, late>>

(* Fault: the slot keeps what an earlier question left in it. *)
AskOpenKeepsSlot ==
  /\ WindowAvailable /\ ~asking /\ asks < MaxAsks
  /\ asking' = TRUE
  /\ asks'   = asks + 1
  /\ RequestShow(NoRequest, "none", asks')
  /\ UNCHANGED <<window, paintVars, visible, sheet, toast, timers, raise, late>>

(* request_show_observed, up to the wait: clear the slot, then ask. *)
AskOpen ==
  /\ WindowAvailable /\ ~asking /\ asks < MaxAsks
  /\ asking' = TRUE
  /\ asks'   = asks + 1
  /\ raise'  = NoRaise
  /\ RequestShow(NoRequest, "none", asks')
  /\ UNCHANGED <<window, paintVars, visible, sheet, toast, timers, late>>

(* ... and its end: the result that came in, or none in time.  The result  *)
(* stays in the slot.                                                      *)
OpenAnswered ==
  /\ asking /\ raise # NoRaise
  /\ asking' = FALSE
  /\ UNCHANGED <<window, paintVars, showing, visible, sheet, toast, timers, raise, asks, late>>

OpenTimesOut ==
  /\ asking /\ raise = NoRaise
  /\ asking' = FALSE
  /\ late'   = late + 1
  /\ UNCHANGED <<window, paintVars, showing, visible, sheet, toast, timers, raise, asks>>

(* watch_shutdown: the window is destroyed and the main loop ends. *)
WindowGoes ==
  /\ window = "listening"
  /\ window' = "gone"
  /\ visible' = FALSE
  /\ UNCHANGED <<paintVars, showing, sheet, toast, raiseVars>>

WindowStep ==
  \/ ListenToQueue
  \/ RefreshWindow
  \/ DrainShow
  \/ \E result \in {"focused", "unfocused"} : Measure(result)
  \/ OpenAnswered
  \/ OpenTimesOut

-----------------------------------------------------------------------------
WindowTypeOK ==
  /\ window \in {"none", "absent", "installed", "listening", "gone"}
  /\ painted.pending \subseteq Requests /\ painted.recent \subseteq Requests \cup Past
  /\ open \subseteq {"raw", "details", "reason"} \X (Requests \cup Past)
  /\ repaint \in BOOLEAN /\ visible \in BOOLEAN /\ asking \in BOOLEAN
  /\ timers \subseteq 1 .. MaxAsks /\ asks \in 0 .. MaxAsks /\ late \in 0 .. MaxAsks
  /\ sheet.kind \in {"none", "allowlist", "trust_host"} /\ sheet.req \in Requests \cup {NoRequest}
  /\ toast \in {"none", "gone"}
  /\ raise.result \in {"none", "focused", "unfocused"} /\ raise.ask \in 0 .. MaxAsks

(* The listening window shows the queue once no repaint is due and no      *)
(* change is still to be heard of, except for a change made between its    *)
(* first painting and its listening.                                       *)
WindowCatchesUp(unheard, missed) ==
  window = "listening" /\ ~repaint /\ ~unheard /\ ~missed => painted.pending = Pending

(* How far the result `vet daemon open` takes can be from its own present. *)
(* The slot is cleared before the asking, but the timer of a present that  *)
(* came too late for an earlier question may still write to it; so a stale *)
(* result can be mistaken for this one's, whatever request_show_observed   *)
(* says.  Yet however presents, timers, timeouts and other raises of the   *)
(* window interleave, an answer is out of date by no more questions than   *)
(* have been given up, and so it is fresh until the first one is.          *)
RaiseAnswerBounded == asking /\ raise # NoRaise => asks - raise.ask <= late

(* A section the user opened stays open while its card is shown, also when *)
(* the request is decided and its card moves to Recent, and no section is  *)
(* open for a card that is gone.                                           *)
SectionsFollowCards ==
  [][/\ \A s \in open \ open' :
          s[2] \notin painted'.pending \cup painted'.recent \/ painted' = painted
     /\ \A s \in open' : s[2] \in painted'.pending \cup painted'.recent]_<<open, painted>>
=============================================================================
