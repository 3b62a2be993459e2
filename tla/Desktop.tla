------------------------------ MODULE Desktop ------------------------------
(***************************************************************************)
(* The approval surfaces of a Linux session around one pending queue: the  *)
(* notifier, the tray and the window, each with threads of its own, the    *)
(* users of all three, and the shutdown that ends them (vetterd/src/lib.rs *)
(* and vetterd/src/notifier/mod.rs).                                       *)
(*                                                                         *)
(* A queue operation changes the queue under its lock and calls the        *)
(* listeners it found there after unlocking; `unheard` holds the calls     *)
(* still to be made.  A setup says which surfaces a session has and which  *)
(* requests are made in it.                                                *)
(***************************************************************************)
EXTENDS Notifier, Tray, Window

CONSTANT Setups   \* sessions: a notification server may join, a tray, a display

(* Requests here have ids of their own. *)
ASSUME DesktopAssumption ==
  /\ IsFiniteSet(Requests)
  /\ IdOf = [r \in Requests |-> r]
  /\ NoVerdict \notin {"allow", "deny"}
  /\ \A x \in Setups :
       /\ x.tray \in BOOLEAN
       /\ x.up \subseteq BOOLEAN
       /\ x.sections \subseteq {"raw", "details", "reason"}

VARIABLES
  setup,      \* the session
  unheard,    \* changes whose listeners have not been called
  toNotify,   \* requests whose worker is about to call Notifier::notify
  missed,     \* the window, installed, was not told of a change
  quitting    \* how far the shutdown has come

coreVars == <<setup, toNotify, missed, quitting>>
desktopVars == <<queueVars, notifierVars, trayVars, windowVars, unheard, coreVars>>

(* A change, and whether the window was listening when it was made. *)
Change(kind, r) == [kind |-> kind, req |-> r, window |-> window = "listening"]

Phases == <<"running", "asked", "cancelled", "tray down", "down">>

DesktopInit ==
  /\ setup \in Setups
  /\ QueueInit
  /\ NotifierInit
  /\ serving \in setup.up
  /\ TrayInit(setup.tray)
  /\ WindowInit
  /\ unheard  = {}
  /\ toNotify = {}
  /\ missed   = FALSE
  /\ quitting = "running"

(* The change is made: its listeners are due. *)
Changed(kind, r) ==
  /\ unheard' = unheard \cup {Change(kind, r)}
  /\ missed'  = (missed \/ window = "installed")

-----------------------------------------------------------------------------
(* A connection worker: submit, call the listeners, call the notifier. *)

SubmitRequest(r) ==
  /\ quitting = "running" /\ r \in setup.live
  /\ Submit(r)
  /\ Changed("submit", r)
  /\ UNCHANGED <<notifierVars, trayVars, windowVars, setup, toNotify, quitting>>

WorkerNotifies(r) ==
  /\ r \in toNotify
  /\ toNotify' = toNotify \ {r}
  /\ Notify(r)
  /\ UNCHANGED <<queueVars, jobsAt, mapVars, buttons, tokens, noteStop, serverVars, inboxVars,
                 trayVars, windowVars, unheard, setup, missed, quitting>>

(* Fault: the last listener to register replaced the notifier's. *)
CallListenersLastOnly(c) ==
  /\ UNCHANGED jobs
  /\ TrayHears
  /\ IF c.window THEN WindowHears ELSE UNCHANGED repaint

CallListeners(c) ==
  /\ NotifierHears
  /\ TrayHears
  /\ IF c.window THEN WindowHears ELSE UNCHANGED repaint

(* After the unlock: send the verdict if there is one, then tell everyone. *)
ListenersHear(c) ==
  /\ c \in unheard
  /\ unheard' = unheard \ {c}
  /\ CallListeners(c)
  /\ IF c.kind = "resolve" THEN Deliver(c.req) ELSE UNCHANGED queueVars
  /\ toNotify' = IF c.kind = "submit" THEN toNotify \cup {c.req} ELSE toNotify
  /\ UNCHANGED <<jobsAt, mapVars, buttons, tokens, noteStop, serverVars, inboxVars,
                 trayAt, menu, published, window, painted, open, showing, visible, sheet,
                 toast, raiseVars, setup, missed, quitting>>

-----------------------------------------------------------------------------
(* Approvers.  Resolving an id with no entry changes nothing. *)

ResolveOrIgnore(r, v) ==
  IF entries[r] = r
  THEN Resolve(r, v) /\ Changed("resolve", r)
  ELSE UNCHANGED <<queueVars, unheard, missed>>

(* The admin socket, or the sweep after a new rule. *)
ApproveElsewhere(r, v) ==
  /\ quitting \in {"running", "asked"} /\ entries[r] = r
  /\ ResolveOrIgnore(r, v)
  /\ UNCHANGED <<notifierVars, trayVars, windowVars, setup, toNotify, quitting>>

(* on_action_invoked, on the signal thread. *)
BannerAction ==
  \E outcome \in {Nothing} \cup [kind : {"resolve", "show"}, req : Requests \cup {NoRequest},
                                 verdict : Verdicts \cup {NoVerdict},
                                 picker : {"none", "allowlist", "trust_host"}] :
    /\ OnActionInvoked(outcome)
    /\ IF outcome.kind = "resolve"
       THEN ResolveOrIgnore(outcome.req, outcome.verdict)
       ELSE UNCHANGED <<queueVars, unheard, missed>>
    /\ IF outcome.kind = "show"
       THEN RequestShow(outcome.req, outcome.picker, 0)
       ELSE UNCHANGED showing
    /\ UNCHANGED <<trayVars, window, painted, open, repaint, visible, sheet, toast, raiseVars,
                   setup, toNotify, quitting>>

(* The tray's Approve and Reject, for an entry of the menu as it is drawn. *)
TrayResolves(r, v) ==
  /\ published /\ r \in MenuEntries
  /\ ResolveOrIgnore(r, v)
  /\ UNCHANGED <<notifierVars, trayVars, windowVars, setup, toNotify, quitting>>

(* The tray's Open entries, where the daemon chose to have a window. *)
TrayOpens(r) ==
  /\ published /\ setup.display /\ r \in MenuEntries \cup {NoRequest}
  /\ RequestShow(r, "none", 0)
  /\ UNCHANGED <<queueVars, notifierVars, trayVars, window, paintVars, visible, sheet, toast,
                 raiseVars, unheard, coreVars>>

(* A card's Approve and Reject buttons. *)
WindowResolves(r, v) ==
  /\ window = "listening" /\ visible /\ r \in painted.pending
  /\ ResolveOrIgnore(r, v)
  /\ UNCHANGED <<notifierVars, trayVars, windowVars, setup, toNotify, quitting>>

-----------------------------------------------------------------------------
(* Shutdown: a signal, or Quit in the tray or the window; the main loop    *)
(* ends, cancel_all, then the tray and the notifier, in that order.        *)

AskToQuit ==
  /\ quitting = "running" /\ setup.quits
  /\ quitting' = "asked"
  /\ UNCHANGED <<queueVars, notifierVars, trayVars, windowVars, unheard, setup, toNotify, missed>>

CancelPending ==
  /\ quitting = "asked" /\ window \in {"none", "absent", "gone"}
  /\ quitting' = "cancelled"
  /\ CancelAll
  /\ IF Pending = {} THEN UNCHANGED <<unheard, missed>> ELSE Changed("cancel", NoRequest)
  /\ UNCHANGED <<notifierVars, trayVars, windowVars, setup, toNotify>>

TrayGoes ==
  /\ quitting = "cancelled" /\ unheard = {}
  /\ quitting' = "tray down"
  /\ IF published THEN TrayShutdown ELSE UNCHANGED trayVars
  /\ UNCHANGED <<queueVars, notifierVars, windowVars, unheard, setup, toNotify, missed>>

NotifierGoes ==
  /\ quitting = "tray down"
  /\ quitting' = "down"
  /\ NotifierShutdown
  /\ UNCHANGED <<queueVars, trayVars, windowVars, unheard, setup, toNotify, missed>>

-----------------------------------------------------------------------------
(* Steps of one surface leave the rest alone. *)

(* Where no server can be started, the first call of the jobs thread never *)
(* returns.                                                                *)
JobsMoves ==
  /\ setup.server /\ JobsStep
  /\ UNCHANGED <<queueVars, trayVars, windowVars, unheard, coreVars>>

SignalsMove ==
  \/ BannerAction
  \/ /\ OnNotificationClosed \/ OnActivationToken
     /\ UNCHANGED <<queueVars, trayVars, windowVars, unheard, coreVars>>

NamesMove ==
  /\ OnNameOwnerChanged
  /\ UNCHANGED <<queueVars, trayVars, windowVars, unheard, coreVars>>

SessionMoves ==
  /\ setup.server
  /\ ServerStep(setup.moves, setup.gestures)
  /\ UNCHANGED <<queueVars, trayVars, windowVars, unheard, coreVars>>

TrayMoves ==
  /\ TrayStep
  /\ UNCHANGED <<queueVars, notifierVars, windowVars, unheard, coreVars>>

(* A repaint repairs what the window was not told of. *)
WindowMoves ==
  /\ setup.display
  /\ WindowStep
  /\ missed' = (missed /\ painted'.pending # Pending)
  /\ UNCHANGED <<queueVars, notifierVars, trayVars, unheard, setup, toNotify, quitting>>

WindowLife ==
  /\ setup.display
  /\ \/ quitting = "running" /\ (InstallWindow \/ GtkFails)
     \/ quitting # "running" /\ WindowGoes
  /\ UNCHANGED <<queueVars, notifierVars, trayVars, unheard, coreVars>>

WindowUser ==
  /\ setup.display
  /\ \/ asks < setup.asks /\ AskOpen
     \/ HideWindow
     \/ \E kind \in setup.sections, r \in Requests : ToggleSection(kind, r)
  /\ UNCHANGED <<queueVars, notifierVars, trayVars, unheard, coreVars>>

DesktopNext ==
  \/ \E r \in Requests : SubmitRequest(r) \/ WorkerNotifies(r) \/ TrayOpens(r)
  \/ TrayOpens(NoRequest)
  \/ \E c \in unheard : ListenersHear(c)
  \/ \E r \in Requests, v \in Verdicts :
       ApproveElsewhere(r, v) \/ TrayResolves(r, v) \/ WindowResolves(r, v)
  \/ AskToQuit
  \/ CancelPending
  \/ TrayGoes
  \/ NotifierGoes
  \/ JobsMoves
  \/ SignalsMove
  \/ NamesMove
  \/ SessionMoves
  \/ TrayMoves
  \/ WindowMoves
  \/ WindowLife
  \/ WindowUser

(* Every daemon thread goes on; users, servers and shutdown need not. *)
Fairness ==
  /\ WF_desktopVars(JobsMoves)
  /\ WF_desktopVars(SignalsMove)
  /\ \A r \in Requests : WF_desktopVars(WorkerNotifies(r))
  /\ WF_desktopVars(\E c \in unheard : ListenersHear(c))

DesktopSpec == DesktopInit /\ [][DesktopNext]_desktopVars /\ Fairness

-----------------------------------------------------------------------------
DesktopTypeOK ==
  /\ NotifierTypeOK
  /\ TrayTypeOK
  /\ WindowTypeOK
  /\ unheard \subseteq [kind : {"submit", "resolve", "cancel"}, req : Requests \cup {NoRequest},
                        window : BOOLEAN]
  /\ toNotify \subseteq Requests
  /\ quitting \in {Phases[k] : k \in DOMAIN Phases}

(* However changes, snapshots and repaints interleave, the tray's menu and *)
(* the window's cards are those of the queue once everybody has heard.     *)
SurfacesCatchUp ==
  /\ TrayCatchesUp(unheard # {})
  /\ WindowCatchesUp(unheard # {}, missed)

(* A banner that was up while its request waited does not outlive it: once *)
(* the request is decided on any surface the banner comes down, unless the *)
(* daemon is told to quit or a server comes or goes.                       *)
BannersComeDown ==
  \A r \in Requests :
    [](OnScreen(r) /\ r \in Pending =>
         <>[](OnScreen(r) /\ quitting = "running" /\ moves = 0 => r \in Pending))
=============================================================================
