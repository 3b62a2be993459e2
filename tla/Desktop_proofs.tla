--------------------------- MODULE Desktop_proofs ---------------------------
(***************************************************************************)
(* The approval surfaces of a Linux session, for every set of requests,    *)
(* every history, every kind of session and any number of notification     *)
(* servers that come and go.                                               *)
(*                                                                         *)
(* The queue among the surfaces is the queue alone (DesktopKeepsQueue), so *)
(* what is proved of it holds here.  The notifier's map rests on a count:  *)
(* a request is posted at most once, so a server never has to give out     *)
(* more ids than there are requests (OnceInv).                             *)
(***************************************************************************)
EXTENDS Desktop, PendingQueue_proofs, FiniteSetTheorems

(* A request is its own id. *)
LEMMA OwnId ==
  /\ \A r \in Requests : IdOf[r] = r /\ r \in Ids /\ r # NoRequest
  /\ Pending = {r \in Requests : entries[r] = r}
  BY QueueAssumption, DesktopAssumption DEF Pending

(* There are as many ids as requests. *)
LEMMA NoteFacts ==
  /\ Cardinality(Requests) \in Nat
  /\ Notes = 1 .. Cardinality(Requests)
  /\ IsFiniteSet(Notes)
  <1>1. Cardinality(Requests) \in Nat
    BY DesktopAssumption, FS_CardinalityType
  <1>2. QED
    BY <1>1, FS_Interval DEF Notes

-----------------------------------------------------------------------------
(* The queue.                                                              *)

(* An approver resolves a request of the queue or does nothing. *)
LEMMA ResolvesOrNot ==
  ASSUME NEW r \in Requests, NEW v \in Verdicts, ResolveOrIgnore(r, v)
  PROVE  [QueueNext]_queueVars
  BY OwnId DEF ResolveOrIgnore, QueueNext

(* A click's meaning decides a request only with a verdict of a button. *)
LEMMA ClickMeans ==
  ASSUME NEW key, NEW r \in Requests \cup {NoRequest}, NEW outcome,
         outcome = ClickOutcome(key, r), outcome.kind = "resolve"
  PROVE  outcome.req = r /\ r \in Requests /\ outcome.verdict \in {"allow", "deny"}
  <1>1. CASE key \in {"approve", "reject"}
    <2>1. outcome = IF r = NoRequest THEN Nothing
                    ELSE Outcome("resolve", r, IF key = "approve" THEN "allow" ELSE "deny", "none")
      BY <1>1 DEF ClickOutcome
    <2>2. r # NoRequest
      BY <2>1 DEF Nothing, Outcome
    <2>3. QED
      BY <2>1, <2>2 DEF Outcome
  <1>2. CASE key \notin {"approve", "reject"}
    <2>1. \/ outcome = Outcome("show", r, NoVerdict, "none")
          \/ outcome = Outcome("show", r, NoVerdict, IF r = NoRequest THEN "none" ELSE key)
          \/ outcome = Nothing
      BY <1>2 DEF ClickOutcome
    <2>2. QED
      BY <2>1 DEF Outcome, Nothing
  <1>3. QED
    BY <1>1, <1>2

(* A button of a banner. *)
LEMMA BannerResolves ==
  ASSUME byNote \in [Notes -> Requests \cup {NoRequest}],
         signals # <<>> => Head(signals).note \in Notes, BannerAction
  PROVE  \/ UNCHANGED <<queueVars, unheard, missed>>
         \/ \E v \in Verdicts :
              /\ byNote[Head(signals).note] \in Requests
              /\ ResolveOrIgnore(byNote[Head(signals).note], v)
  <1>1. PICK outcome \in {Nothing} \cup [kind : {"resolve", "show"}, req : Requests \cup {NoRequest},
                                         verdict : Verdicts \cup {NoVerdict},
                                         picker : {"none", "allowlist", "trust_host"}] :
          /\ OnActionInvoked(outcome)
          /\ IF outcome.kind = "resolve"
             THEN ResolveOrIgnore(outcome.req, outcome.verdict)
             ELSE UNCHANGED <<queueVars, unheard, missed>>
    BY DEF BannerAction
  <1>2. CASE outcome.kind = "resolve"
    <2>1. /\ outcome = ClickOutcome(Head(signals).key, byNote[Head(signals).note])
          /\ byNote[Head(signals).note] \in Requests \cup {NoRequest}
      BY <1>1 DEF OnActionInvoked, Hear, RequestFor
    <2>2. /\ outcome.req = byNote[Head(signals).note] /\ outcome.req \in Requests
          /\ outcome.verdict \in {"allow", "deny"}
      BY <1>2, <2>1, ClickMeans
    <2>3. Nothing.kind # "resolve"
      BY DEF Nothing, Outcome
    <2>4. outcome.verdict \in Verdicts
      BY <1>1, <1>2, <2>2, <2>3, DesktopAssumption
    <2>5. QED
      BY <1>1, <1>2, <2>2, <2>4
  <1>3. CASE outcome.kind # "resolve"
    BY <1>1, <1>3
  <1>4. QED
    BY <1>2, <1>3

-----------------------------------------------------------------------------
(* The notifier's types.                                                   *)
Signals == [kind : {"closed", "token", "action"}, note : Notes,
            key : ActionKeys \cup {"none"}, shown : Requests \cup {NoRequest}]
JobTypes == [op : {"caps", "post", "reconcile", "stop"}, req : Requests \cup {NoRequest}]

NoteTypes ==
  /\ jobs     \in Seq(JobTypes)
  /\ \A k \in 1 .. Len(jobs) : jobs[k].op = "post" => jobs[k].req \in Requests
  /\ jobsAt   \in [op : {"idle", "exited", "link", "forget", "close"},
                   reqs : SUBSET Requests, note : Notes \cup {0}]
  /\ jobsAt.op = "link" => jobsAt.note \in Notes /\ \E r \in Requests : jobsAt.reqs = {r}
  /\ jobsAt.op = "close" => jobsAt.note \in Notes
  /\ byNote   \in [Notes -> Requests \cup {NoRequest}]
  /\ byReq    \in [Requests -> Notes \cup {0}]
  /\ tokens   \subseteq Notes /\ Cardinality(tokens) <= MaxTokens
  /\ screen   \in [Notes -> [req : Requests \cup {NoRequest}, keys : SUBSET ActionKeys]]
  /\ \A n \in Notes : screen[n].req = NoRequest => screen[n] = NoBanner
  /\ nextNote \in Nat \ {0}
  /\ signals  \in Seq(Signals)
  /\ moves    \in Nat
  /\ serving  \in BOOLEAN

(* What the channel of the jobs thread gains or loses in a step.           *)
JobsAppend(job) == jobs' = jobs \/ jobs' = Append(jobs, job)
JobsTail == jobs # <<>> /\ jobs' = Tail(jobs)

(* Everything a step of the session can do to the notifier. *)
NoteMove ==
  \/ UNCHANGED notifierVars
  \/ /\ JobsAppend(Reconcile) \/ \E r \in Requests : JobsAppend(Job("post", r))
     /\ UNCHANGED <<jobsAt, mapVars, buttons, tokens, noteStop, serverVars, inboxVars>>
  \/ NotifierShutdown
  \/ JobsStep /\ UNCHANGED <<queueVars, unheard, toNotify>>
  \/ OnNotificationClosed
  \/ OnActivationToken
  \/ \E outcome : OnActionInvoked(outcome)
  \/ OnNameOwnerChanged
  \/ \E limit, gestures : ServerStep(limit, gestures)

(* A step of the session is one of these. *)
LEMMA StepMovesNote == [DesktopNext]_desktopVars => NoteMove
  <1> SUFFICES ASSUME [DesktopNext]_desktopVars PROVE NoteMove
    OBVIOUS
  <1>1. ASSUME NEW r \in Requests, WorkerNotifies(r) PROVE NoteMove
    BY <1>1 DEF WorkerNotifies, Notify, Send, JobsAppend, NoteMove
  <1>2. ASSUME NEW c \in unheard, ListenersHear(c) PROVE NoteMove
    BY <1>2 DEF ListenersHear, CallListeners, NotifierHears, Send, JobsAppend, NoteMove
  <1>3. CASE SignalsMove
    BY <1>3 DEF SignalsMove, BannerAction, NoteMove
  <1>4. CASE NotifierGoes \/ JobsMoves \/ NamesMove \/ SessionMoves
    BY <1>4 DEF NotifierGoes, JobsMoves, NamesMove, SessionMoves, NoteMove, coreVars
  <1>5. CASE UNCHANGED notifierVars
    BY <1>5 DEF NoteMove
  <1>6. CASE \/ \E r \in Requests : SubmitRequest(r) \/ TrayOpens(r)
             \/ TrayOpens(NoRequest)
             \/ \E r \in Requests, v \in Verdicts :
                  ApproveElsewhere(r, v) \/ TrayResolves(r, v) \/ WindowResolves(r, v)
    BY <1>5, <1>6 DEF SubmitRequest, TrayOpens, ApproveElsewhere, TrayResolves, WindowResolves
  <1>7. CASE AskToQuit \/ CancelPending \/ TrayGoes \/ TrayMoves \/ WindowMoves \/ WindowLife
             \/ WindowUser
    BY <1>5, <1>7
    DEF AskToQuit, CancelPending, TrayGoes, TrayMoves, WindowMoves, WindowLife, WindowUser
  <1>8. CASE UNCHANGED desktopVars
    BY <1>5, <1>8 DEF desktopVars
  <1>9. QED
    BY <1>1, <1>2, <1>3, <1>4, <1>6, <1>7, <1>8 DEF DesktopNext

(* The jobs the notifier gives itself. *)
LEMMA JobFacts ==
  /\ Reconcile \in JobTypes /\ Reconcile.op = "reconcile"
  /\ RefreshCaps \in JobTypes /\ RefreshCaps.op = "caps"
  /\ Stop \in JobTypes /\ Stop.op = "stop"
  /\ \A r \in Requests : Job("post", r) \in JobTypes
  /\ \A r \in Requests : Job("post", r).op = "post" /\ Job("post", r).req = r
  BY DEF Reconcile, RefreshCaps, Stop, Job, JobTypes

(* Each way the channel changes keeps its types. *)
LEMMA JobsTypes ==
  ASSUME NoteTypes,
         \/ jobs' = jobs
         \/ \E job \in JobTypes :
              jobs' = Append(jobs, job) /\ (job.op = "post" => job.req \in Requests)
         \/ jobs' = jobs \o <<Reconcile, Stop>>
         \/ JobsTail
  PROVE  /\ jobs' \in Seq(JobTypes)
         /\ \A k \in 1 .. Len(jobs') : jobs'[k].op = "post" => jobs'[k].req \in Requests
  <1>1. jobs \in Seq(JobTypes)
        /\ \A k \in 1 .. Len(jobs) : jobs[k].op = "post" => jobs[k].req \in Requests
    BY DEF NoteTypes
  <1>2. CASE jobs' = jobs
    BY <1>1, <1>2
  <1>3. ASSUME NEW job \in JobTypes, jobs' = Append(jobs, job),
               job.op = "post" => job.req \in Requests
        PROVE  /\ jobs' \in Seq(JobTypes)
               /\ \A k \in 1 .. Len(jobs') : jobs'[k].op = "post" => jobs'[k].req \in Requests
    BY <1>1, <1>3
  <1>4. CASE jobs' = jobs \o <<Reconcile, Stop>>
    <2>1. jobs' = Append(Append(jobs, Reconcile), Stop)
      BY <1>1, <1>4, JobFacts
    <2>a. Append(jobs, Reconcile) \in Seq(JobTypes)
      BY <1>1, JobFacts
    <2>2. PICK some \in Seq(JobTypes) : some = Append(jobs, Reconcile)
      BY <2>a
    <2>3. \A k \in 1 .. Len(some) : some[k].op = "post" => some[k].req \in Requests
      BY <1>1, <2>2, JobFacts
    <2>4. QED
      BY <2>1, <2>2, <2>3, JobFacts
  <1>5. CASE JobsTail
    BY <1>1, <1>5 DEF JobsTail
  <1>6. QED
    BY <1>2, <1>3, <1>4, <1>5
(* Each way the channel of the signals changes keeps its types. *)
LEMMA SignalsTypes ==
  ASSUME NoteTypes, NEW n \in Notes, NEW key \in ActionKeys,
         \/ signals' = signals
         \/ \E kind \in {"closed", "token"} :
              signals' = Append(signals, Signal(kind, n, "none", NoRequest))
         \/ signals' = Append(signals, Signal("action", n, key, screen[n].req))
         \/ signals' = Append(Append(signals, Signal("action", n, key, screen[n].req)),
                             Signal("closed", n, "none", NoRequest))
  PROVE  signals' \in Seq(Signals)
  <1>1. signals \in Seq(Signals) /\ screen[n].req \in Requests \cup {NoRequest}
    BY DEF NoteTypes
  <1>2. \A kind \in {"closed", "token"} : Signal(kind, n, "none", NoRequest) \in Signals
    BY DEF Signal, Signals
  <1>3. Signal("action", n, key, screen[n].req) \in Signals
    BY <1>1 DEF Signal, Signals
  <1>a. Append(signals, Signal("action", n, key, screen[n].req)) \in Seq(Signals)
    BY <1>1, <1>3
  <1>4. PICK said \in Seq(Signals) : said = Append(signals, Signal("action", n, key, screen[n].req))
    BY <1>a
  <1>5. QED
    BY <1>1, <1>2, <1>4

(* Parking a token keeps the bound. *)
LEMMA ParkBounded ==
  ASSUME tokens \subseteq Notes, Cardinality(tokens) <= MaxTokens, NEW n \in Notes
  PROVE  /\ Park(n) \subseteq Notes /\ Cardinality(Park(n)) <= MaxTokens
         /\ tokens \ {n} \subseteq Notes /\ Cardinality(tokens \ {n}) <= MaxTokens
  <1>1. IsFiniteSet(tokens) /\ Cardinality(tokens) \in Nat
    BY NoteFacts, FS_Subset, FS_CardinalityType
  <1>2. Cardinality(tokens \ {n}) <= Cardinality(tokens) /\ Cardinality(tokens \ {n}) \in Nat
    BY <1>1, FS_Subset, FS_CardinalityType
  <1>3. Cardinality({n}) = 1 /\ {} \cup {n} = {n}
    BY FS_Singleton
  <1>4. Cardinality(tokens \cup {n}) <= Cardinality(tokens) + 1
    BY <1>1, FS_AddElement
  <1>5. MaxTokens \in Nat \ {0}
    BY NotifierAssumption
  <1>6. CASE Cardinality(tokens) >= MaxTokens
    <2>1. Park(n) = {n}
      BY <1>6 DEF Park
    <2>2. QED
      BY <1>1, <1>2, <1>3, <1>5, <2>1
  <1>7. CASE Cardinality(tokens) < MaxTokens
    <2>1. Park(n) = tokens \cup {n}
      BY <1>1, <1>5, <1>7 DEF Park
    <2>2. QED
      <3>1. Cardinality(tokens \cup {n}) \in Nat
        BY <1>1, FS_AddElement
      <3>2. QED
        BY <1>1, <1>2, <1>4, <1>5, <1>7, <2>1, <3>1
  <1>8. QED
    BY <1>1, <1>5, <1>6, <1>7

(* A banner is posted under an id there is. *)
PostFits == PostBanner /\ serving => nextNote \in Notes

(* The jobs thread keeps the notifier's types. *)
LEMMA JobsStepTypes ==
  ASSUME NoteTypes, PostFits, JobsStep
  PROVE  NoteTypes'
  <1>1. ASSUME JobsTail \/ jobs' = jobs
        PROVE  /\ jobs' \in Seq(JobTypes)
               /\ \A k \in 1 .. Len(jobs') : jobs'[k].op = "post" => jobs'[k].req \in Requests
    BY <1>1, JobsTypes
  <1>2. CASE JobsThreadEnds
    <2>1. JobsTail
      BY <1>2 DEF JobsThreadEnds, JobsTail
    <2>2. QED
      BY <1>1, <1>2, <2>1
      DEF JobsThreadEnds, NoteTypes, mapVars, serverVars, inboxVars, Exited, At
  <1>3. CASE RefreshCapabilities
    <2>1. JobsTail
      BY <1>3 DEF RefreshCapabilities, Take, JobsTail
    <2>2. QED
      BY <1>1, <1>3, <2>1 DEF RefreshCapabilities, NoteTypes, mapVars, serverVars, inboxVars
  <1>4. CASE PostBanner
    <2>1. JobsTail
      BY <1>4 DEF PostBanner, Take, JobsTail
    <2>2. PICK r \in Requests : r = Head(jobs).req
      BY <1>4 DEF PostBanner, Take, NoteTypes
    <2>3. CASE serving
      <3>1. nextNote \in Notes
        BY <1>4, <2>3 DEF PostFits
      <3>2. /\ screen'   = [screen EXCEPT ![nextNote] = Banner(r, ActionsFor(r))]
            /\ nextNote' = nextNote + 1
            /\ jobsAt'   = At("link", {r}, nextNote)
            /\ UNCHANGED <<mapVars, buttons, tokens, noteStop, serving, moves, inboxVars>>
        BY <1>4, <2>2, <2>3 DEF PostBanner
      <3>3. Banner(r, ActionsFor(r)) \in [req : Requests \cup {NoRequest}, keys : SUBSET ActionKeys]
            /\ Banner(r, ActionsFor(r)).req # NoRequest
        BY OwnId DEF Banner, ActionsFor, ActionKeys
      <3>4. /\ screen' \in [Notes -> [req : Requests \cup {NoRequest}, keys : SUBSET ActionKeys]]
            /\ \A n \in Notes : screen'[n].req = NoRequest => screen'[n] = NoBanner
        BY <3>1, <3>2, <3>3 DEF NoteTypes
      <3>5. QED
        BY <1>1, <2>1, <3>1, <3>2, <3>4 DEF NoteTypes, mapVars, inboxVars, At
    <2>4. CASE ~serving
      BY <1>1, <1>4, <2>1, <2>4 DEF PostBanner, NoteTypes, mapVars, inboxVars
    <2>5. QED
      BY <2>3, <2>4
  <1>5. CASE LinkBanner
    <2>1. PICK r \in Requests : jobsAt.reqs = {r} /\ jobsAt.note \in Notes
      BY <1>5 DEF LinkBanner, NoteTypes
    <2>2. Link(jobsAt.note, r)
      BY <1>5, <2>1 DEF LinkBanner
    <2>3. /\ byNote' \in [Notes -> Requests \cup {NoRequest}]
          /\ byReq'  \in [Requests -> Notes \cup {0}]
      BY <2>1, <2>2 DEF Link, NoteTypes
    <2>4. QED
      BY <1>5, <2>3 DEF LinkBanner, NoteTypes, serverVars, inboxVars, Idle, At
  <1>6. CASE ReconcileStale
    <2>1. JobsTail
      BY <1>6 DEF ReconcileStale, Take, JobsTail
    <2>2. BannersToClose({r \in Requests : byReq[r] # 0}) \in SUBSET Requests
      BY DEF BannersToClose
    <2>3. QED
      BY <1>1, <1>6, <2>1, <2>2
      DEF ReconcileStale, NoteTypes, mapVars, serverVars, inboxVars, At, Idle
  <1>7. CASE ReconcileForget
    <2>1. PICK r \in jobsAt.reqs :
            /\ ForgetRequest(r)
            /\ jobsAt' = IF byReq[r] # 0 THEN At("close", jobsAt.reqs \ {r}, byReq[r])
                         ELSE IF jobsAt.reqs \ {r} = {} THEN Idle ELSE At("forget", jobsAt.reqs \ {r}, 0)
      BY <1>7 DEF ReconcileForget
    <2>2. r \in Requests /\ jobsAt.reqs \ {r} \in SUBSET Requests /\ byReq[r] \in Notes \cup {0}
      BY <2>1 DEF NoteTypes
    <2>3. /\ byNote' \in [Notes -> Requests \cup {NoRequest}]
          /\ byReq'  \in [Requests -> Notes \cup {0}]
      BY <2>1, <2>2 DEF ForgetRequest, NoteTypes
    <2>4. /\ jobsAt'   \in [op : {"idle", "exited", "link", "forget", "close"},
                           reqs : SUBSET Requests, note : Notes \cup {0}]
          /\ jobsAt'.op # "link"
          /\ jobsAt'.op = "close" => jobsAt'.note \in Notes
      BY <2>1, <2>2 DEF At, Idle
    <2>5. QED
      BY <1>7, <2>3, <2>4 DEF ReconcileForget, NoteTypes, serverVars, inboxVars
  <1>8. CASE ReconcileClose
    <2>1. jobsAt.note \in Notes
      BY <1>8 DEF ReconcileClose, NoteTypes
    <2>2. \E kind \in {"closed", "token"} :
             signals' = Append(signals, Signal(kind, jobsAt.note, "none", NoRequest))
             \/ signals' = signals
      BY <1>8 DEF ReconcileClose
    <2>3. "other" \in ActionKeys
      BY DEF ActionKeys
    <2>4. signals' \in Seq(Signals)
      BY <2>1, <2>2, <2>3, SignalsTypes
    <2>5. /\ screen' \in [Notes -> [req : Requests \cup {NoRequest}, keys : SUBSET ActionKeys]]
          /\ \A n \in Notes : screen'[n].req = NoRequest => screen'[n] = NoBanner
      BY <1>8, <2>1 DEF ReconcileClose, NoteTypes, NoBanner
    <2>6. QED
      BY <1>8, <2>4, <2>5 DEF ReconcileClose, NoteTypes, mapVars, At, Idle
  <1>9. QED
    BY <1>2, <1>3, <1>4, <1>5, <1>6, <1>7, <1>8 DEF JobsStep

(* So do the signal thread and the name thread. *)
LEMMA ThreadsTypes ==
  ASSUME NoteTypes,
         OnNotificationClosed \/ OnActivationToken \/ (\E outcome : OnActionInvoked(outcome))
         \/ OnNameOwnerChanged
  PROVE  NoteTypes'
  <1>1. ASSUME NEW kind, Hear(kind)
        PROVE  Head(signals).note \in Notes /\ signals' \in Seq(Signals)
    <2>1. signals \in Seq(Signals) /\ signals # <<>> /\ signals' = Tail(signals)
      BY <1>1 DEF Hear, NoteTypes
    <2>2. Head(signals) \in Signals /\ signals' \in Seq(Signals)
      BY <2>1
    <2>3. QED
      BY <2>2 DEF Signals
  <1>2. CASE OnNotificationClosed
    <2>1. PICK n \in Notes : n = Head(signals).note
      BY <1>1, <1>2 DEF OnNotificationClosed
    <2>2. /\ byNote' \in [Notes -> Requests \cup {NoRequest}]
          /\ byReq'  \in [Requests -> Notes \cup {0}]
      BY <1>2, <2>1 DEF OnNotificationClosed, ForgetNotification, NoteTypes
    <2>3. tokens' \subseteq Notes /\ Cardinality(tokens') <= MaxTokens
      BY <1>2, <2>1, ParkBounded DEF OnNotificationClosed, NoteTypes
    <2>4. QED
      BY <1>1, <1>2, <2>2, <2>3 DEF OnNotificationClosed, NoteTypes, serverVars
  <1>3. CASE OnActivationToken
    <2>1. PICK n \in Notes : n = Head(signals).note
      BY <1>1, <1>3 DEF OnActivationToken
    <2>2. tokens' \subseteq Notes /\ Cardinality(tokens') <= MaxTokens
      BY <1>3, <2>1, ParkBounded DEF OnActivationToken, NoteTypes
    <2>3. QED
      BY <1>1, <1>3, <2>2 DEF OnActivationToken, NoteTypes, mapVars, serverVars
  <1>4. ASSUME NEW outcome, OnActionInvoked(outcome) PROVE NoteTypes'
    <2>1. PICK n \in Notes : n = Head(signals).note
      BY <1>1, <1>4 DEF OnActionInvoked
    <2>2. tokens' \subseteq Notes /\ Cardinality(tokens') <= MaxTokens
      BY <1>4, <2>1, ParkBounded DEF OnActionInvoked, NoteTypes
    <2>3. QED
      BY <1>1, <1>4, <2>2 DEF OnActionInvoked, NoteTypes, mapVars, serverVars
  <1>5. CASE OnNameOwnerChanged
    <2>1. jobs' = jobs \/ jobs' = Append(jobs, RefreshCaps)
      BY <1>5 DEF OnNameOwnerChanged, Send
    <2>2. /\ jobs' \in Seq(JobTypes)
          /\ \A k \in 1 .. Len(jobs') : jobs'[k].op = "post" => jobs'[k].req \in Requests
      BY <2>1, JobsTypes, JobFacts
    <2>3. QED
      BY <1>5, <2>2 DEF OnNameOwnerChanged, ClearMap, NoteTypes, serverVars
  <1>6. QED
    BY <1>2, <1>3, <1>4, <1>5

(* So do the server and its user. *)
LEMMA ServerTypes ==
  ASSUME NoteTypes, NEW limit, NEW gestures, ServerStep(limit, gestures)
  PROVE  NoteTypes'
  <1>s. \A n \in Notes : screen[n] \in [req : Requests \cup {NoRequest}, keys : SUBSET ActionKeys]
    BY DEF NoteTypes
  <1>1. ASSUME NEW n \in Notes, screen' = [screen EXCEPT ![n] = NoBanner] \/ screen' = screen
        PROVE  /\ screen' \in [Notes -> [req : Requests \cup {NoRequest}, keys : SUBSET ActionKeys]]
               /\ \A m \in Notes : screen'[m].req = NoRequest => screen'[m] = NoBanner
    <2>1. NoBanner \in [req : Requests \cup {NoRequest}, keys : SUBSET ActionKeys]
      BY DEF NoBanner
    <2>2. screen \in [Notes -> [req : Requests \cup {NoRequest}, keys : SUBSET ActionKeys]]
          /\ \A m \in Notes : screen[m].req = NoRequest => screen[m] = NoBanner
      BY DEF NoteTypes
    <2>3. QED
      BY <1>1, <2>1, <2>2
  <1>2. CASE ServerLeaves
    <2>1. NoBanner \in [req : Requests \cup {NoRequest}, keys : SUBSET ActionKeys]
      BY DEF NoBanner
    <2>2. /\ screen' \in [Notes -> [req : Requests \cup {NoRequest}, keys : SUBSET ActionKeys]]
          /\ \A m \in Notes : screen'[m].req = NoRequest => screen'[m] = NoBanner
      BY <1>2, <2>1 DEF ServerLeaves
    <2>3. moves' \in Nat /\ serving' \in BOOLEAN
      <3>1. moves \in Nat
        BY DEF NoteTypes
      <3>2. moves' = moves + 1 /\ serving' = FALSE
        BY <1>2 DEF ServerLeaves
      <3>3. moves' \in Nat
        BY <3>1, <3>2
      <3>4. QED
        BY <3>2, <3>3
    <2>4. QED
      BY <1>2, <2>2, <2>3 DEF ServerLeaves, NoteTypes, mapVars
  <1>3. CASE ServerJoins
    BY <1>3 DEF ServerJoins, NoteTypes, mapVars
  <1>4. ASSUME NEW n \in Notes, UserDismisses(n) PROVE NoteTypes'
    <2>1. "other" \in ActionKeys
      BY DEF ActionKeys
    <2>2. signals' \in Seq(Signals)
      BY <1>4, <2>1, SignalsTypes DEF UserDismisses
    <2>3. QED
      BY <1>1, <1>4, <2>2 DEF UserDismisses, NoteTypes, mapVars
  <1>5. ASSUME NEW n \in Notes, UserTouches(n) PROVE NoteTypes'
    <2>1. "other" \in ActionKeys
      BY DEF ActionKeys
    <2>2. signals' \in Seq(Signals)
      BY <1>5, <2>1, SignalsTypes DEF UserTouches
    <2>3. QED
      BY <1>5, <2>2 DEF UserTouches, NoteTypes, mapVars, serverVars
  <1>6. ASSUME NEW n \in Notes, NEW key \in ActionKeys, UserClicks(n, key) PROVE NoteTypes'
    <2>2. signals' \in Seq(Signals)
      BY <1>6, SignalsTypes DEF UserClicks
    <2>3. QED
      BY <1>1, <1>6, <2>2 DEF UserClicks, NoteTypes, mapVars
  <1>7. QED
    BY <1>2, <1>3, <1>4, <1>5, <1>6 DEF ServerStep

(* So every step does. *)
LEMMA MoveTypes ==
  ASSUME NoteTypes, PostFits, NoteMove
  PROVE  NoteTypes'
  <1>1. CASE UNCHANGED notifierVars
    BY <1>1 DEF notifierVars, NoteTypes, mapVars, serverVars, inboxVars
  <1>2. CASE /\ JobsAppend(Reconcile) \/ \E r \in Requests : JobsAppend(Job("post", r))
             /\ UNCHANGED <<jobsAt, mapVars, buttons, tokens, noteStop, serverVars, inboxVars>>
    <2>1. /\ jobs' \in Seq(JobTypes)
          /\ \A k \in 1 .. Len(jobs') : jobs'[k].op = "post" => jobs'[k].req \in Requests
      BY <1>2, JobsTypes, JobFacts DEF JobsAppend
    <2>2. QED
      BY <1>2, <2>1 DEF NoteTypes, mapVars, serverVars, inboxVars
  <1>3. CASE NotifierShutdown
    <2>1. /\ jobs' \in Seq(JobTypes)
          /\ \A k \in 1 .. Len(jobs') : jobs'[k].op = "post" => jobs'[k].req \in Requests
      BY <1>3, JobsTypes DEF NotifierShutdown
    <2>2. QED
      BY <1>3, <2>1 DEF NotifierShutdown, NoteTypes, mapVars, serverVars, inboxVars
  <1>4. QED
    BY <1>1, <1>2, <1>3, JobsStepTypes, ThreadsTypes, ServerTypes DEF NoteMove

-----------------------------------------------------------------------------
(* The way of a request to its banner: submitted, heard of, notified,      *)
(* queued for the jobs thread; each stage once.                            *)
Heard(c, r) == c.kind = "submit" /\ c.req = r
Due(r) == \E c \in unheard : Heard(c, r)
QueuedAt(k, r) == jobs[k].op = "post" /\ jobs[k].req = r
Queued(r) == \E k \in 1 .. Len(jobs) : QueuedAt(k, r)

ChangeTypes ==
  /\ unheard \subseteq [kind : {"submit", "resolve", "cancel"}, req : Requests \cup {NoRequest},
                        window : BOOLEAN]
  /\ \A c \in unheard : c.kind \in {"submit", "resolve"} => c.req \in Requests
  /\ toNotify \subseteq Requests
  /\ calls \in [Requests -> {"none", "parked", "auto"}]
  /\ setup \in Setups
  /\ quitting \in {Phases[k] : k \in DOMAIN Phases}

(* A request has no banner yet and may get one. *)
Unposted == {r \in Requests : calls[r] = "none" \/ Due(r) \/ r \in toNotify \/ Queued(r)}

Staged ==
  /\ \A r \in Requests : Due(r) \/ r \in toNotify \/ Queued(r) => calls[r] # "none"
  /\ \A r \in Requests : Due(r) => r \notin toNotify /\ ~Queued(r)
  /\ \A r \in Requests : r \in toNotify => ~Queued(r)
  /\ \A r \in Requests : \A c, d \in unheard : Heard(c, r) /\ Heard(d, r) => c = d
  /\ \A r \in Requests : \A j, k \in 1 .. Len(jobs) : QueuedAt(j, r) /\ QueuedAt(k, r) => j = k

(* The steps on that way. *)
StageSubmit(r) ==
  /\ calls[r] = "none" /\ calls' = [calls EXCEPT ![r] = "parked"]
  /\ unheard' = unheard \cup {Change("submit", r)}
  /\ UNCHANGED <<toNotify, jobs>>

StageHear(c) ==
  /\ c \in unheard /\ unheard' = unheard \ {c}
  /\ toNotify' = IF c.kind = "submit" THEN toNotify \cup {c.req} ELSE toNotify
  /\ JobsAppend(Reconcile)
  /\ UNCHANGED calls

StageNotify(r) ==
  /\ r \in toNotify /\ toNotify' = toNotify \ {r}
  /\ JobsAppend(Job("post", r))
  /\ UNCHANGED <<calls, unheard>>

StageTail == JobsTail /\ UNCHANGED <<calls, unheard, toNotify>>

StageRest ==
  /\ \/ UNCHANGED unheard
     \/ \E r \in Requests : unheard' = unheard \cup {Change("resolve", r)}
     \/ unheard' = unheard \cup {Change("cancel", NoRequest)}
  /\ \/ JobsAppend(RefreshCaps)
     \/ jobs' = jobs \o <<Reconcile, Stop>>
  /\ UNCHANGED <<calls, toNotify>>

StageMove ==
  \/ \E r \in Requests : StageSubmit(r) \/ StageNotify(r)
  \/ \E c \in unheard : StageHear(c)
  \/ StageTail
  \/ StageRest

(* Requests are resolved without a stage being lost or won. *)
LEMMA ResolveStages ==
  ASSUME NEW r \in Requests, NEW v \in Verdicts, ResolveOrIgnore(r, v)
  PROVE  /\ UNCHANGED calls
         /\ \/ UNCHANGED unheard
            \/ unheard' = unheard \cup {Change("resolve", r)}
  BY DEF ResolveOrIgnore, Resolve, Changed, queueVars

(* Every step of the session is one of these. *)
LEMMA StepStages ==
  ASSUME NoteTypes, [DesktopNext]_desktopVars
  PROVE  StageMove
  <1>0. ASSUME UNCHANGED <<calls, toNotify, jobs>>,
               \/ UNCHANGED unheard
               \/ \E r \in Requests : unheard' = unheard \cup {Change("resolve", r)}
               \/ unheard' = unheard \cup {Change("cancel", NoRequest)}
        PROVE  StageMove
    BY <1>0 DEF StageMove, StageRest, JobsAppend
  <1>h. /\ byNote \in [Notes -> Requests \cup {NoRequest}]
        /\ signals # <<>> => Head(signals).note \in Notes
    <2>1. signals \in Seq(Signals)
      BY DEF NoteTypes
    <2>2. signals # <<>> => Head(signals) \in Signals
      BY <2>1
    <2>3. QED
      BY <2>2 DEF NoteTypes, Signals
  <1>1. ASSUME NEW r \in Requests, SubmitRequest(r) PROVE StageMove
    <2>1. StageSubmit(r)
      BY <1>1 DEF SubmitRequest, Submit, Changed, StageSubmit, notifierVars
    <2>2. QED
      BY <2>1 DEF StageMove
  <1>2. ASSUME NEW r \in Requests, WorkerNotifies(r) PROVE StageMove
    <2>1. StageNotify(r)
      BY <1>2 DEF WorkerNotifies, Notify, Send, JobsAppend, StageNotify, queueVars
    <2>2. QED
      BY <2>1 DEF StageMove
  <1>3. ASSUME NEW c \in unheard, ListenersHear(c) PROVE StageMove
    <2>1. StageHear(c)
      BY <1>3
      DEF ListenersHear, CallListeners, NotifierHears, Send, JobsAppend, Deliver, StageHear, queueVars
    <2>2. QED
      BY <2>1 DEF StageMove
  <1>4. ASSUME NEW r \in Requests, NEW v \in Verdicts,
               ApproveElsewhere(r, v) \/ TrayResolves(r, v) \/ WindowResolves(r, v)
        PROVE  StageMove
    BY <1>0, <1>4, ResolveStages
    DEF ApproveElsewhere, TrayResolves, WindowResolves, notifierVars
  <1>5. CASE CancelPending
    BY <1>0, <1>5 DEF CancelPending, CancelAll, Changed, notifierVars
  <1>6. CASE BannerAction
    <2>1. UNCHANGED <<jobs, toNotify>>
      BY <1>6 DEF BannerAction, OnActionInvoked
    <2>2. \/ UNCHANGED <<queueVars, unheard, missed>>
          \/ \E v \in Verdicts :
               /\ byNote[Head(signals).note] \in Requests
               /\ ResolveOrIgnore(byNote[Head(signals).note], v)
      BY <1>6, <1>h, BannerResolves
    <2>3. CASE UNCHANGED <<queueVars, unheard, missed>>
      BY <1>0, <2>1, <2>3 DEF queueVars
    <2>4. ASSUME NEW v \in Verdicts, byNote[Head(signals).note] \in Requests,
                 ResolveOrIgnore(byNote[Head(signals).note], v)
          PROVE  StageMove
      BY <1>0, <2>1, <2>4, ResolveStages
    <2>5. QED
      BY <2>2, <2>3, <2>4
  <1>7. CASE JobsMoves
    <2>1. CASE LinkBanner \/ ReconcileForget \/ ReconcileClose
      BY <1>0, <1>7, <2>1
      DEF JobsMoves, LinkBanner, ReconcileForget, ReconcileClose, queueVars, coreVars
    <2>2. CASE JobsThreadEnds \/ RefreshCapabilities \/ PostBanner \/ ReconcileStale
      <3>1. StageTail
        BY <1>7, <2>2
        DEF JobsMoves, JobsThreadEnds, RefreshCapabilities, PostBanner, ReconcileStale, Take,
            StageTail, JobsTail, queueVars, coreVars
      <3>2. QED
        BY <3>1 DEF StageMove
    <2>3. QED
      BY <1>7, <2>1, <2>2 DEF JobsMoves, JobsStep
  <1>8. CASE NamesMove
    <2>1. StageRest
      BY <1>8 DEF NamesMove, OnNameOwnerChanged, Send, JobsAppend, StageRest, queueVars, coreVars
    <2>2. QED
      BY <2>1 DEF StageMove
  <1>9. CASE NotifierGoes
    <2>1. StageRest
      BY <1>9 DEF NotifierGoes, NotifierShutdown, StageRest, queueVars
    <2>2. QED
      BY <2>1 DEF StageMove
  <1>10. CASE SessionMoves \/ (SignalsMove /\ ~BannerAction)
    <2>1. UNCHANGED jobs
      BY <1>10
      DEF SessionMoves, SignalsMove, OnNotificationClosed, OnActivationToken, ServerStep, ServerLeaves,
          ServerJoins, UserDismisses, UserTouches, UserClicks
    <2>2. UNCHANGED <<calls, toNotify, unheard>>
      BY <1>10 DEF SessionMoves, SignalsMove, queueVars, coreVars
    <2>3. QED
      BY <1>0, <2>1, <2>2
  <1>11. CASE \/ \E r \in Requests \cup {NoRequest} : TrayOpens(r)
              \/ AskToQuit \/ TrayGoes \/ TrayMoves \/ WindowMoves \/ WindowLife \/ WindowUser
              \/ UNCHANGED desktopVars
    BY <1>0, <1>11
    DEF TrayOpens, AskToQuit, TrayGoes, TrayMoves, WindowMoves, WindowLife, WindowUser, desktopVars,
        queueVars, coreVars, notifierVars
  <1>12. QED
    BY <1>1, <1>2, <1>3, <1>4, <1>5, <1>6, <1>7, <1>8, <1>9, <1>10, <1>11 DEF DesktopNext, SignalsMove

(* What waits for the jobs thread, before and after. *)
PostOnce(r) == \A j, k \in 1 .. Len(jobs) : QueuedAt(j, r) /\ QueuedAt(k, r) => j = k

(* Other jobs leave the posts alone. *)
LEMMA OtherJobs ==
  ASSUME jobs \in Seq(JobTypes), NEW r \in Requests,
         \/ \E job \in JobTypes : job.op # "post" /\ JobsAppend(job)
         \/ jobs' = jobs \o <<Reconcile, Stop>>
  PROVE  /\ Queued(r)' => Queued(r)
         /\ PostOnce(r) => PostOnce(r)'
  <1>1. ASSUME NEW k \in 1 .. Len(jobs'), QueuedAt(k, r)'
        PROVE  k \in 1 .. Len(jobs) /\ QueuedAt(k, r)
    <2>1. ASSUME NEW job \in JobTypes, job.op # "post", jobs' = Append(jobs, job)
          PROVE  k \in 1 .. Len(jobs) /\ QueuedAt(k, r)
      BY <1>1, <2>1 DEF QueuedAt
    <2>2. CASE jobs' = jobs
      BY <1>1, <2>2 DEF QueuedAt
    <2>3. CASE jobs' = jobs \o <<Reconcile, Stop>>
      <3>a. Append(jobs, Reconcile) \in Seq(JobTypes)
        BY JobFacts
      <3>1. PICK some \in Seq(JobTypes) : some = Append(jobs, Reconcile)
        BY <3>a
      <3>2. jobs' = Append(some, Stop)
        BY <2>3, <3>1, JobFacts
      <3>3. k \in 1 .. Len(some) /\ some[k].op = "post" /\ some[k].req = r
        BY <1>1, <3>2, JobFacts DEF QueuedAt
      <3>4. QED
        BY <3>1, <3>3, JobFacts DEF QueuedAt
    <2>4. QED
      BY <2>1, <2>2, <2>3 DEF JobsAppend
  <1>2. Queued(r)' => Queued(r)
    BY <1>1 DEF Queued
  <1>3. ASSUME PostOnce(r) PROVE PostOnce(r)'
    BY <1>1, <1>3 DEF PostOnce
  <1>4. QED
    BY <1>2, <1>3

(* The thread takes the first. *)
LEMMA TailJobs ==
  ASSUME jobs \in Seq(JobTypes), NEW r \in Requests, JobsTail
  PROVE  /\ Queued(r)' => Queued(r)
         /\ PostOnce(r) => PostOnce(r)'
         /\ Head(jobs).op = "post" /\ Head(jobs).req = r => Queued(r)
         /\ PostOnce(r) /\ Head(jobs).op = "post" /\ Head(jobs).req = r => ~Queued(r)'
  <1>1. ASSUME NEW k \in 1 .. Len(jobs')
        PROVE  k + 1 \in 1 .. Len(jobs) /\ k + 1 # 1 /\ jobs'[k] = jobs[k + 1]
    BY DEF JobsTail
  <1>2. ASSUME NEW k \in 1 .. Len(jobs'), QueuedAt(k, r)'
        PROVE  QueuedAt(k + 1, r)
    BY <1>1, <1>2 DEF QueuedAt
  <1>3. Queued(r)' => Queued(r)
    BY <1>1, <1>2 DEF Queued
  <1>4. ASSUME PostOnce(r) PROVE PostOnce(r)'
    <2>1. SUFFICES ASSUME NEW j \in 1 .. Len(jobs'), NEW k \in 1 .. Len(jobs'),
                          QueuedAt(j, r)', QueuedAt(k, r)'
                   PROVE  j = k
      BY DEF PostOnce
    <2>2. j + 1 = k + 1
      BY <1>1, <1>2, <1>4, <2>1 DEF PostOnce
    <2>3. QED
      BY <2>2
  <1>5. ASSUME Head(jobs).op = "post", Head(jobs).req = r
        PROVE  Queued(r) /\ (PostOnce(r) => ~Queued(r)')
    <2>1. 1 \in 1 .. Len(jobs) /\ QueuedAt(1, r)
      BY <1>5 DEF JobsTail, QueuedAt
    <2>2. ASSUME PostOnce(r), NEW k \in 1 .. Len(jobs'), QueuedAt(k, r)' PROVE FALSE
      <3>1. k + 1 = 1
        BY <1>1, <1>2, <2>1, <2>2 DEF PostOnce
      <3>2. QED
        BY <1>1, <3>1
    <2>3. QED
      BY <2>1, <2>2 DEF Queued
  <1>6. QED
    BY <1>3, <1>4, <1>5

(* A worker adds one post. *)
LEMMA PostJobs ==
  ASSUME jobs \in Seq(JobTypes), NEW r \in Requests, NEW q \in Requests,
         JobsAppend(Job("post", q))
  PROVE  /\ Queued(r)' => Queued(r) \/ r = q
         /\ PostOnce(r) /\ (r = q => ~Queued(r)) => PostOnce(r)'
  <1>1. ASSUME NEW k \in 1 .. Len(jobs'), QueuedAt(k, r)'
        PROVE  \/ k \in 1 .. Len(jobs) /\ QueuedAt(k, r)
               \/ k = Len(jobs) + 1 /\ r = q
    <2>1. CASE jobs' = jobs
      BY <1>1, <2>1 DEF QueuedAt
    <2>2. CASE jobs' = Append(jobs, Job("post", q))
      BY <1>1, <2>2, JobFacts DEF QueuedAt
    <2>3. QED
      BY <2>1, <2>2 DEF JobsAppend
  <1>2. QED
    BY <1>1 DEF Queued, PostOnce

(* What a step does to the stages of one request. *)
StaysStaged(r) ==
  /\ Due(r)' \/ r \in toNotify' \/ Queued(r)' => calls'[r] # "none" /\ r \in Unposted
  /\ Due(r)' => r \notin toNotify' /\ ~Queued(r)'
  /\ r \in toNotify' => ~Queued(r)'
  /\ \A c, d \in unheard' : Heard(c, r) /\ Heard(d, r) => c = d
  /\ PostOnce(r)'
  /\ calls'[r] = "none" => calls[r] = "none"

(* The stages stay apart, and nobody gets a second turn. *)
LEMMA StagesKept ==
  ASSUME NoteTypes, ChangeTypes, Staged, StageMove
  PROVE  Staged' /\ Unposted' \subseteq Unposted
  <1>a. jobs \in Seq(JobTypes)
    BY DEF NoteTypes
  <1>b. \A r \in Requests : PostOnce(r)
    BY DEF Staged, PostOnce
  <1>t. /\ calls \in [Requests -> {"none", "parked", "auto"}]
        /\ toNotify \subseteq Requests
        /\ \A c \in unheard : c.kind = "submit" => c.req \in Requests
    BY DEF ChangeTypes
  <1>s. SUFFICES \A r \in Requests : StaysStaged(r)
    BY DEF StaysStaged, Staged, Unposted, PostOnce
  <1>0. ASSUME NEW r \in Requests
        PROVE  /\ Due(r) \/ r \in toNotify \/ Queued(r) => calls[r] # "none" /\ r \in Unposted
               /\ Due(r) => r \notin toNotify /\ ~Queued(r)
               /\ r \in toNotify => ~Queued(r)
               /\ \A c, d \in unheard : Heard(c, r) /\ Heard(d, r) => c = d
               /\ PostOnce(r)
               /\ calls[r] = "none" => r \in Unposted
    BY <1>b DEF Staged, Unposted
  <1>j. \A c, d : c \in unheard /\ d \in unheard => \A r \in Requests : Heard(c, r) /\ Heard(d, r) => c = d
    BY <1>0
  <1>1. ASSUME NEW q \in Requests, StageSubmit(q)
        PROVE  \A r \in Requests : StaysStaged(r)
    <2> TAKE r \in Requests
    <2>1. calls'[r] = IF r = q THEN "parked" ELSE calls[r]
      BY <1>1, <1>t DEF StageSubmit
    <2>2. UNCHANGED <<jobs, toNotify>> /\ calls[q] = "none" /\ q \in Unposted
      BY <1>1 DEF StageSubmit, Unposted
    <2>3. (Queued(r)' <=> Queued(r)) /\ (PostOnce(r)' <=> PostOnce(r))
      BY <2>2 DEF Queued, PostOnce, QueuedAt
    <2>4. ASSUME NEW c \in unheard', Heard(c, r)
          PROVE  c \in unheard \/ (c = Change("submit", q) /\ r = q)
      BY <1>1, <2>4 DEF StageSubmit, Heard, Change
    <2>5. Due(r)' => Due(r) \/ r = q
      BY <2>4 DEF Due, Heard
    <2>6. r = q => ~Due(r) /\ r \notin toNotify /\ ~Queued(r)
      BY <1>0, <2>2
    <2>7. \A c, d \in unheard' : Heard(c, r) /\ Heard(d, r) => c = d
      <3>1. CASE r = q
        BY <2>4, <2>6, <3>1 DEF Due
      <3>2. CASE r # q
        BY <1>j, <2>4, <3>2
      <3>3. QED
        BY <3>1, <3>2
    <2>8. QED
      BY <1>0, <2>1, <2>2, <2>3, <2>5, <2>6, <2>7 DEF StaysStaged
  <1>2. ASSUME NEW q \in Requests, StageNotify(q)
        PROVE  \A r \in Requests : StaysStaged(r)
    <2> TAKE r \in Requests
    <2>1. /\ UNCHANGED <<calls, unheard>> /\ q \in toNotify /\ toNotify' = toNotify \ {q}
          /\ JobsAppend(Job("post", q))
      BY <1>2 DEF StageNotify
    <2>2. Due(r)' <=> Due(r)
      BY <2>1 DEF Due, Heard
    <2>3. /\ Queued(r)' => Queued(r) \/ r = q
          /\ PostOnce(r) /\ (r = q => ~Queued(r)) => PostOnce(r)'
      BY <1>a, <2>1, PostJobs
    <2>4. QED
      BY <1>0, <1>j, <2>1, <2>2, <2>3 DEF StaysStaged
  <1>3. ASSUME NEW e \in unheard, StageHear(e)
        PROVE  \A r \in Requests : StaysStaged(r)
    <2> TAKE r \in Requests
    <2>1. /\ UNCHANGED calls /\ unheard' = unheard \ {e} /\ JobsAppend(Reconcile)
          /\ toNotify' = IF e.kind = "submit" THEN toNotify \cup {e.req} ELSE toNotify
      BY <1>3 DEF StageHear
    <2>2. (Queued(r)' => Queued(r)) /\ PostOnce(r)'
      <3>1. Reconcile \in JobTypes /\ Reconcile.op # "post"
        BY JobFacts
      <3>2. QED
        BY <1>0, <1>a, <2>1, <3>1, OtherJobs
    <2>3. Due(r)' => Due(r)
      BY <2>1 DEF Due, Heard
    <2>4. r \in toNotify' => r \in toNotify \/ (Heard(e, r) /\ Due(r))
      BY <2>1 DEF Due, Heard
    <2>5. Heard(e, r) => ~Due(r)'
      BY <1>j, <2>1 DEF Due, Heard
    <2>6. QED
      BY <1>0, <1>j, <2>1, <2>2, <2>3, <2>4, <2>5 DEF StaysStaged
  <1>4. CASE StageTail \/ StageRest
    <2> TAKE r \in Requests
    <2>1. UNCHANGED <<calls, toNotify>>
      BY <1>4 DEF StageTail, StageRest
    <2>2. (Queued(r)' => Queued(r)) /\ PostOnce(r)'
      <3>1. CASE StageTail
        BY <1>0, <1>a, <3>1, TailJobs DEF StageTail
      <3>2. CASE StageRest
        <4>1. RefreshCaps \in JobTypes /\ RefreshCaps.op # "post"
          BY JobFacts
        <4>2. QED
          BY <1>0, <1>a, <3>2, <4>1, OtherJobs DEF StageRest
      <3>3. QED
        BY <1>4, <3>1, <3>2
    <2>3. ASSUME NEW c \in unheard', Heard(c, r) PROVE c \in unheard
      BY <1>4, <2>3 DEF StageTail, StageRest, Heard, Change
    <2>4. Due(r)' => Due(r)
      BY <2>3 DEF Due, Heard
    <2>5. QED
      BY <1>0, <1>j, <2>1, <2>2, <2>3, <2>4 DEF StaysStaged
  <1>5. QED
    BY <1>1, <1>2, <1>3, <1>4 DEF StageMove

(* What is due, and how far the shutdown is, keep their types. *)
LEMMA StepChanges ==
  ASSUME NoteTypes, ChangeTypes, [DesktopNext]_desktopVars
  PROVE  ChangeTypes'
  <1>1. StageMove
    BY StepStages
  <1>2. /\ setup' = setup
        /\ quitting' \in {Phases[k] : k \in DOMAIN Phases}
    <2>1. Phases[1] = "running" /\ Phases[2] = "asked" /\ Phases[3] = "cancelled"
          /\ Phases[4] = "tray down" /\ Phases[5] = "down" /\ DOMAIN Phases = 1 .. 5
      BY DEF Phases
    <2>2. setup' = setup /\ (quitting' = quitting \/ quitting' \in {"asked", "cancelled", "tray down", "down"})
      BY DEF DesktopNext, SubmitRequest, WorkerNotifies, TrayOpens, ListenersHear, ApproveElsewhere,
             TrayResolves, WindowResolves, AskToQuit, CancelPending, TrayGoes, NotifierGoes, JobsMoves,
             SignalsMove, BannerAction, NamesMove, SessionMoves, TrayMoves, WindowMoves, WindowLife,
             WindowUser, coreVars, desktopVars
    <2>3. {"asked", "cancelled", "tray down", "down"} \subseteq {Phases[k] : k \in DOMAIN Phases}
      <3>1. \A k \in 1 .. 5 : Phases[k] \in {Phases[j] : j \in DOMAIN Phases}
        BY <2>1
      <3>2. 2 \in 1 .. 5 /\ 3 \in 1 .. 5 /\ 4 \in 1 .. 5 /\ 5 \in 1 .. 5
        OBVIOUS
      <3>3. /\ Phases[2] \in {Phases[j] : j \in DOMAIN Phases}
            /\ Phases[3] \in {Phases[j] : j \in DOMAIN Phases}
            /\ Phases[4] \in {Phases[j] : j \in DOMAIN Phases}
            /\ Phases[5] \in {Phases[j] : j \in DOMAIN Phases}
        BY <3>1, <3>2
      <3>4. QED
        BY <2>1, <3>3
    <2>4. quitting \in {Phases[k] : k \in DOMAIN Phases}
      BY DEF ChangeTypes
    <2>5. QED
      BY <2>2, <2>3, <2>4
  <1>3. /\ calls' \in [Requests -> {"none", "parked", "auto"}]
        /\ toNotify' \subseteq Requests
    <2>1. /\ calls \in [Requests -> {"none", "parked", "auto"}] /\ toNotify \subseteq Requests
          /\ \A c \in unheard : c.kind = "submit" => c.req \in Requests
      BY DEF ChangeTypes
    <2>2. QED
      BY <1>1, <2>1 DEF StageMove, StageSubmit, StageHear, StageNotify, StageTail, StageRest
  <1>4. ASSUME NEW c \in unheard'
        PROVE  /\ c \in [kind : {"submit", "resolve", "cancel"}, req : Requests \cup {NoRequest},
                         window : BOOLEAN]
               /\ c.kind \in {"submit", "resolve"} => c.req \in Requests
    <2>1. /\ \A r \in Requests, kind \in {"submit", "resolve"} :
               /\ Change(kind, r) \in [kind : {"submit", "resolve", "cancel"},
                                       req : Requests \cup {NoRequest}, window : BOOLEAN]
               /\ Change(kind, r).req \in Requests
          /\ Change("cancel", NoRequest) \in [kind : {"submit", "resolve", "cancel"},
                                              req : Requests \cup {NoRequest}, window : BOOLEAN]
          /\ Change("cancel", NoRequest).kind = "cancel"
      BY DEF Change
    <2>2. c \in unheard \/ c = Change("cancel", NoRequest)
          \/ \E r \in Requests, kind \in {"submit", "resolve"} : c = Change(kind, r)
      BY <1>1, <1>4 DEF StageMove, StageSubmit, StageHear, StageNotify, StageTail, StageRest
    <2>3. QED
      BY <2>1, <2>2 DEF ChangeTypes
  <1>5. QED
    BY <1>2, <1>3, <1>4 DEF ChangeTypes

-----------------------------------------------------------------------------
(* A server has not given out more ids than requests have had their turn,  *)
(* and a request whose turn is to come has left no trace of a banner.      *)
IdsLeft == nextNote + Cardinality(Unposted) <= Cardinality(Requests) + 1

Traceless ==
  \A r \in Unposted :
    /\ \A n \in Notes : screen[n].req # r
    /\ byReq[r] = 0
    /\ r \notin jobsAt.reqs

OneBanner ==
  \A m, n \in Notes : screen[m].req # NoRequest /\ screen[m].req = screen[n].req => m = n

OnceInv == NoteTypes /\ ChangeTypes /\ Staged /\ IdsLeft /\ Traceless /\ OneBanner

(* How many have their turn to come. *)
LEMMA UnpostedCount ==
  /\ IsFiniteSet(Unposted) /\ Cardinality(Unposted) \in Nat
  /\ Cardinality(Unposted) <= Cardinality(Requests)
  /\ \A r \in Unposted : /\ Cardinality(Unposted \ {r}) = Cardinality(Unposted) - 1
                         /\ IsFiniteSet(Unposted \ {r})
                         /\ Cardinality(Unposted) >= 1
  <1>1. Unposted \subseteq Requests
    BY DEF Unposted
  <1>2. IsFiniteSet(Unposted) /\ Cardinality(Unposted) \in Nat
        /\ Cardinality(Unposted) <= Cardinality(Requests)
    BY <1>1, DesktopAssumption, FS_Subset, FS_CardinalityType
  <1>3. ASSUME NEW r \in Unposted
        PROVE  /\ Cardinality(Unposted \ {r}) = Cardinality(Unposted) - 1
               /\ IsFiniteSet(Unposted \ {r})
               /\ Cardinality(Unposted) >= 1
    <2>1. /\ Cardinality(Unposted \ {r}) = Cardinality(Unposted) - 1
          /\ IsFiniteSet(Unposted \ {r})
      BY <1>2, FS_RemoveElement
    <2>2. Cardinality(Unposted \ {r}) \in Nat
      BY <2>1, FS_CardinalityType
    <2>3. QED
      BY <1>2, <2>1, <2>2
  <1>4. QED
    BY <1>2, <1>3

(* So a banner finds a free id. *)
LEMMA PostHasRoom ==
  ASSUME OnceInv, PostBanner
  PROVE  /\ Head(jobs).req \in Unposted
         /\ nextNote \in Notes
  <1>1. JobsTail /\ Head(jobs).op = "post" /\ jobs # <<>>
    BY DEF PostBanner, Take, JobsTail
  <1>2. PICK r \in Requests : r = Head(jobs).req
    BY <1>1 DEF OnceInv, NoteTypes
  <1>3. Queued(r)
    BY <1>1, <1>2, TailJobs DEF OnceInv, NoteTypes
  <1>4. r \in Unposted
    BY <1>3 DEF Unposted
  <1>5. Cardinality(Unposted) >= 1 /\ Cardinality(Unposted) \in Nat /\ nextNote \in Nat \ {0}
    BY <1>4, UnpostedCount DEF OnceInv, NoteTypes
  <1>6. nextNote + Cardinality(Unposted) <= Cardinality(Requests) + 1
    BY DEF OnceInv, IdsLeft
  <1>7. nextNote \in 1 .. Cardinality(Requests)
    BY <1>5, <1>6, NoteFacts
  <1>8. QED
    BY <1>2, <1>4, <1>7, NoteFacts

(* After its turn a request is not posted again. *)
LEMMA PostIsOver ==
  ASSUME OnceInv, PostBanner, UNCHANGED <<queueVars, unheard, toNotify>>
  PROVE  Head(jobs).req \notin Unposted'
  <1>1. JobsTail /\ Head(jobs).op = "post" /\ jobs # <<>>
    BY DEF PostBanner, Take, JobsTail
  <1>2. PICK r \in Requests : r = Head(jobs).req
    BY <1>1 DEF OnceInv, NoteTypes
  <1>3. PostOnce(r) /\ jobs \in Seq(JobTypes)
    BY DEF OnceInv, Staged, PostOnce, NoteTypes
  <1>4. Queued(r) /\ ~Queued(r)'
    BY <1>1, <1>2, <1>3, TailJobs
  <1>5. calls[r] # "none" /\ ~Due(r) /\ r \notin toNotify
    BY <1>4 DEF OnceInv, Staged
  <1>6. calls'[r] # "none" /\ ~Due(r)' /\ r \notin toNotify'
    BY <1>5 DEF queueVars, Due, Heard
  <1>7. QED
    BY <1>2, <1>4, <1>6 DEF Unposted

(* Any other step: ids only start again, and traces only move or go. *)
Quiet ==
  /\ nextNote' = nextNote \/ nextNote' = 1
  /\ \A n \in Notes : screen'[n] = screen[n] \/ screen'[n] = NoBanner
  /\ \A r \in Requests : byReq'[r] # 0 => byReq[r] # 0 \/ r \in jobsAt.reqs
  /\ \A r \in jobsAt'.reqs : r \in jobsAt.reqs \/ byReq[r] # 0

(* A step posts a banner or is quiet. *)
LEMMA PostOrQuiet ==
  ASSUME NoteTypes, NoteMove
  PROVE  \/ Quiet
         \/ PostBanner /\ serving /\ UNCHANGED <<queueVars, unheard, toNotify>>
  <1>t. /\ byNote   \in [Notes -> Requests \cup {NoRequest}]
        /\ byReq    \in [Requests -> Notes \cup {0}]
        /\ screen   \in [Notes -> [req : Requests \cup {NoRequest}, keys : SUBSET ActionKeys]]
        /\ jobsAt.reqs \subseteq Requests
    BY DEF NoteTypes
  <1>0. /\ UNCHANGED <<screen, nextNote, mapVars>> /\ jobsAt'.reqs \subseteq jobsAt.reqs => Quiet
        /\ UNCHANGED <<nextNote, mapVars, jobsAt>>
           /\ (\E n \in Notes : screen' = [screen EXCEPT ![n] = NoBanner] \/ screen' = screen) => Quiet
    BY <1>t DEF Quiet, mapVars
  <1>1. CASE \/ UNCHANGED notifierVars \/ NotifierShutdown \/ OnActivationToken
             \/ \E outcome : OnActionInvoked(outcome)
             \/ UNCHANGED <<jobsAt, mapVars, buttons, tokens, noteStop, serverVars, inboxVars>>
    BY <1>0, <1>1
    DEF notifierVars, NotifierShutdown, OnActivationToken, OnActionInvoked, serverVars
  <1>2. CASE JobsThreadEnds \/ RefreshCapabilities
    BY <1>0, <1>2 DEF JobsThreadEnds, RefreshCapabilities, serverVars, Exited, At
  <1>3. CASE PostBanner /\ ~serving
    BY <1>0, <1>3 DEF PostBanner
  <1>4. CASE LinkBanner
    <2>1. PICK r \in Requests : jobsAt.reqs = {r} /\ Link(jobsAt.note, r)
      BY <1>4 DEF LinkBanner, NoteTypes
    <2>2. \A q \in Requests : byReq'[q] # 0 => byReq[q] # 0 \/ q = r
      BY <2>1 DEF Link
    <2>3. QED
      BY <1>4, <2>1, <2>2 DEF LinkBanner, serverVars, Quiet, Idle, At
  <1>5. CASE ReconcileStale
    BY <1>5 DEF ReconcileStale, BannersToClose, mapVars, serverVars, Quiet, Idle, At
  <1>6. CASE ReconcileForget
    <2>1. PICK r \in Requests :
            /\ ForgetRequest(r)
            /\ jobsAt'.reqs \subseteq jobsAt.reqs
      BY <1>6, <1>t DEF ReconcileForget, At, Idle
    <2>2. \A q \in Requests : byReq'[q] # 0 => byReq[q] # 0
      BY <1>t, <2>1 DEF ForgetRequest
    <2>3. QED
      BY <1>6, <2>1, <2>2 DEF ReconcileForget, serverVars, Quiet
  <1>7. CASE ReconcileClose
    BY <1>7, <1>t DEF ReconcileClose, mapVars, Quiet, Idle, At
  <1>8. CASE OnNotificationClosed
    BY <1>8, <1>t DEF OnNotificationClosed, ForgetNotification, serverVars, Quiet
  <1>9. CASE OnNameOwnerChanged
    BY <1>9, <1>t DEF OnNameOwnerChanged, ClearMap, serverVars, Quiet
  <1>10. ASSUME NEW limit, NEW gestures, ServerStep(limit, gestures) PROVE Quiet
    <2>1. CASE ServerLeaves \/ ServerJoins
      BY <2>1, <1>t DEF ServerLeaves, ServerJoins, mapVars, Quiet
    <2>2. ASSUME NEW n \in Notes, UserDismisses(n) \/ UserTouches(n) PROVE Quiet
      BY <1>0, <2>2 DEF UserDismisses, UserTouches, serverVars
    <2>3. ASSUME NEW n \in Notes, NEW key, UserClicks(n, key) PROVE Quiet
      BY <1>0, <2>3 DEF UserClicks
    <2>4. QED
      BY <1>10, <2>1, <2>2, <2>3 DEF ServerStep
  <1>11. QED
    BY <1>1, <1>2, <1>3, <1>4, <1>5, <1>6, <1>7, <1>8, <1>9, <1>10 DEF NoteMove, JobsStep

(* What a step does to the count and the traces. *)
LEMMA StepOnce ==
  ASSUME OnceInv, [DesktopNext]_desktopVars
  PROVE  OnceInv'
  <1>t. NoteTypes /\ ChangeTypes /\ Staged
    BY DEF OnceInv
  <1>1. NoteMove /\ StageMove
    BY <1>t, StepMovesNote, StepStages
  <1>2. ChangeTypes' /\ Staged' /\ Unposted' \subseteq Unposted
    BY <1>t, <1>1, StepChanges, StagesKept
  <1>3. NoteTypes'
    BY <1>t, <1>1, PostHasRoom, MoveTypes DEF PostFits
  <1>c. /\ IsFiniteSet(Unposted) /\ Cardinality(Unposted) \in Nat
        /\ Cardinality(Unposted) <= Cardinality(Requests)
        /\ Cardinality(Requests) \in Nat
        /\ nextNote \in Nat
        /\ nextNote + Cardinality(Unposted) <= Cardinality(Requests) + 1
    BY <1>t, UnpostedCount, NoteFacts DEF NoteTypes, OnceInv, IdsLeft
  <1>4. CASE Quiet
    <2>1. Cardinality(Unposted') <= Cardinality(Unposted) /\ Cardinality(Unposted') \in Nat
      BY <1>2, <1>c, FS_Subset, FS_CardinalityType
    <2>2. IdsLeft'
      <3>1. nextNote' = nextNote \/ nextNote' = 1
        BY <1>4 DEF Quiet
      <3>2. QED
        BY <1>c, <2>1, <3>1 DEF IdsLeft
    <2>3. Traceless'
      <3>1. SUFFICES ASSUME NEW r \in Unposted'
                     PROVE  /\ \A n \in Notes : screen'[n].req # r
                            /\ byReq'[r] = 0
                            /\ r \notin jobsAt'.reqs
        BY DEF Traceless, Notes
      <3>2. r \in Unposted /\ r \in Requests /\ r # NoRequest
        BY <1>2, <3>1, OwnId DEF Unposted
      <3>3. /\ \A n \in Notes : screen[n].req # r
            /\ byReq[r] = 0
            /\ r \notin jobsAt.reqs
        BY <3>2 DEF OnceInv, Traceless
      <3>4. QED
        BY <1>4, <3>2, <3>3 DEF Quiet, NoBanner
    <2>4. OneBanner'
      BY <1>4 DEF OnceInv, OneBanner, Quiet, NoBanner, Notes
    <2>5. QED
      BY <1>2, <1>3, <2>2, <2>3, <2>4 DEF OnceInv
  <1>5. CASE PostBanner /\ serving /\ UNCHANGED <<queueVars, unheard, toNotify>>
    <2>1. PICK r \in Unposted : r = Head(jobs).req
      BY <1>5, PostHasRoom
    <2>2. nextNote \in Notes /\ r \notin Unposted'
      BY <1>5, <2>1, PostHasRoom, PostIsOver
    <2>3. /\ screen'   = [screen EXCEPT ![nextNote] = Banner(r, ActionsFor(r))]
          /\ nextNote' = nextNote + 1
          /\ jobsAt'.reqs = {r}
          /\ byReq' = byReq
      BY <1>5, <2>1 DEF PostBanner, At, mapVars
    <2>4. IdsLeft'
      <3>1. Unposted' \subseteq Unposted \ {r}
        BY <1>2, <2>2
      <3>2. Cardinality(Unposted \ {r}) = Cardinality(Unposted) - 1 /\ IsFiniteSet(Unposted \ {r})
        BY UnpostedCount
      <3>3. Cardinality(Unposted') <= Cardinality(Unposted \ {r}) /\ Cardinality(Unposted') \in Nat
        BY <3>1, <3>2, FS_Subset, FS_CardinalityType
      <3>4. QED
        BY <1>c, <2>3, <3>2, <3>3 DEF IdsLeft
    <2>5. \A n \in Notes : screen'[n].req = IF n = nextNote THEN r ELSE screen[n].req
      BY <1>t, <2>2, <2>3 DEF NoteTypes, Banner
    <2>6. Traceless'
      <3>1. SUFFICES ASSUME NEW q \in Unposted'
                     PROVE  /\ \A n \in Notes : screen'[n].req # q
                            /\ byReq'[q] = 0
                            /\ q \notin jobsAt'.reqs
        BY DEF Traceless, Notes
      <3>2. q \in Unposted /\ q # r
        BY <1>2, <2>2, <3>1
      <3>3. QED
        BY <2>3, <2>5, <3>2 DEF OnceInv, Traceless
    <2>7. OneBanner'
      <3>1. \A n \in Notes : screen[n].req # r
        BY <2>1 DEF OnceInv, Traceless
      <3>2. QED
        BY <2>5, <3>1 DEF OnceInv, OneBanner, Notes
    <2>8. QED
      BY <1>2, <1>3, <2>4, <2>6, <2>7 DEF OnceInv
  <1>6. QED
    BY <1>t, <1>1, <1>4, <1>5, PostOrQuiet

(* At first every request's turn is to come. *)
LEMMA InitOnce == DesktopInit => OnceInv
  <1> SUFFICES ASSUME DesktopInit PROVE OnceInv
    OBVIOUS
  <1>1. NoteTypes
    <2>1. jobs = <<RefreshCaps>> /\ jobs \in Seq(JobTypes) /\ Len(jobs) = 1 /\ jobs[1] = RefreshCaps
      BY JobFacts DEF DesktopInit, NotifierInit
    <2>2. Cardinality({}) = 0 /\ MaxTokens \in Nat
      BY FS_EmptySet, NotifierAssumption
    <2>3. \A k \in 1 .. Len(jobs) : jobs[k].op # "post"
      BY <2>1, JobFacts
    <2>4. QED
      BY <2>1, <2>2, <2>3
      DEF DesktopInit, NotifierInit, NoteTypes, Idle, At, NoBanner
  <1>2. ChangeTypes /\ unheard = {} /\ toNotify = {}
    <2>1. Phases[1] = "running" /\ 1 \in DOMAIN Phases
      BY DEF Phases
    <2>2. QED
      BY <2>1 DEF DesktopInit, QueueInit, ChangeTypes
  <1>3. \A r \in Requests : ~Due(r) /\ ~Queued(r) /\ calls[r] = "none"
    <2>0. Len(jobs) = 1 /\ jobs[1].op = "caps"
      BY JobFacts DEF DesktopInit, NotifierInit
    <2>1. \A k \in 1 .. Len(jobs) : jobs[k].op # "post"
      BY <2>0
    <2>2. QED
      BY <1>2, <2>1 DEF Due, Queued, QueuedAt, DesktopInit, QueueInit
  <1>4. Staged
    BY <1>2, <1>3 DEF Staged, Queued
  <1>5. IdsLeft
    <2>1. nextNote = 1 /\ Cardinality(Unposted) <= Cardinality(Requests) /\ Cardinality(Unposted) \in Nat
      BY UnpostedCount DEF DesktopInit, NotifierInit
    <2>2. QED
      BY <2>1, NoteFacts DEF IdsLeft
  <1>6. Traceless /\ OneBanner
    BY OwnId DEF DesktopInit, NotifierInit, NoBanner, Idle, At, Traceless, OneBanner, Unposted
  <1>7. QED
    BY <1>1, <1>2, <1>4, <1>5, <1>6 DEF OnceInv

-----------------------------------------------------------------------------
(* Among the surfaces the queue does what it does alone. *)
LEMMA StepQueue ==
  ASSUME NoteTypes, ChangeTypes, [DesktopNext]_desktopVars
  PROVE  [QueueNext]_queueVars
  <1>1. ASSUME NEW r \in Requests, SubmitRequest(r) PROVE QueueNext
    BY <1>1 DEF SubmitRequest, QueueNext
  <1>2. ASSUME NEW c \in unheard, ListenersHear(c) PROVE [QueueNext]_queueVars
    BY <1>2 DEF ListenersHear, ChangeTypes, QueueNext
  <1>3. ASSUME NEW r \in Requests, NEW v \in Verdicts,
               ApproveElsewhere(r, v) \/ TrayResolves(r, v) \/ WindowResolves(r, v)
        PROVE  [QueueNext]_queueVars
    BY <1>3, ResolvesOrNot DEF ApproveElsewhere, TrayResolves, WindowResolves
  <1>4. CASE BannerAction
    <2>1. signals \in Seq(Signals) /\ byNote \in [Notes -> Requests \cup {NoRequest}]
      BY DEF NoteTypes
    <2>2. signals # <<>> => Head(signals) \in Signals
      BY <2>1
    <2>3. signals # <<>> => Head(signals).note \in Notes
      BY <2>2 DEF Signals
    <2>4. QED
      BY <1>4, <2>1, <2>3, BannerResolves, ResolvesOrNot
  <1>5. CASE CancelPending
    BY <1>5 DEF CancelPending, QueueNext
  <1>6. CASE UNCHANGED queueVars
    BY <1>6
  <1>7. CASE \/ \E r \in Requests : WorkerNotifies(r) \/ TrayOpens(r)
             \/ TrayOpens(NoRequest)
             \/ AskToQuit \/ TrayGoes \/ NotifierGoes \/ JobsMoves \/ (SignalsMove /\ ~BannerAction)
             \/ NamesMove \/ SessionMoves \/ TrayMoves \/ WindowMoves \/ WindowLife \/ WindowUser
             \/ UNCHANGED desktopVars
    BY <1>6, <1>7
    DEF WorkerNotifies, TrayOpens, AskToQuit, TrayGoes, NotifierGoes, JobsMoves, SignalsMove,
        NamesMove, SessionMoves, TrayMoves, WindowMoves, WindowLife, WindowUser, desktopVars
  <1>8. QED
    BY <1>1, <1>2, <1>3, <1>4, <1>5, <1>7 DEF DesktopNext

(* Every state of the session keeps the count, and every step of it is a   *)
(* step of the queue or leaves the queue alone.                            *)
THEOREM DesktopOnce == DesktopSpec => []OnceInv
  <1>1. QED
    BY InitOnce, StepOnce, PTL DEF DesktopSpec

(* Whatever surfaces a session has and however their threads interleave,   *)
(* they use the queue as its own specification allows: what is proved of   *)
(* the queue, whose worker is answered once, whose history tells the truth *)
(* and whose first verdict wins, is proved of the session.                 *)
THEOREM DesktopKeepsQueue == DesktopSpec => QueueSpec
  <1>1. DesktopInit => QueueInit
    BY DEF DesktopInit
  <1>2. OnceInv /\ [DesktopNext]_desktopVars => [QueueNext]_queueVars
    BY StepQueue DEF OnceInv
  <1>3. QED
    BY <1>1, <1>2, DesktopOnce, PTL DEF DesktopSpec, QueueSpec

-----------------------------------------------------------------------------
(* The map of banners, and what is on screen under the ids in it.          *)

(* An id that leads to a request leads to that request's banner, unless    *)
(* the server has just given it out again.                                 *)
MapShows ==
  \A n \in Notes :
    byNote[n] # NoRequest =>
      screen[n].req \in {byNote[n], NoRequest} \/ (jobsAt.op = "link" /\ jobsAt.note = n)

LinkShows ==
  jobsAt.op = "link" => \A r \in jobsAt.reqs : screen[jobsAt.note].req \in {r, NoRequest}

(* What is being taken down is decided. *)
CloseSafe ==
  /\ jobsAt.op \in {"forget", "close"} => \A r \in jobsAt.reqs : r \notin Pending
  /\ jobsAt.op = "close" => screen[jobsAt.note].req \notin Pending

MapInv == OnceInv /\ QueueInv /\ MapIsPairing /\ MapShows /\ LinkShows /\ CloseSafe

(* A request only comes to be pending when its turn is still to come. *)
LEMMA PendingGrows ==
  ASSUME OnceInv, QueueInv, [QueueNext]_queueVars, NEW r \in Requests, r \in Pending', r \notin Pending
  PROVE  r \in Unposted
  <1>1. entries'[r] = r /\ entries[r] # r
    <2>1. IdOf[r] = r
      BY OwnId
    <2>2. QED
      BY <2>1 DEF Pending
  <1>2. entries \in [Ids -> Requests \cup {NoRequest}] /\ r \in Ids /\ r # NoRequest
    BY OwnId DEF QueueInv, QueueTypeOK
  <1>3. ASSUME NEW q \in Requests, Submit(q) PROVE r \in Unposted
    <2>1. entries' = [entries EXCEPT ![q] = q] /\ calls[q] = "none"
      BY <1>3, OwnId DEF Submit
    <2>2. q = r
      BY <1>1, <1>2, <2>1
    <2>3. QED
      BY <2>1, <2>2 DEF Unposted
  <1>4. ASSUME NEW i \in Ids, NEW v \in Verdicts, Resolve(i, v) PROVE FALSE
    BY <1>1, <1>2, <1>4 DEF Resolve
  <1>5. CASE CancelAll
    BY <1>1, <1>2, <1>5 DEF CancelAll
  <1>6. QED
    BY <1>1, <1>3, <1>4, <1>5 DEF QueueNext, queueVars, Deliver, RecordAuto, Warm

(* Each way the map changes keeps its halves inverse. *)
LEMMA PairingKept ==
  ASSUME NoteTypes, MapIsPairing, NoteMove
  PROVE  MapIsPairing'
  <1>t. /\ byNote   \in [Notes -> Requests \cup {NoRequest}]
        /\ byReq    \in [Requests -> Notes \cup {0}]
        /\ NoRequest \notin Requests /\ 0 \notin Notes
    BY NoteFacts, OwnId DEF NoteTypes
  <1>1. CASE UNCHANGED mapVars
    BY <1>1 DEF mapVars, MapIsPairing, Notes
  <1>2. CASE LinkBanner
    <2>1. PICK r \in Requests : jobsAt.reqs = {r} /\ jobsAt.note \in Notes
      BY <1>2 DEF LinkBanner, NoteTypes
    <2>2. PICK n \in Notes : n = jobsAt.note
      BY <2>1
    <2>3. Link(n, r)
      BY <1>2, <2>1, <2>2 DEF LinkBanner
    <2>4. SUFFICES ASSUME NEW m \in Notes, NEW q \in Requests PROVE byNote'[m] = q <=> byReq'[q] = m
      BY DEF MapIsPairing, Notes
    <2>5. byReq'[q] = IF q = r THEN n ELSE IF q = byNote[n] THEN 0 ELSE byReq[q]
      BY <2>3 DEF Link
    <2>6. byNote'[m] = IF m = n THEN r
                       ELSE IF m = byReq[r] /\ byNote[n] # r THEN NoRequest ELSE byNote[m]
      BY <2>3 DEF Link
    <2>7. /\ byNote[m] = q <=> byReq[q] = m
          /\ byNote[n] = r <=> byReq[r] = n
          /\ byNote[m] = r <=> byReq[r] = m
          /\ byNote[n] = q <=> byReq[q] = n
      BY DEF MapIsPairing
    <2>8. QED
      BY <1>t, <2>5, <2>6, <2>7
  <1>3. CASE ReconcileForget
    <2>1. PICK r \in Requests : ForgetRequest(r)
      BY <1>3 DEF ReconcileForget, NoteTypes
    <2>2. QED
      BY <1>t, <2>1 DEF ForgetRequest, MapIsPairing, Notes
  <1>4. CASE OnNotificationClosed
    <2>1. signals \in Seq(Signals) /\ signals # <<>>
      BY <1>4 DEF OnNotificationClosed, Hear, NoteTypes
    <2>2. Head(signals) \in Signals
      BY <2>1
    <2>3. PICK n \in Notes : n = Head(signals).note
      BY <2>2 DEF Signals
    <2>4. ForgetNotification(n)
      BY <1>4, <2>3 DEF OnNotificationClosed
    <2>5. SUFFICES ASSUME NEW m \in Notes, NEW q \in Requests PROVE byNote'[m] = q <=> byReq'[q] = m
      BY DEF MapIsPairing, Notes
    <2>6. /\ byNote[m] = q <=> byReq[q] = m
          /\ byNote[n] = q <=> byReq[q] = n
      BY DEF MapIsPairing
    <2>7. /\ byNote'[m] = IF m = n THEN NoRequest ELSE byNote[m]
          /\ byReq'[q] = IF q = byNote[n] THEN 0 ELSE byReq[q]
      BY <1>t, <2>4 DEF ForgetNotification
    <2>8. QED
      BY <1>t, <2>6, <2>7
  <1>5. CASE OnNameOwnerChanged
    BY <1>5, <1>t DEF OnNameOwnerChanged, ClearMap, MapIsPairing, Notes
  <1>6. CASE JobsStep /\ ~LinkBanner /\ ~ReconcileForget
    BY <1>1, <1>6
    DEF JobsStep, JobsThreadEnds, RefreshCapabilities, PostBanner, ReconcileStale, ReconcileClose
  <1>7. ASSUME NEW limit, NEW gestures, ServerStep(limit, gestures) PROVE UNCHANGED mapVars
    BY <1>7 DEF ServerStep, ServerLeaves, ServerJoins, UserDismisses, UserTouches, UserClicks
  <1>8. ASSUME NEW outcome, OnActionInvoked(outcome) PROVE UNCHANGED mapVars
    BY <1>8 DEF OnActionInvoked
  <1>9. CASE \/ UNCHANGED notifierVars \/ NotifierShutdown \/ OnActivationToken
             \/ UNCHANGED <<jobsAt, mapVars, buttons, tokens, noteStop, serverVars, inboxVars>>
    BY <1>1, <1>9 DEF notifierVars, NotifierShutdown, OnActivationToken
  <1>10. QED
    BY <1>1, <1>2, <1>3, <1>4, <1>5, <1>6, <1>7, <1>8, <1>9 DEF NoteMove

(* The other threads, the server and its user leave the jobs thread where  *)
(* it is, and only take banners and entries away.                          *)
LEMMA OthersOnlyTake ==
  ASSUME NoteTypes, NoteMove, ~(JobsStep /\ UNCHANGED <<queueVars, unheard, toNotify>>)
  PROVE  /\ jobsAt' = jobsAt
         /\ \A n \in Notes : byNote'[n] \in {byNote[n], NoRequest}
         /\ \A n \in Notes : screen'[n] = screen[n] \/ screen'[n] = NoBanner
  <1>t. /\ byNote   \in [Notes -> Requests \cup {NoRequest}]
        /\ screen   \in [Notes -> [req : Requests \cup {NoRequest}, keys : SUBSET ActionKeys]]
    BY DEF NoteTypes
  <1>1. CASE \/ UNCHANGED notifierVars \/ NotifierShutdown \/ OnActivationToken
             \/ \E outcome : OnActionInvoked(outcome)
             \/ UNCHANGED <<jobsAt, mapVars, buttons, tokens, noteStop, serverVars, inboxVars>>
    BY <1>1 DEF notifierVars, NotifierShutdown, OnActivationToken, OnActionInvoked, mapVars, serverVars
  <1>2. CASE OnNotificationClosed
    BY <1>2, <1>t DEF OnNotificationClosed, ForgetNotification, serverVars
  <1>3. CASE OnNameOwnerChanged
    BY <1>3, <1>t DEF OnNameOwnerChanged, ClearMap, serverVars
  <1>4. ASSUME NEW limit, NEW gestures, ServerStep(limit, gestures)
        PROVE  /\ jobsAt' = jobsAt
               /\ \A n \in Notes : byNote'[n] \in {byNote[n], NoRequest}
               /\ \A n \in Notes : screen'[n] = screen[n] \/ screen'[n] = NoBanner
    <2>1. jobsAt' = jobsAt /\ byNote' = byNote
      BY <1>4 DEF ServerStep, ServerLeaves, ServerJoins, UserDismisses, UserTouches, UserClicks, mapVars
    <2>2. CASE ServerLeaves \/ ServerJoins
      BY <2>1, <2>2, <1>t DEF ServerLeaves, ServerJoins
    <2>3. ASSUME NEW n \in Notes,
                 UserDismisses(n) \/ UserTouches(n) \/ (\E key : UserClicks(n, key))
          PROVE  \A m \in Notes : screen'[m] = screen[m] \/ screen'[m] = NoBanner
      BY <2>3, <1>t DEF UserDismisses, UserTouches, UserClicks, serverVars
    <2>4. QED
      BY <1>4, <2>1, <2>2, <2>3 DEF ServerStep
  <1>5. QED
    BY <1>1, <1>2, <1>3, <1>4 DEF NoteMove

(* What the map shows, under every step of the jobs thread. *)
LEMMA JobsShow ==
  ASSUME MapInv, JobsStep, UNCHANGED <<queueVars, unheard, toNotify>>
  PROVE  MapShows' /\ LinkShows' /\ CloseSafe'
  <1>t. /\ byNote   \in [Notes -> Requests \cup {NoRequest}]
        /\ byReq    \in [Requests -> Notes \cup {0}]
        /\ screen   \in [Notes -> [req : Requests \cup {NoRequest}, keys : SUBSET ActionKeys]]
        /\ NoRequest \notin Requests
        /\ NoRequest \notin Pending
    BY OwnId DEF MapInv, OnceInv, NoteTypes, Pending
  <1>p. Pending' = Pending
    BY DEF Pending, queueVars
  <1>n. Notes' = Notes
    BY DEF Notes
  <1>0. MapShows /\ LinkShows /\ CloseSafe /\ MapIsPairing
    BY DEF MapInv
  <1>1. CASE JobsThreadEnds
    <2>1. jobsAt' = Exited /\ jobsAt = Idle /\ UNCHANGED <<byNote, screen>>
      BY <1>1 DEF JobsThreadEnds, mapVars, serverVars
    <2>2. QED
      BY <1>0, <2>1 DEF MapShows, LinkShows, CloseSafe, Exited, Idle, At, Notes
  <1>2. CASE RefreshCapabilities
    <2>1. UNCHANGED <<jobsAt, byNote, screen>>
      BY <1>2 DEF RefreshCapabilities, mapVars, serverVars
    <2>2. QED
      BY <1>0, <1>p, <2>1 DEF MapShows, LinkShows, CloseSafe, Notes
  <1>3. CASE PostBanner
    <2>1. jobsAt = Idle /\ byNote' = byNote
      BY <1>3 DEF PostBanner, Take, mapVars
    <2>2. CASE ~serving
      <3>1. UNCHANGED <<jobsAt, screen>>
        BY <1>3, <2>2 DEF PostBanner
      <3>2. QED
        BY <1>0, <1>p, <2>1, <3>1 DEF MapShows, LinkShows, CloseSafe, Notes
    <2>3. CASE serving
      <3>1. PICK r \in Requests : r = Head(jobs).req
        BY <1>3, PostHasRoom DEF MapInv, Unposted
      <3>2. /\ nextNote \in Notes
            /\ screen' = [screen EXCEPT ![nextNote] = Banner(r, ActionsFor(r))]
            /\ jobsAt' = At("link", {r}, nextNote)
        BY <1>3, <2>3, <3>1, PostHasRoom DEF PostBanner, MapInv
      <3>3. /\ \A n \in Notes : n # nextNote => screen'[n] = screen[n]
            /\ screen'[nextNote].req = r
        BY <1>t, <3>2 DEF Banner
      <3>4. jobsAt.op # "link"
        BY <2>1 DEF Idle, At
      <3>5. MapShows'
        BY <1>0, <2>1, <3>2, <3>3, <3>4 DEF MapShows, At, Notes
      <3>6. LinkShows' /\ CloseSafe'
        BY <3>2, <3>3 DEF LinkShows, CloseSafe, At
      <3>7. QED
        BY <3>5, <3>6
    <2>4. QED
      BY <2>2, <2>3
  <1>4. CASE LinkBanner
    <2>1. PICK r \in Requests : jobsAt.reqs = {r} /\ jobsAt.note \in Notes
      BY <1>4 DEF LinkBanner, MapInv, OnceInv, NoteTypes
    <2>2. PICK n \in Notes : n = jobsAt.note
      BY <2>1
    <2>3. Link(n, r) /\ jobsAt' = Idle /\ screen' = screen /\ jobsAt.op = "link"
      BY <1>4, <2>1, <2>2 DEF LinkBanner, serverVars
    <2>4. screen[n].req \in {r, NoRequest}
      BY <1>0, <2>1, <2>2, <2>3 DEF LinkShows
    <2>5. \A m \in Notes : byNote'[m] = IF m = n THEN r
                                        ELSE IF m = byReq[r] /\ byNote[n] # r THEN NoRequest ELSE byNote[m]
      BY <2>3 DEF Link
    <2>6. MapShows'
      BY <1>0, <2>2, <2>3, <2>4, <2>5 DEF MapShows, Notes
    <2>7. QED
      BY <2>3, <2>6 DEF LinkShows, CloseSafe, Idle, At
  <1>5. CASE ReconcileStale
    <2>1. UNCHANGED <<byNote, screen>> /\ jobsAt = Idle
      BY <1>5 DEF ReconcileStale, Take, mapVars, serverVars
    <2>2. \/ jobsAt' = Idle
          \/ /\ jobsAt'.op = "forget"
             /\ \A r \in jobsAt'.reqs : r \notin Pending
      BY <1>5 DEF ReconcileStale, BannersToClose, At
    <2>3. QED
      BY <1>0, <1>p, <2>1, <2>2 DEF MapShows, LinkShows, CloseSafe, Idle, At, Notes
  <1>6. CASE ReconcileForget
    <2>1. PICK r \in jobsAt.reqs :
            /\ ForgetRequest(r)
            /\ jobsAt' = IF byReq[r] # 0 THEN At("close", jobsAt.reqs \ {r}, byReq[r])
                         ELSE IF jobsAt.reqs \ {r} = {} THEN Idle ELSE At("forget", jobsAt.reqs \ {r}, 0)
      BY <1>6 DEF ReconcileForget
    <2>2. screen' = screen /\ jobsAt.op = "forget" /\ r \in Requests
      BY <1>6, <2>1 DEF ReconcileForget, serverVars, MapInv, OnceInv, NoteTypes
    <2>3. \A n \in Notes : byNote'[n] \in {byNote[n], NoRequest}
      BY <1>t, <2>1 DEF ForgetRequest
    <2>4. MapShows'
      BY <1>0, <2>2, <2>3 DEF MapShows, Notes
    <2>5. r \notin Pending /\ \A q \in jobsAt.reqs : q \notin Pending
      BY <1>0, <2>1, <2>2 DEF CloseSafe
    <2>6. byReq[r] # 0 => screen[byReq[r]].req \notin Pending
      <3>1. SUFFICES ASSUME byReq[r] # 0 PROVE screen[byReq[r]].req \notin Pending
        OBVIOUS
      <3>2. PICK n \in Notes : n = byReq[r]
        BY <1>t, <2>2, <3>1
      <3>3. byNote[n] = r
        BY <1>0, <2>2, <3>2 DEF MapIsPairing
      <3>4. screen[n].req \in {r, NoRequest}
        BY <1>0, <1>t, <2>2, <3>3 DEF MapShows
      <3>5. QED
        BY <1>t, <2>5, <3>2, <3>4
    <2>7. QED
      BY <1>p, <2>1, <2>2, <2>4, <2>5, <2>6 DEF LinkShows, CloseSafe, At, Idle
  <1>7. CASE ReconcileClose
    <2>1. /\ byNote' = byNote /\ jobsAt.op = "close"
          /\ \A n \in Notes : screen'[n] = screen[n] \/ screen'[n] = NoBanner
          /\ jobsAt' = Idle \/ jobsAt' = At("forget", jobsAt.reqs, 0)
      BY <1>7, <1>t DEF ReconcileClose, mapVars
    <2>2. MapShows'
      BY <1>0, <2>1 DEF MapShows, Notes, NoBanner
    <2>3. QED
      BY <1>0, <1>p, <2>1, <2>2 DEF LinkShows, CloseSafe, At, Idle
  <1>8. QED
    BY <1>1, <1>2, <1>3, <1>4, <1>5, <1>6, <1>7 DEF JobsStep

(* Every step keeps the map and what it shows. *)
LEMMA StepMap ==
  ASSUME MapInv, [DesktopNext]_desktopVars
  PROVE  MapInv'
  <1>t. OnceInv /\ QueueInv /\ NoteTypes /\ ChangeTypes /\ MapIsPairing
    BY DEF MapInv, OnceInv
  <1>1. NoteMove /\ [QueueNext]_queueVars
    BY <1>t, StepMovesNote, StepQueue
  <1>2. OnceInv' /\ QueueInv' /\ MapIsPairing'
    BY <1>t, <1>1, StepOnce, StepInv, PairingKept
  <1>3. CASE JobsStep /\ UNCHANGED <<queueVars, unheard, toNotify>>
    BY <1>2, <1>3, JobsShow DEF MapInv
  <1>4. CASE ~(JobsStep /\ UNCHANGED <<queueVars, unheard, toNotify>>)
    <2>1. /\ jobsAt' = jobsAt
          /\ \A n \in Notes : byNote'[n] \in {byNote[n], NoRequest}
          /\ \A n \in Notes : screen'[n] = screen[n] \/ screen'[n] = NoBanner
      BY <1>t, <1>1, <1>4, OthersOnlyTake
    <2>2. MapShows'
      BY <2>1 DEF MapInv, MapShows, Notes, NoBanner
    <2>3. LinkShows'
      <3>1. jobsAt.op = "link" => jobsAt.note \in Notes
        BY <1>t DEF NoteTypes
      <3>2. QED
        BY <2>1, <3>1 DEF MapInv, LinkShows, NoBanner
    <2>4. CloseSafe'
      <3>1. ASSUME NEW r \in Requests, r \in Pending', r \notin Pending
            PROVE  r \notin jobsAt.reqs /\ \A n \in Notes : screen[n].req # r
        BY <1>t, <1>1, <3>1, PendingGrows DEF OnceInv, Traceless
      <3>2. Pending' \subseteq Requests /\ NoRequest \notin Requests
        BY OwnId DEF Pending
      <3>3. CloseSafe /\ jobsAt.reqs \subseteq Requests /\ (jobsAt.op = "close" => jobsAt.note \in Notes)
        BY <1>t DEF MapInv, NoteTypes
      <3>4. ASSUME NEW r \in Requests, r \in Pending', jobsAt.op \in {"forget", "close"}
            PROVE  r \notin jobsAt.reqs
        BY <3>1, <3>3, <3>4 DEF CloseSafe
      <3>5. ASSUME NEW r \in Requests, r \in Pending', jobsAt.op = "close"
            PROVE  screen'[jobsAt.note].req # r
        <4>1. screen[jobsAt.note].req # r
          BY <3>1, <3>3, <3>5 DEF CloseSafe
        <4>2. screen'[jobsAt.note].req \in {screen[jobsAt.note].req, NoRequest}
          BY <2>1, <3>3, <3>5 DEF NoBanner
        <4>3. QED
          BY <3>2, <4>1, <4>2
      <3>6. QED
        BY <2>1, <3>2, <3>3, <3>4, <3>5 DEF CloseSafe
    <2>5. QED
      BY <1>2, <2>2, <2>3, <2>4 DEF MapInv
  <1>5. QED
    BY <1>3, <1>4

(* At first there is nothing to show. *)
LEMMA InitMap == DesktopInit => MapInv
  <1> SUFFICES ASSUME DesktopInit PROVE MapInv
    OBVIOUS
  <1>1. OnceInv /\ QueueInv
    BY InitOnce, InitInv DEF DesktopInit
  <1>2. jobsAt.op = "idle" /\ \A n \in Notes : byNote[n] = NoRequest
    BY DEF DesktopInit, NotifierInit, Idle, At
  <1>3. MapIsPairing
    <2>1. SUFFICES ASSUME NEW n \in Notes, NEW r \in Requests PROVE byNote[n] # r /\ byReq[r] # n
      BY DEF MapIsPairing
    <2>2. n # 0 /\ r # NoRequest
      BY NoteFacts, OwnId
    <2>3. QED
      BY <2>2 DEF DesktopInit, NotifierInit
  <1>4. QED
    BY <1>1, <1>2, <1>3 DEF MapInv, MapShows, LinkShows, CloseSafe

(* The map and the screen agree in every state of a session. *)
THEOREM MapInvariant == DesktopSpec => []MapInv
  <1>1. QED
    BY InitMap, StepMap, PTL DEF DesktopSpec

(* Whatever the jobs, signal and name threads do between two locks of the  *)
(* map, and whichever ids servers give out again, the map's two halves are *)
(* inverse: no request leads to a banner that leads to another.            *)
THEOREM MapPairs == DesktopSpec => []MapIsPairing
  <1>1. MapInv => MapIsPairing
    BY DEF MapInv
  <1>2. QED
    BY <1>1, MapInvariant, PTL

(* CloseNotification never takes down the banner of a request that still   *)
(* waits, though the id may have been given out again since it was read.   *)
THEOREM OnlyResolvedClose == DesktopSpec => CloseOnlyResolved
  <1>1. MapInv => (jobsAt.op = "close" => screen[jobsAt.note].req \notin Pending)
    BY DEF MapInv, CloseSafe
  <1>2. QED
    BY <1>1, MapInvariant, PTL DEF CloseOnlyResolved

-----------------------------------------------------------------------------
(* One server: all that mentions an id means the request of one banner.    *)

(* What mentions an id: its entry, its banner, an answer on its way to the *)
(* map, and the clicks the signal thread has not handled.                  *)
LinkOf(n, r) == jobsAt.op = "link" /\ jobsAt.note = n /\ r \in jobsAt.reqs
Click(k, n) == signals[k].kind = "action" /\ signals[k].note = n

Means(n, q) ==
  /\ byNote[n] \in {q, NoRequest}
  /\ screen[n].req \in {q, NoRequest}
  /\ \A r \in Requests : LinkOf(n, r) => r = q
  /\ \A k \in 1 .. Len(signals) : Click(k, n) => signals[k].shown = q

(* Ids that are still to be given out mean nothing. *)
Unused(n) ==
  /\ byNote[n] = NoRequest
  /\ screen[n].req = NoRequest
  /\ \A r \in Requests : ~LinkOf(n, r)
  /\ \A k \in 1 .. Len(signals) : ~Click(k, n)

OneMeaning == \A n \in Notes : \E q \in Requests : Means(n, q)
LaterUnused == \A n \in Notes : n >= nextNote => Unused(n)

OneServer ==
  /\ moves <= 1 => OneMeaning /\ LaterUnused
  /\ moves = 0 /\ ~serving => nextNote = 1

(* Steps that mention nothing new. *)
NothingNew ==
  \A n \in Notes :
    /\ \/ byNote'[n] \in {byNote[n], NoRequest}
       \/ LinkOf(n, byNote'[n])
    /\ screen'[n].req \in {screen[n].req, NoRequest}
    /\ \A r \in Requests : LinkOf(n, r)' => LinkOf(n, r)
    /\ \A k \in 1 .. Len(signals') :
         Click(k, n)' =>
           \/ \E j \in 1 .. Len(signals) : Click(j, n) /\ signals'[k].shown = signals[j].shown
           \/ screen[n].req # NoRequest /\ signals'[k].shown = screen[n].req

(* They keep what an id means. *)
LEMMA NothingNewKeeps ==
  ASSUME NoteTypes, NothingNew, NEW n \in Notes
  PROVE  /\ \A q \in Requests : Means(n, q) => Means(n, q)'
         /\ Unused(n) => Unused(n)'
  <1>t. byNote'[n] \in Requests \/ byNote'[n] \notin Requests
    OBVIOUS
  <1>1. ASSUME NEW q \in Requests, Means(n, q) PROVE Means(n, q)'
    <2>1. /\ byNote[n] \in {q, NoRequest}
          /\ screen[n].req \in {q, NoRequest}
          /\ \A r \in Requests : LinkOf(n, r) => r = q
          /\ \A k \in 1 .. Len(signals) : Click(k, n) => signals[k].shown = q
      BY <1>1 DEF Means
    <2>2. byNote'[n] \in {q, NoRequest}
      <3>1. ASSUME LinkOf(n, byNote'[n]) PROVE byNote'[n] = q
        BY <2>1, <3>1 DEF LinkOf, NoteTypes
      <3>2. QED
        BY <2>1, <3>1 DEF NothingNew
    <2>3. /\ screen'[n].req \in {q, NoRequest}
          /\ \A r \in Requests : LinkOf(n, r)' => r = q
          /\ \A k \in 1 .. Len(signals') : Click(k, n)' => signals'[k].shown = q
      BY <2>1 DEF NothingNew
    <2>4. QED
      BY <2>2, <2>3 DEF Means
  <1>2. ASSUME Unused(n) PROVE Unused(n)'
    <2>1. /\ byNote[n] = NoRequest
          /\ screen[n].req = NoRequest
          /\ \A r \in Requests : ~LinkOf(n, r)
          /\ \A k \in 1 .. Len(signals) : ~Click(k, n)
      BY <1>2 DEF Unused
    <2>2. byNote'[n] = NoRequest
      <3>1. ASSUME LinkOf(n, byNote'[n]) PROVE FALSE
        BY <2>1, <3>1 DEF LinkOf, NoteTypes
      <3>2. QED
        BY <2>1, <3>1 DEF NothingNew
    <2>3. /\ screen'[n].req = NoRequest
          /\ \A r \in Requests : ~LinkOf(n, r)'
          /\ \A k \in 1 .. Len(signals') : ~Click(k, n)'
      BY <2>1 DEF NothingNew
    <2>4. QED
      BY <2>2, <2>3 DEF Unused
  <1>3. QED
    BY <1>1, <1>2

(* Where a waiting click comes from. *)
ClicksKnown ==
  \A n \in Notes : \A k \in 1 .. Len(signals') :
    Click(k, n)' =>
      \/ \E j \in 1 .. Len(signals) : Click(j, n) /\ signals'[k].shown = signals[j].shown
      \/ screen[n].req # NoRequest /\ signals'[k].shown = screen[n].req

(* Signals are handled in order, and what is no click mentions nothing. *)
LEMMA OtherSignals ==
  ASSUME signals \in Seq(Signals),
         \/ signals' = signals
         \/ signals # <<>> /\ signals' = Tail(signals)
         \/ \E kind \in {"closed", "token"}, n \in Notes :
              signals' = Append(signals, Signal(kind, n, "none", NoRequest))
  PROVE  ClicksKnown
  <1>1. SUFFICES ASSUME NEW m \in Notes, NEW k \in 1 .. Len(signals'), Click(k, m)'
                 PROVE  \E j \in 1 .. Len(signals) :
                          Click(j, m) /\ signals'[k].shown = signals[j].shown
    BY DEF ClicksKnown
  <1>2. CASE signals' = signals
    BY <1>1, <1>2 DEF Click
  <1>3. CASE signals # <<>> /\ signals' = Tail(signals)
    <2>1. k + 1 \in 1 .. Len(signals) /\ signals'[k] = signals[k + 1]
      BY <1>3
    <2>2. Click(k + 1, m) /\ signals'[k].shown = signals[k + 1].shown
      BY <1>1, <2>1 DEF Click
    <2>3. QED
      BY <2>1, <2>2
  <1>4. ASSUME NEW kind \in {"closed", "token"}, NEW n \in Notes,
               signals' = Append(signals, Signal(kind, n, "none", NoRequest))
        PROVE  \E j \in 1 .. Len(signals) : Click(j, m) /\ signals'[k].shown = signals[j].shown
    <2>1. Signal(kind, n, "none", NoRequest) \in Signals
          /\ Signal(kind, n, "none", NoRequest).kind # "action"
      BY DEF Signal, Signals
    <2>2. k \in 1 .. Len(signals) /\ signals'[k] = signals[k]
      BY <1>1, <1>4, <2>1 DEF Click
    <2>3. QED
      BY <1>1, <2>2 DEF Click
  <1>5. QED
    BY <1>2, <1>3, <1>4

(* A click mentions what its banner shows. *)
LEMMA NewClick ==
  ASSUME NoteTypes, NEW n \in Notes, NEW key \in ActionKeys, UserClicks(n, key)
  PROVE  ClicksKnown
  <1>1. /\ signals \in Seq(Signals)
        /\ screen[n].req \in Requests \cup {NoRequest}
        /\ screen[n].req # NoRequest
    BY DEF NoteTypes, UserClicks, NoBanner
  <1>2. /\ Signal("action", n, key, screen[n].req) \in Signals
        /\ Signal("action", n, key, screen[n].req).shown = screen[n].req
        /\ Signal("action", n, key, screen[n].req).note = n
        /\ Signal("closed", n, "none", NoRequest) \in Signals
        /\ Signal("closed", n, "none", NoRequest).kind # "action"
    BY <1>1 DEF Signal, Signals
  <1>a. Append(signals, Signal("action", n, key, screen[n].req)) \in Seq(Signals)
    BY <1>1, <1>2
  <1>3. PICK said \in Seq(Signals) : said = Append(signals, Signal("action", n, key, screen[n].req))
    BY <1>a
  <1>4. signals' = said \/ signals' = Append(said, Signal("closed", n, "none", NoRequest))
    BY <1>3 DEF UserClicks
  <1>5. SUFFICES ASSUME NEW m \in Notes, NEW k \in 1 .. Len(signals'), Click(k, m)'
                 PROVE  \/ \E j \in 1 .. Len(signals) :
                             Click(j, m) /\ signals'[k].shown = signals[j].shown
                        \/ screen[m].req # NoRequest /\ signals'[k].shown = screen[m].req
    BY DEF ClicksKnown
  <1>6. k \in 1 .. Len(said) /\ signals'[k] = said[k]
    BY <1>2, <1>4, <1>5 DEF Click
  <1>7. CASE k \in 1 .. Len(signals)
    <2>1. said[k] = signals[k]
      BY <1>1, <1>2, <1>3, <1>7
    <2>2. QED
      BY <1>5, <1>6, <1>7, <2>1 DEF Click
  <1>8. CASE k \notin 1 .. Len(signals)
    <2>1. said[k] = Signal("action", n, key, screen[n].req)
      BY <1>1, <1>2, <1>3, <1>6, <1>8
    <2>2. m = n
      BY <1>2, <1>5, <1>6, <2>1 DEF Click
    <2>3. QED
      BY <1>1, <1>2, <1>6, <2>1, <2>2
  <1>9. QED
    BY <1>7, <1>8

(* Only a banner that is posted gives an id a new meaning. *)
LEMMA PostOrNothingNew ==
  ASSUME NoteTypes, NoteMove
  PROVE  \/ NothingNew
         \/ PostBanner /\ serving /\ UNCHANGED <<queueVars, unheard, toNotify>>
  <1>t. /\ byNote \in [Notes -> Requests \cup {NoRequest}]
        /\ screen \in [Notes -> [req : Requests \cup {NoRequest}, keys : SUBSET ActionKeys]]
        /\ signals \in Seq(Signals)
    BY DEF NoteTypes
  <1>q. ASSUME \A n \in Notes : \/ byNote'[n] \in {byNote[n], NoRequest}
                                \/ LinkOf(n, byNote'[n]),
               \A n \in Notes : screen'[n] = screen[n] \/ screen'[n] = NoBanner,
               jobsAt' = jobsAt \/ jobsAt'.op # "link",
               ClicksKnown
        PROVE  NothingNew
    <2> SUFFICES ASSUME NEW n \in Notes
                 PROVE  /\ \/ byNote'[n] \in {byNote[n], NoRequest}
                           \/ LinkOf(n, byNote'[n])
                        /\ screen'[n].req \in {screen[n].req, NoRequest}
                        /\ \A r \in Requests : LinkOf(n, r)' => LinkOf(n, r)
                        /\ \A k \in 1 .. Len(signals') :
                             Click(k, n)' =>
                               \/ \E j \in 1 .. Len(signals) :
                                    Click(j, n) /\ signals'[k].shown = signals[j].shown
                               \/ screen[n].req # NoRequest /\ signals'[k].shown = screen[n].req
      BY DEF NothingNew
    <2>1. \A r \in Requests : LinkOf(n, r)' => LinkOf(n, r)
      BY <1>q DEF LinkOf
    <2>2. QED
      BY <1>q, <2>1 DEF ClicksKnown, NoBanner
  <1>1. CASE JobsStep /\ UNCHANGED <<queueVars, unheard, toNotify>>
    <2>1. CASE JobsThreadEnds \/ RefreshCapabilities \/ (PostBanner /\ ~serving)
      <3>1. UNCHANGED <<byNote, screen, signals>> /\ (jobsAt' = jobsAt \/ jobsAt' = Exited)
        BY <2>1 DEF JobsThreadEnds, RefreshCapabilities, PostBanner, mapVars, serverVars, inboxVars
      <3>2. QED
        BY <1>q, <1>t, <3>1, OtherSignals DEF Exited, At
    <2>2. CASE LinkBanner
      <3>1. PICK r \in Requests : jobsAt.reqs = {r} /\ Link(jobsAt.note, r)
        BY <2>2 DEF LinkBanner, NoteTypes
      <3>2. \A n \in Notes : byNote'[n] \in {byNote[n], NoRequest} \/ LinkOf(n, byNote'[n])
        BY <2>2, <3>1 DEF Link, LinkOf, LinkBanner
      <3>3. UNCHANGED <<screen, signals>> /\ jobsAt' = Idle
        BY <2>2 DEF LinkBanner, serverVars, inboxVars
      <3>4. QED
        BY <1>q, <1>t, <3>2, <3>3, OtherSignals DEF Idle, At
    <2>3. CASE ReconcileStale
      <3>1. UNCHANGED <<byNote, screen, signals>> /\ jobsAt'.op # "link"
        BY <2>3 DEF ReconcileStale, mapVars, serverVars, inboxVars, Idle, At
      <3>2. QED
        BY <1>q, <1>t, <3>1, OtherSignals
    <2>4. CASE ReconcileForget
      <3>1. UNCHANGED <<screen, signals>> /\ jobsAt'.op # "link"
        BY <2>4 DEF ReconcileForget, serverVars, inboxVars, Idle, At
      <3>2. \A n \in Notes : byNote'[n] \in {byNote[n], NoRequest}
        BY <2>4, <1>t DEF ReconcileForget, ForgetRequest
      <3>3. QED
        BY <1>q, <1>t, <3>1, <3>2, OtherSignals
    <2>5. CASE ReconcileClose
      <3>1. byNote' = byNote /\ jobsAt'.op # "link" /\ jobsAt.note \in Notes
        BY <2>5 DEF ReconcileClose, mapVars, Idle, At, NoteTypes
      <3>2. \A n \in Notes : screen'[n] = screen[n] \/ screen'[n] = NoBanner
        BY <2>5, <1>t DEF ReconcileClose
      <3>3. ClicksKnown
        BY <2>5, <1>t, <3>1, OtherSignals DEF ReconcileClose
      <3>4. QED
        BY <1>q, <3>1, <3>2, <3>3
    <2>6. QED
      BY <1>1, <2>1, <2>2, <2>3, <2>4, <2>5 DEF JobsStep
  <1>2. CASE ~(JobsStep /\ UNCHANGED <<queueVars, unheard, toNotify>>)
    <2>1. /\ jobsAt' = jobsAt
          /\ \A n \in Notes : byNote'[n] \in {byNote[n], NoRequest}
          /\ \A n \in Notes : screen'[n] = screen[n] \/ screen'[n] = NoBanner
      BY <1>2, OthersOnlyTake
    <2>2. ASSUME \/ signals' = signals
                 \/ signals # <<>> /\ signals' = Tail(signals)
                 \/ \E kind \in {"closed", "token"}, n \in Notes :
                      signals' = Append(signals, Signal(kind, n, "none", NoRequest))
          PROVE  NothingNew
      BY <1>q, <1>t, <2>1, <2>2, OtherSignals
    <2>3. ASSUME NEW limit, NEW gestures, ServerStep(limit, gestures) PROVE NothingNew
      <3>1. ASSUME NEW n \in Notes, NEW key \in ActionKeys, UserClicks(n, key) PROVE NothingNew
        BY <1>q, <2>1, <3>1, NewClick
      <3>2. CASE ServerLeaves \/ ServerJoins
        <4>1. signals' = signals
          BY <3>2 DEF ServerLeaves, ServerJoins
        <4>2. QED
          BY <2>2, <4>1
      <3>3. ASSUME NEW n \in Notes, UserDismisses(n) \/ UserTouches(n) PROVE NothingNew
        <4>1. \E kind \in {"closed", "token"} :
                signals' = Append(signals, Signal(kind, n, "none", NoRequest))
          BY <3>3 DEF UserDismisses, UserTouches
        <4>2. QED
          BY <2>2, <4>1
      <3>4. QED
        BY <2>3, <3>1, <3>2, <3>3 DEF ServerStep
    <2>4. CASE OnNotificationClosed \/ OnActivationToken \/ (\E outcome : OnActionInvoked(outcome))
      BY <2>2, <2>4 DEF OnNotificationClosed, OnActivationToken, OnActionInvoked, Hear
    <2>5. CASE \/ UNCHANGED notifierVars \/ NotifierShutdown \/ OnNameOwnerChanged
               \/ UNCHANGED <<jobsAt, mapVars, buttons, tokens, noteStop, serverVars, inboxVars>>
      BY <2>2, <2>5 DEF notifierVars, NotifierShutdown, OnNameOwnerChanged, inboxVars
    <2>6. QED
      BY <1>2, <2>3, <2>4, <2>5 DEF NoteMove
  <1>3. QED
    BY <1>1, <1>2

(* How often the name changes hands, and when its ids start again. *)
LEMMA ServersMove ==
  ASSUME NoteTypes, NoteMove
  PROVE  \/ /\ moves' = moves /\ serving' = serving
            /\ nextNote' = nextNote \/ (PostBanner /\ serving)
         \/ moves' = moves + 1 /\ serving /\ ~serving' /\ nextNote' = nextNote
         \/ moves' = moves + 1 /\ ~serving /\ serving' /\ nextNote' = 1
  <1>1. CASE UNCHANGED serverVars
    BY <1>1 DEF serverVars
  <1>2. CASE JobsStep
    BY <1>1, <1>2
    DEF JobsStep, JobsThreadEnds, RefreshCapabilities, PostBanner, LinkBanner, ReconcileStale,
        ReconcileForget, ReconcileClose
  <1>3. ASSUME NEW limit, NEW gestures, ServerStep(limit, gestures)
        PROVE  \/ moves' = moves /\ serving' = serving /\ nextNote' = nextNote
               \/ moves' = moves + 1 /\ serving /\ ~serving' /\ nextNote' = nextNote
               \/ moves' = moves + 1 /\ ~serving /\ serving' /\ nextNote' = 1
    <2>1. CASE ServerLeaves \/ ServerJoins
      BY <2>1 DEF ServerLeaves, ServerJoins
    <2>2. ASSUME NEW n \in Notes, UserDismisses(n) \/ UserTouches(n) \/ (\E key : UserClicks(n, key))
          PROVE  moves' = moves /\ serving' = serving /\ nextNote' = nextNote
      BY <2>2 DEF UserDismisses, UserTouches, UserClicks, serverVars
    <2>3. QED
      BY <1>3, <2>1, <2>2 DEF ServerStep
  <1>4. QED
    BY <1>1, <1>2, <1>3
    DEF NoteMove, notifierVars, NotifierShutdown, OnNotificationClosed, OnActivationToken,
        OnActionInvoked, OnNameOwnerChanged

(* An id keeps its meaning while one server gives out the ids. *)
LEMMA StepServer ==
  ASSUME MapInv, OneServer, [DesktopNext]_desktopVars
  PROVE  OneServer'
  <1>t. OnceInv /\ NoteTypes /\ moves \in Nat /\ nextNote \in Nat \ {0}
    BY DEF MapInv, OnceInv, NoteTypes
  <1>1. NoteMove
    BY <1>t, StepMovesNote
  <1>2. \/ /\ moves' = moves /\ serving' = serving
           /\ nextNote' = nextNote \/ (PostBanner /\ serving)
        \/ moves' = moves + 1 /\ serving /\ ~serving' /\ nextNote' = nextNote
        \/ moves' = moves + 1 /\ ~serving /\ serving' /\ nextNote' = 1
    BY <1>t, <1>1, ServersMove
  <1>3. moves' = 0 /\ ~serving' => nextNote' = 1
    BY <1>t, <1>2 DEF OneServer
  <1>4. ASSUME moves' <= 1 PROVE OneMeaning' /\ LaterUnused'
    <2>1. moves <= 1 /\ (moves' # moves => moves = 0)
      BY <1>t, <1>2, <1>4
    <2>2. OneMeaning /\ LaterUnused
      BY <2>1 DEF OneServer
    <2>n. Notes' = Notes
      BY DEF Notes
    <2>3. CASE NothingNew
      <3>1. OneMeaning'
        <4>1. SUFFICES ASSUME NEW n \in Notes PROVE \E q \in Requests : Means(n, q)'
          BY <2>n DEF OneMeaning
        <4>2. PICK q \in Requests : Means(n, q)
          BY <2>2 DEF OneMeaning
        <4>3. QED
          BY <1>t, <2>3, <4>2, NothingNewKeeps
      <3>2. nextNote' = nextNote \/ nextNote' = nextNote + 1
        <4>1. ASSUME ~serving, moves = 0 PROVE nextNote = 1
          BY <4>1 DEF OneServer
        <4>2. PostBanner /\ serving => nextNote' = nextNote + 1
          BY DEF PostBanner
        <4>3. QED
          BY <1>t, <1>2, <2>1, <4>1, <4>2
      <3>3. LaterUnused'
        <4>1. SUFFICES ASSUME NEW n \in Notes, n >= nextNote' PROVE Unused(n)'
          BY <2>n DEF LaterUnused
        <4>2. n >= nextNote /\ n \in Nat
          BY <1>t, <3>2, <4>1, NoteFacts
        <4>3. Unused(n)
          BY <2>2, <4>2 DEF LaterUnused
        <4>4. QED
          BY <1>t, <2>3, <4>3, NothingNewKeeps
      <3>4. QED
        BY <3>1, <3>3
    <2>4. CASE PostBanner /\ serving
      <3>1. PICK r \in Requests : r = Head(jobs).req
        BY <1>t, <2>4, PostHasRoom DEF Unposted
      <3>2. /\ nextNote \in Notes
            /\ screen'   = [screen EXCEPT ![nextNote] = Banner(r, ActionsFor(r))]
            /\ nextNote' = nextNote + 1
            /\ jobsAt'   = At("link", {r}, nextNote)
            /\ UNCHANGED <<byNote, signals>>
            /\ jobsAt = Idle
        BY <1>t, <2>4, <3>1, PostHasRoom DEF PostBanner, Take, mapVars, inboxVars
      <3>3. /\ \A n \in Notes : n # nextNote => screen'[n] = screen[n]
            /\ screen'[nextNote].req = r
        BY <1>t, <3>2 DEF NoteTypes, Banner
      <3>4. /\ \A n \in Notes : n # nextNote => \A q \in Requests : ~LinkOf(n, q)'
            /\ \A n \in Notes : n = nextNote => \A q \in Requests : LinkOf(n, q)' => q = r
        BY <3>2 DEF LinkOf, At
      <3>5. \A n \in Notes : \A k \in 1 .. Len(signals') : Click(k, n)' <=> Click(k, n)
        BY <3>2 DEF Click
      <3>6. ASSUME NEW n \in Notes, n # nextNote
            PROVE  /\ \A q \in Requests : Means(n, q) => Means(n, q)'
                   /\ Unused(n) => Unused(n)'
        BY <3>2, <3>3, <3>4, <3>5, <3>6 DEF Means, Unused
      <3>7. Unused(nextNote)
        BY <1>t, <2>2, <3>2 DEF LaterUnused
      <3>8. PICK n \in Notes : n = nextNote
        BY <3>2
      <3>9. Means(n, r)'
        <4>1. byNote'[n] = NoRequest /\ screen'[n].req = r
          BY <3>2, <3>3, <3>7, <3>8 DEF Unused
        <4>2. \A q \in Requests : LinkOf(n, q)' => q = r
          BY <3>4, <3>8
        <4>3. \A k \in 1 .. Len(signals') : ~Click(k, n)'
          <5>1. \A k \in 1 .. Len(signals) : ~Click(k, n)
            BY <3>7, <3>8 DEF Unused
          <5>2. QED
            BY <3>2, <3>5, <5>1
        <4>4. QED
          BY <4>1, <4>2, <4>3 DEF Means
      <3>10. OneMeaning'
        <4>1. SUFFICES ASSUME NEW m \in Notes PROVE \E q \in Requests : Means(m, q)'
          BY <2>n DEF OneMeaning
        <4>2. QED
          BY <2>2, <3>6, <3>8, <3>9 DEF OneMeaning
      <3>11. LaterUnused'
        <4>1. SUFFICES ASSUME NEW m \in Notes, m >= nextNote' PROVE Unused(m)'
          BY <2>n DEF LaterUnused
        <4>2. m >= nextNote /\ m # nextNote
          BY <1>t, <3>2, <4>1, NoteFacts
        <4>3. QED
          BY <2>2, <3>6, <4>2 DEF LaterUnused
      <3>12. QED
        BY <3>10, <3>11
    <2>5. QED
      BY <1>t, <1>1, <2>3, <2>4, PostOrNothingNew
  <1>5. QED
    BY <1>3, <1>4 DEF OneServer

(* At first no id means anything. *)
LEMMA InitServer == DesktopInit => OneServer
  <1> SUFFICES ASSUME DesktopInit PROVE OneServer
    OBVIOUS
  <1>1. /\ nextNote = 1 /\ jobsAt.op = "idle" /\ Len(signals) = 0
        /\ \A n \in Notes : byNote[n] = NoRequest /\ screen[n].req = NoRequest
    BY DEF DesktopInit, NotifierInit, Idle, At, NoBanner
  <1>2. \A n \in Notes : Unused(n)
    BY <1>1 DEF Unused, LinkOf
  <1>3. \A n \in Notes : \E q \in Requests : TRUE
    <2>1. SUFFICES ASSUME NEW n \in Notes PROVE Requests # {}
      OBVIOUS
    <2>2. Cardinality(Requests) # 0
      BY NoteFacts
    <2>3. QED
      BY <2>2, FS_EmptySet
  <1>4. \A n \in Notes, q \in Requests : Unused(n) => Means(n, q)
    BY DEF Unused, Means
  <1>5. QED
    BY <1>1, <1>2, <1>3, <1>4 DEF OneServer, OneMeaning, LaterUnused

(* The request a click decides is the one its banner showed, for any       *)
(* number of clicks, closings and answers in between, as long as one       *)
(* server gave out the ids.                                                *)
THEOREM ClicksDecideShown == DesktopSpec => ClickDecidesShown
  <1> DEFINE Decided(r) ==
        signals # <<>> /\ signals' = Tail(signals) /\ entries[r] = r /\ entries'[r] # r
          /\ Head(signals).kind = "action" /\ moves <= 1 => Head(signals).shown = r
  <1>1. DesktopInit => MapInv /\ OneServer
    BY InitMap, InitServer
  <1>2. MapInv /\ OneServer /\ [DesktopNext]_desktopVars => (MapInv /\ OneServer)'
    BY StepMap, StepServer
  <1>3. MapInv /\ OneServer /\ [DesktopNext]_desktopVars => \A r \in Requests : Decided(r)
    <2>1. SUFFICES ASSUME MapInv, OneServer, [DesktopNext]_desktopVars, NEW r \in Requests,
                          signals # <<>>, signals' = Tail(signals), entries[r] = r, entries'[r] # r,
                          Head(signals).kind = "action", moves <= 1
                   PROVE  Head(signals).shown = r
      OBVIOUS
    <2>2. signals \in Seq(Signals) /\ byNote \in [Notes -> Requests \cup {NoRequest}]
      BY <2>1 DEF MapInv, OnceInv, NoteTypes
    <2>3. /\ Head(signals) \in Signals /\ signals' # signals
          /\ 1 \in 1 .. Len(signals) /\ signals[1] = Head(signals)
      <3>1. Len(Tail(signals)) = Len(signals) - 1 /\ Len(signals) \in Nat /\ Len(signals) # 0
        BY <2>1, <2>2
      <3>2. signals' # signals
        <4>1. SUFFICES ASSUME Tail(signals) = signals PROVE FALSE
          BY <2>1
        <4>2. Len(signals) = Len(signals) - 1
          BY <3>1, <4>1
        <4>3. QED
          BY <3>1, <4>2
      <3>3. 1 \in 1 .. Len(signals)
        BY <3>1
      <3>4. QED
        BY <2>1, <2>2, <3>2, <3>3
    <2>4. Head(signals).note \in Notes
      BY <2>3 DEF Signals
    <2>5. BannerAction
      <3>1. entries' # entries
        BY <2>1
      <3>2. ~UNCHANGED notifierVars /\ ~UNCHANGED queueVars
        BY <2>3, <3>1 DEF notifierVars, inboxVars, queueVars
      <3>3. \A c \in unheard : ~ListenersHear(c)
        BY <2>3 DEF ListenersHear, inboxVars
      <3>4. QED
        BY <2>1, <3>2, <3>3
        DEF DesktopNext, SubmitRequest, WorkerNotifies, TrayOpens, ApproveElsewhere, TrayResolves,
            WindowResolves, AskToQuit, CancelPending, TrayGoes, NotifierGoes, JobsMoves, SignalsMove,
            NamesMove, SessionMoves, TrayMoves, WindowMoves, WindowLife, WindowUser, desktopVars
    <2>6. PICK n \in Notes : n = Head(signals).note
      BY <2>4
    <2>7. PICK v \in Verdicts : byNote[n] \in Requests /\ ResolveOrIgnore(byNote[n], v)
      <3>1. entries' # entries
        BY <2>1
      <3>2. QED
        BY <2>2, <2>4, <2>5, <2>6, <3>1, BannerResolves DEF queueVars
    <2>8. byNote[n] = r
      <3>1. entries[byNote[n]] = byNote[n] /\ Resolve(byNote[n], v)
        BY <2>1, <2>7 DEF ResolveOrIgnore, queueVars
      <3>2. entries' = [entries EXCEPT ![byNote[n]] = NoRequest]
        BY <3>1 DEF Resolve
      <3>3. entries \in [Ids -> Requests \cup {NoRequest}] /\ r \in Ids
        BY <2>1, OwnId DEF MapInv, QueueInv, QueueTypeOK
      <3>4. QED
        BY <2>1, <3>2, <3>3
    <2>9. PICK q \in Requests : Means(n, q)
      BY <2>1 DEF OneServer, OneMeaning
    <2>10. r = q /\ signals[1].shown = q
      BY <2>1, <2>3, <2>6, <2>8, <2>9, OwnId DEF Means, Click
    <2>11. QED
      BY <2>3, <2>10
  <1>4. QED
    BY <1>1, <1>2, <1>3, PTL DEF DesktopSpec, ClickDecidesShown

-----------------------------------------------------------------------------
(* The tray.                                                               *)

(* The queue does not change without a change that is still to be heard. *)
LEMMA ChangesAreDue ==
  ASSUME NoteTypes, ChangeTypes, QueueInv, [DesktopNext]_desktopVars
  PROVE  \/ \E c \in unheard : ListenersHear(c) /\ Pending' = Pending
         \/ ~(\E c \in unheard : ListenersHear(c)) /\ unheard \subseteq unheard'
            /\ (Pending' = Pending \/ unheard' # {})
  <1>1. ASSUME NEW c \in unheard, ListenersHear(c) PROVE Pending' = Pending
    <2>1. entries' = entries
      BY <1>1 DEF ListenersHear, Deliver, queueVars
    <2>2. QED
      BY <2>1 DEF Pending
  <1>2. CASE ~(\E c \in unheard : ListenersHear(c))
    <2>1. ASSUME NEW r \in Requests \cup {NoRequest}, NEW kind, Changed(kind, r)
          PROVE  unheard \subseteq unheard' /\ unheard' # {}
      BY <2>1 DEF Changed
    <2>2. CASE UNCHANGED <<entries, unheard>>
      BY <1>2, <2>2 DEF Pending
    <2>3. ASSUME NEW r \in Requests, NEW v \in Verdicts, ResolveOrIgnore(r, v)
          PROVE  unheard \subseteq unheard' /\ (Pending' = Pending \/ unheard' # {})
      <3>1. CASE Changed("resolve", r)
        BY <2>1, <3>1
      <3>2. CASE UNCHANGED <<queueVars, unheard, missed>>
        BY <3>2 DEF Pending, queueVars
      <3>3. QED
        BY <2>3, <3>1, <3>2 DEF ResolveOrIgnore
    <2>4. ASSUME NEW r \in Requests, SubmitRequest(r)
          PROVE  unheard \subseteq unheard' /\ unheard' # {}
      BY <2>1, <2>4 DEF SubmitRequest
    <2>5. ASSUME CancelPending
          PROVE  unheard \subseteq unheard' /\ (Pending' = Pending \/ unheard' # {})
      <3>1. CASE Pending = {}
        <4>1. Pending' = {}
          BY <2>5, OwnId DEF CancelPending, CancelAll, Pending
        <4>2. QED
          BY <2>5, <3>1, <4>1 DEF CancelPending
      <3>2. CASE Pending # {}
        BY <2>1, <2>5, <3>2 DEF CancelPending
      <3>3. QED
        BY <3>1, <3>2
    <2>6. ASSUME BannerAction
          PROVE  unheard \subseteq unheard' /\ (Pending' = Pending \/ unheard' # {})
      <3>1. signals \in Seq(Signals) /\ byNote \in [Notes -> Requests \cup {NoRequest}]
        BY DEF NoteTypes
      <3>2. signals # <<>> => Head(signals) \in Signals
        BY <3>1
      <3>3. signals # <<>> => Head(signals).note \in Notes
        BY <3>2 DEF Signals
      <3>4. \/ UNCHANGED <<queueVars, unheard, missed>>
            \/ \E v \in Verdicts :
                 /\ byNote[Head(signals).note] \in Requests
                 /\ ResolveOrIgnore(byNote[Head(signals).note], v)
        BY <2>6, <3>1, <3>3, BannerResolves
      <3>5. CASE UNCHANGED <<queueVars, unheard, missed>>
        BY <3>5 DEF Pending, queueVars
      <3>6. QED
        BY <2>3, <3>4, <3>5
    <2>7. ASSUME NEW r \in Requests, NEW v \in Verdicts,
                 ApproveElsewhere(r, v) \/ TrayResolves(r, v) \/ WindowResolves(r, v)
          PROVE  unheard \subseteq unheard' /\ (Pending' = Pending \/ unheard' # {})
      BY <2>3, <2>7 DEF ApproveElsewhere, TrayResolves, WindowResolves
    <2>8. CASE \/ \E r \in Requests : WorkerNotifies(r) \/ TrayOpens(r)
               \/ TrayOpens(NoRequest)
               \/ AskToQuit \/ TrayGoes \/ NotifierGoes \/ JobsMoves \/ (SignalsMove /\ ~BannerAction)
               \/ NamesMove \/ SessionMoves \/ TrayMoves \/ WindowMoves \/ WindowLife \/ WindowUser
               \/ UNCHANGED desktopVars
      <3>1. UNCHANGED <<entries, unheard>>
        BY <2>8
        DEF WorkerNotifies, TrayOpens, AskToQuit, TrayGoes, NotifierGoes, JobsMoves, SignalsMove,
            NamesMove, SessionMoves, TrayMoves, WindowMoves, WindowLife, WindowUser, desktopVars, queueVars
      <3>2. QED
        BY <2>2, <3>1
    <2>9. QED
      BY <1>2, <2>4, <2>5, <2>6, <2>7, <2>8 DEF DesktopNext
  <1>3. QED
    BY <1>1, <1>2

TrayTypes ==
  /\ trayJobs \in Seq({"refresh", "stop"})
  /\ trayAt = Waiting \/ trayAt = Ended \/ \E cards \in SUBSET Requests : trayAt = Publishing(cards)
  /\ menu \subseteq Requests
  /\ published \in BOOLEAN

(* While the item is on the bus its thread runs, is not told to stop, and  *)
(* knows or will hear of the queue as it is.                               *)
TrayFollows ==
  published =>
    /\ trayAt # Ended
    /\ \A k \in 1 .. Len(trayJobs) : trayJobs[k] = "refresh"
    /\ \/ unheard # {}
       \/ trayJobs # <<>>
       \/ trayAt = Publishing(Pending)
       \/ trayAt = Waiting /\ menu = Pending

TrayInv == TrayTypes /\ TrayFollows

(* At first the menu is that of the empty queue. *)
LEMMA InitTray == DesktopInit => TrayInv
  <1> SUFFICES ASSUME DesktopInit PROVE TrayInv
    OBVIOUS
  <1>1. setup.tray \in BOOLEAN
    BY DesktopAssumption DEF DesktopInit
  <1>2. Pending \subseteq Requests /\ Waiting # Ended
    BY DEF Pending, Waiting, Ended
  <1>3. QED
    BY <1>1, <1>2 DEF DesktopInit, TrayInit, TrayInv, TrayTypes, TrayFollows

(* Where the tray thread can be. *)
LEMMA TrayPlaces ==
  /\ Waiting # Ended
  /\ \A cards \in SUBSET Requests :
       Publishing(cards) # Ended /\ Publishing(cards) # Waiting
       /\ Publishing(cards).op = "publishing" /\ Publishing(cards).cards = cards
  /\ Waiting.op # "publishing" /\ Ended.op # "publishing"
  BY DEF Waiting, Ended, Publishing

(* Every step keeps the tray's invariant. *)
LEMMA StepTray ==
  ASSUME NoteTypes, ChangeTypes, QueueInv, TrayInv, [DesktopNext]_desktopVars
  PROVE  TrayInv'
  <1>t. /\ trayJobs \in Seq({"refresh", "stop"})
        /\ trayAt = Waiting \/ trayAt = Ended \/ \E cards \in SUBSET Requests : trayAt = Publishing(cards)
        /\ menu \subseteq Requests
        /\ published \in BOOLEAN
        /\ Pending \in SUBSET Requests
    BY DEF TrayInv, TrayTypes, Pending
  <1>f. published =>
          /\ trayAt # Ended
          /\ \A k \in 1 .. Len(trayJobs) : trayJobs[k] = "refresh"
          /\ \/ unheard # {}
             \/ trayJobs # <<>>
             \/ trayAt = Publishing(Pending)
             \/ trayAt = Waiting /\ menu = Pending
    BY DEF TrayInv, TrayFollows
  <1>1. ASSUME NEW c \in unheard, ListenersHear(c), Pending' = Pending PROVE TrayInv'
    <2>1. /\ trayJobs' = IF trayAt = Ended THEN trayJobs ELSE Append(trayJobs, "refresh")
          /\ UNCHANGED <<trayAt, menu, published>>
      BY <1>1 DEF ListenersHear, CallListeners, TrayHears
    <2>2. TrayTypes'
      BY <1>t, <2>1 DEF TrayTypes
    <2>3. TrayFollows'
      <3>1. SUFFICES ASSUME published PROVE TrayFollows'
        BY <2>1 DEF TrayFollows
      <3>2. trayJobs' = Append(trayJobs, "refresh")
        BY <1>f, <2>1, <3>1
      <3>3. trayJobs' # <<>> /\ \A k \in 1 .. Len(trayJobs') : trayJobs'[k] = "refresh"
        BY <1>f, <1>t, <3>1, <3>2
      <3>4. QED
        BY <1>f, <2>1, <3>1, <3>3 DEF TrayFollows
    <2>4. QED
      BY <2>2, <2>3 DEF TrayInv
  <1>2. ASSUME UNCHANGED trayVars, unheard \subseteq unheard', Pending' = Pending \/ unheard' # {}
        PROVE  TrayInv'
    <2>1. UNCHANGED <<trayJobs, trayAt, menu, published>>
      BY <1>2 DEF trayVars
    <2>2. TrayTypes'
      BY <1>t, <2>1 DEF TrayTypes
    <2>3. TrayFollows'
      BY <1>f, <1>2, <2>1 DEF TrayFollows
    <2>4. QED
      BY <2>2, <2>3 DEF TrayInv
  <1>3. CASE TrayGoes /\ published
    <2>1. /\ trayJobs' = IF trayAt = Ended THEN trayJobs ELSE Append(trayJobs, "stop")
          /\ published' = FALSE /\ UNCHANGED <<trayAt, menu>>
      BY <1>3 DEF TrayGoes, TrayShutdown
    <2>2. TrayTypes'
      <3>1. trayJobs' \in Seq({"refresh", "stop"})
        BY <1>t, <2>1
      <3>2. QED
        BY <1>t, <2>1, <3>1 DEF TrayTypes
    <2>3. QED
      BY <2>1, <2>2 DEF TrayInv, TrayFollows
  <1>4. CASE TrayMoves
    <2>1. UNCHANGED <<entries, unheard>> /\ Pending' = Pending
      BY <1>4 DEF TrayMoves, queueVars, Pending
    <2>2. CASE TraySnapshot
      <3>1. /\ trayAt' = Publishing(Pending) /\ trayJobs' = Tail(trayJobs) /\ trayJobs # <<>>
            /\ UNCHANGED <<menu, published>>
        BY <2>2 DEF TraySnapshot
      <3>2. TrayTypes'
        BY <1>t, <3>1 DEF TrayTypes
      <3>3. published => \A k \in 1 .. Len(trayJobs') : trayJobs'[k] = "refresh"
        BY <1>f, <1>t, <3>1
      <3>4. TrayFollows'
        BY <1>t, <2>1, <3>1, <3>3, TrayPlaces DEF TrayFollows
      <3>5. QED
        BY <3>2, <3>4 DEF TrayInv
    <2>3. CASE TrayPublish
      <3>1. PICK cards \in SUBSET Requests : trayAt = Publishing(cards)
        BY <1>t, <2>3, TrayPlaces DEF TrayPublish
      <3>2. /\ IF published THEN menu' = cards /\ trayAt' = Waiting
               ELSE UNCHANGED menu /\ trayAt' = Ended
            /\ UNCHANGED <<trayJobs, published>>
        BY <2>3, <3>1, TrayPlaces DEF TrayPublish
      <3>3. TrayTypes'
        BY <1>t, <3>2 DEF TrayTypes
      <3>4. TrayFollows'
        <4>1. trayAt = Publishing(Pending) => cards = Pending
          BY <1>t, <3>1, TrayPlaces
        <4>2. trayAt # Waiting
          BY <3>1, TrayPlaces
        <4>3. QED
          BY <1>f, <2>1, <3>2, <4>1, <4>2, TrayPlaces DEF TrayFollows
      <3>5. QED
        BY <3>3, <3>4 DEF TrayInv
    <2>4. CASE TrayThreadEnds
      <3>1. /\ trayJobs # <<>> /\ Head(trayJobs) = "stop" /\ trayAt' = Ended
            /\ trayJobs' = Tail(trayJobs) /\ UNCHANGED <<menu, published>>
        BY <2>4 DEF TrayThreadEnds
      <3>2. ~published
        <4>1. 1 \in 1 .. Len(trayJobs) /\ trayJobs[1] = "stop"
          BY <1>t, <3>1
        <4>2. QED
          BY <1>f, <4>1
      <3>3. QED
        BY <1>t, <3>1, <3>2 DEF TrayInv, TrayTypes, TrayFollows
    <2>5. QED
      BY <1>4, <2>2, <2>3, <2>4 DEF TrayMoves, TrayStep
  <1>5. CASE ~(\E c \in unheard : ListenersHear(c)) /\ ~(TrayGoes /\ published) /\ ~TrayMoves
    <2>1. UNCHANGED trayVars
      BY <1>5
      DEF DesktopNext, SubmitRequest, WorkerNotifies, TrayOpens, ApproveElsewhere, TrayResolves,
          WindowResolves, AskToQuit, CancelPending, TrayGoes, NotifierGoes, JobsMoves, SignalsMove,
          BannerAction, NamesMove, SessionMoves, WindowMoves, WindowLife, WindowUser, desktopVars
    <2>2. QED
      BY <1>2, <1>5, <2>1, ChangesAreDue
  <1>6. QED
    BY <1>1, <1>3, <1>4, <1>5, ChangesAreDue

-----------------------------------------------------------------------------
(* The window.                                                             *)
Kinds == {"raw", "details", "reason"}
Carded == Requests \cup {NoRequest}
Pickers == {"none", "allowlist", "trust_host"}

WindowTypes ==
  /\ window \in {"none", "absent", "installed", "listening", "gone"}
  /\ painted \in [pending : SUBSET Requests, recent : SUBSET (Requests \cup Past)]
  /\ open \subseteq Kinds \X (Requests \cup Past)
  /\ repaint \in BOOLEAN /\ visible \in BOOLEAN /\ asking \in BOOLEAN
  /\ showing \in [card : Carded, picker : Pickers, observe : Nat, parked : BOOLEAN]
  /\ sheet \in [kind : Pickers, req : Carded]
  /\ toast \in {"none", "gone"}
  /\ missed \in BOOLEAN

(* Measurements that are due, or asked for by the show request. *)
Out == (timers \cup {showing.observe}) \ {0}

(* Every measurement that is due or asked for belongs to a question, due   *)
(* ones to earlier ones than the show request.  While a question waits for *)
(* its result every measurement still out is behind it by no more          *)
(* questions than were given up, and one already in the slot is older than *)
(* all of them; after that those that are out are behind by fewer.         *)
Measured ==
  /\ asks \in 0 .. MaxAsks /\ late \in Nat
  /\ late <= asks /\ (asking => late < asks)
  /\ timers \subseteq 1 .. asks /\ showing.observe \in 0 .. asks
  /\ showing.observe # 0 => \A j \in timers : j < showing.observe
  /\ raise \in [result : {"none", "focused", "unfocused"}, ask : 0 .. MaxAsks]
  /\ ~asking => \A j \in Out : asks - j < late
  /\ asking /\ raise = NoRaise => \A j \in Out : asks - j <= late
  /\ asking /\ raise # NoRaise =>
       asks - raise.ask <= late /\ \A j \in Out : raise.ask < j

(* No section is open without its card. *)
Disclosed == \A s \in open : s[2] \in Cards

(* A window that was told of everything since it was painted shows the     *)
(* queue, or is about to repaint or to be told.                            *)
WindowFollows ==
  window \in {"installed", "listening"} /\ ~missed =>
    \/ painted.pending = Pending
    \/ window = "listening" /\ (repaint \/ \E c \in unheard : c.window)

WindowInv == WindowTypes /\ Measured /\ Disclosed /\ WindowFollows

(* At first there is no window. *)
LEMMA InitWindow == DesktopInit => WindowInv
  <1> SUFFICES ASSUME DesktopInit PROVE WindowInv
    OBVIOUS
  <1>1. WindowTypes
    BY DEF DesktopInit, WindowInit, WindowTypes, Painted, NoShow, NoSheet, Carded, Pickers
  <1>2. Measured
    BY WindowAssumption DEF DesktopInit, WindowInit, Measured, Out, NoShow, NoRaise
  <1>3. QED
    BY <1>1, <1>2 DEF DesktopInit, WindowInit, WindowInv, Disclosed, WindowFollows

(* The history names requests of this run or an earlier one. *)
LEMMA RecentTypes == QueueInv => Recent \subseteq Requests \cup Past /\ Pending \subseteq Requests
  <1> SUFFICES ASSUME QueueInv PROVE Recent \subseteq Requests \cup Past
    BY DEF Pending
  <1>1. resolved \in Seq(Rows)
    BY DEF QueueInv, QueueTypeOK
  <1>2. \A k \in DOMAIN resolved : resolved[k] \in Rows
    BY <1>1
  <1>3. QED
    BY <1>2 DEF Recent, Rows

(* Painting. *)
LEMMA RepaintShows ==
  ASSUME WindowTypes, QueueInv, Repaint
  PROVE  /\ painted' \in [pending : SUBSET Requests, recent : SUBSET (Requests \cup Past)]
         /\ open' \subseteq Kinds \X (Requests \cup Past)
         /\ \A s \in open' : s[2] \in painted'.pending \cup painted'.recent
         /\ \A s \in open \ open' : s[2] \notin painted'.pending \cup painted'.recent
         /\ painted'.pending = Pending
  BY RecentTypes DEF Repaint, WindowTypes, Painted, Live

(* What a step of the session can do to the window. *)
ParkShow == \E card \in Carded, picker \in Pickers : RequestShow(card, picker, 0)

WindowMove ==
  \/ UNCHANGED windowVars
  \/ ParkShow /\ UNCHANGED <<window, paintVars, visible, sheet, toast, raiseVars>>
  \/ /\ WindowHears \/ UNCHANGED repaint
     /\ UNCHANGED <<window, painted, open, showing, visible, sheet, toast, raiseVars>>
  \/ WindowStep \/ InstallWindow \/ GtkFails \/ WindowGoes
  \/ AskOpen \/ HideWindow
  \/ \E kind \in Kinds, r \in Requests : ToggleSection(kind, r)

(* A step of the session is one of these. *)
LEMMA StepMovesWindow ==
  ASSUME ChangeTypes, [DesktopNext]_desktopVars
  PROVE  WindowMove
  <1>1. CASE UNCHANGED windowVars
    BY <1>1 DEF WindowMove
  <1>2. ASSUME NEW r \in Requests \cup {NoRequest}, TrayOpens(r) PROVE WindowMove
    BY <1>2 DEF TrayOpens, WindowMove, ParkShow, Carded, Pickers, paintVars
  <1>3. ASSUME NEW c \in unheard, ListenersHear(c) PROVE WindowMove
    BY <1>3 DEF ListenersHear, CallListeners, WindowMove
  <1>4. CASE BannerAction
    <2>1. PICK outcome \in {Nothing} \cup [kind : {"resolve", "show"}, req : Requests \cup {NoRequest},
                                           verdict : Verdicts \cup {NoVerdict},
                                           picker : {"none", "allowlist", "trust_host"}] :
            /\ IF outcome.kind = "show"
               THEN RequestShow(outcome.req, outcome.picker, 0)
               ELSE UNCHANGED showing
            /\ UNCHANGED <<trayVars, window, painted, open, repaint, visible, sheet, toast, raiseVars,
                           setup, toNotify, quitting>>
      BY <1>4 DEF BannerAction
    <2>2. outcome.kind = "show" => outcome.req \in Carded /\ outcome.picker \in Pickers
      BY <2>1 DEF Nothing, Outcome, Carded, Pickers
    <2>3. CASE outcome.kind = "show"
      BY <2>1, <2>2, <2>3 DEF WindowMove, ParkShow, paintVars
    <2>4. CASE outcome.kind # "show"
      BY <2>1, <2>4 DEF WindowMove, windowVars, raiseVars
    <2>5. QED
      BY <2>3, <2>4
  <1>5. CASE WindowMoves \/ WindowLife
    BY <1>5 DEF WindowMoves, WindowLife, WindowMove
  <1>6. CASE WindowUser
    <2>1. setup.sections \subseteq Kinds
      BY DesktopAssumption DEF ChangeTypes, Kinds
    <2>2. QED
      BY <1>6, <2>1 DEF WindowUser, WindowMove
  <1>7. CASE \/ \E r \in Requests : SubmitRequest(r) \/ WorkerNotifies(r)
             \/ \E r \in Requests, v \in Verdicts :
                  ApproveElsewhere(r, v) \/ TrayResolves(r, v) \/ WindowResolves(r, v)
             \/ AskToQuit \/ CancelPending \/ TrayGoes \/ NotifierGoes \/ JobsMoves
             \/ (SignalsMove /\ ~BannerAction) \/ NamesMove \/ SessionMoves \/ TrayMoves
             \/ UNCHANGED desktopVars
    BY <1>1, <1>7
    DEF SubmitRequest, WorkerNotifies, ApproveElsewhere, TrayResolves, WindowResolves, AskToQuit,
        CancelPending, TrayGoes, NotifierGoes, JobsMoves, SignalsMove, NamesMove, SessionMoves,
        TrayMoves, desktopVars
  <1>8. QED
    BY <1>2, <1>3, <1>4, <1>5, <1>6, <1>7 DEF DesktopNext

(* The window's types, its sections and its measurements, at every step. *)
LEMMA MoveWindowTypes ==
  ASSUME WindowTypes, Measured, QueueInv, WindowMove, missed' \in BOOLEAN
  PROVE  WindowTypes'
  <1>t. /\ window \in {"none", "absent", "installed", "listening", "gone"}
        /\ painted \in [pending : SUBSET Requests, recent : SUBSET (Requests \cup Past)]
        /\ open \subseteq Kinds \X (Requests \cup Past)
        /\ repaint \in BOOLEAN /\ visible \in BOOLEAN /\ asking \in BOOLEAN
        /\ showing \in [card : Carded, picker : Pickers, observe : Nat, parked : BOOLEAN]
        /\ sheet \in [kind : Pickers, req : Carded]
        /\ toast \in {"none", "gone"}
    BY DEF WindowTypes
  <1>1. ASSUME NEW card \in Carded, NEW picker \in Pickers, NEW observe \in Nat,
               RequestShow(card, picker, observe)
        PROVE  showing' \in [card : Carded, picker : Pickers, observe : Nat, parked : BOOLEAN]
    BY <1>1 DEF RequestShow, Show
  <1>2. CASE UNCHANGED windowVars
    BY <1>t, <1>2 DEF windowVars, WindowTypes
  <1>3. CASE ParkShow /\ UNCHANGED <<window, paintVars, visible, sheet, toast, raiseVars>>
    BY <1>t, <1>1, <1>3 DEF ParkShow, paintVars, raiseVars, WindowTypes
  <1>4. CASE /\ WindowHears \/ UNCHANGED repaint
             /\ UNCHANGED <<window, painted, open, showing, visible, sheet, toast, raiseVars>>
    <2>1. repaint' \in BOOLEAN
      BY <1>4, <1>t DEF WindowHears
    <2>2. QED
      BY <1>t, <1>4, <2>1 DEF raiseVars, WindowTypes
  <1>5. CASE InstallWindow
    BY <1>t, <1>5, RepaintShows DEF InstallWindow, raiseVars, WindowTypes
  <1>6. CASE GtkFails \/ WindowGoes \/ HideWindow \/ ListenToQueue
    BY <1>t, <1>6 DEF GtkFails, WindowGoes, HideWindow, ListenToQueue, paintVars, raiseVars, WindowTypes
  <1>7. CASE AskOpen
    <2>1. NoRequest \in Carded /\ "none" \in Pickers
      BY DEF Carded, Pickers
    <2>2. showing' \in [card : Carded, picker : Pickers, observe : Nat, parked : BOOLEAN]
      BY <1>1, <1>7, <2>1 DEF AskOpen, Measured
    <2>3. QED
      BY <1>t, <1>7, <2>2 DEF AskOpen, paintVars, WindowTypes
  <1>8. ASSUME NEW kind \in Kinds, NEW r \in Requests, ToggleSection(kind, r) PROVE WindowTypes'
    BY <1>t, <1>8 DEF ToggleSection, raiseVars, WindowTypes
  <1>9. CASE RefreshWindow
    BY <1>t, <1>9, RepaintShows DEF RefreshWindow, raiseVars, WindowTypes
  <1>10. CASE DrainShow
    <2>1. NoShow \in [card : Carded, picker : Pickers, observe : Nat, parked : BOOLEAN]
      BY DEF NoShow, Carded, Pickers
    <2>2. /\ showing' = NoShow /\ visible' = TRUE /\ UNCHANGED <<window, asking, repaint>>
          /\ sheet' = sheet \/ sheet' = [kind |-> showing.picker, req |-> showing.card]
          /\ toast' = toast \/ toast' = "gone"
          /\ Repaint \/ UNCHANGED <<painted, open>>
      BY <1>10 DEF DrainShow, paintVars
    <2>3. sheet' \in [kind : Pickers, req : Carded]
      BY <1>t, <2>2
    <2>4. /\ painted' \in [pending : SUBSET Requests, recent : SUBSET (Requests \cup Past)]
          /\ open' \subseteq Kinds \X (Requests \cup Past)
      BY <1>t, <2>2, RepaintShows
    <2>5. QED
      BY <1>t, <2>1, <2>2, <2>3, <2>4 DEF WindowTypes
  <1>11. CASE (\E result \in {"focused", "unfocused"} : Measure(result)) \/ OpenAnswered \/ OpenTimesOut
    BY <1>t, <1>11 DEF Measure, OpenAnswered, OpenTimesOut, paintVars, WindowTypes
  <1>12. QED
    BY <1>2, <1>3, <1>4, <1>5, <1>6, <1>7, <1>8, <1>9, <1>10, <1>11 DEF WindowMove, WindowStep

(* Measurements belong to questions, and those still out are newer than    *)
(* the one in the slot.                                                    *)
LEMMA MoveMeasured ==
  ASSUME WindowTypes, Measured, WindowMove
  PROVE  Measured'
  <1>t. /\ asks \in Nat /\ asks <= MaxAsks /\ MaxAsks \in Nat /\ late \in Nat /\ asking \in BOOLEAN
        /\ late <= asks /\ (asking => late < asks)
        /\ timers \subseteq 1 .. asks /\ showing.observe \in 0 .. asks
        /\ showing.observe # 0 => \A j \in timers : j < showing.observe
        /\ raise \in [result : {"none", "focused", "unfocused"}, ask : 0 .. MaxAsks]
    BY WindowAssumption DEF Measured, WindowTypes
  <1>o. /\ Out \subseteq 1 .. asks
        /\ ~asking => \A j \in Out : asks - j < late
        /\ asking /\ raise = NoRaise => \A j \in Out : asks - j <= late
        /\ asking /\ raise # NoRaise =>
             asks - raise.ask <= late /\ \A j \in Out : raise.ask < j
    <2>1. \A j \in Out : j \in timers \/ (j = showing.observe /\ j # 0)
      BY DEF Out
    <2>2. \A j \in Out : j \in 1 .. asks
      <3>1. showing.observe # 0 => showing.observe \in 1 .. asks
        BY <1>t
      <3>2. \A j \in timers : j \in 1 .. asks
        BY <1>t
      <3>3. QED
        BY <2>1, <3>1, <3>2, Zenon
    <2>3. Out \subseteq 1 .. asks
      BY <2>2
    <2>4. /\ ~asking => \A j \in Out : asks - j < late
          /\ asking /\ raise = NoRaise => \A j \in Out : asks - j <= late
          /\ asking /\ raise # NoRaise =>
               asks - raise.ask <= late /\ \A j \in Out : raise.ask < j
      BY Zenon DEF Measured
    <2>5. QED
      BY <2>3, <2>4, Zenon
  <1>0. ASSUME UNCHANGED raiseVars, showing' = showing \/ showing'.observe = 0
        PROVE  Measured'
    <2>1. Out' \subseteq Out /\ showing'.observe \in 0 .. asks
      BY <1>0, <1>t DEF Out, raiseVars
    <2>2. showing'.observe # 0 => \A j \in timers : j < showing'.observe
      BY <1>0, <1>t
    <2>3. QED
      BY <1>t, <1>o, <1>0, <2>1, <2>2 DEF Measured, raiseVars
  <1>1. CASE UNCHANGED windowVars
    BY <1>0, <1>1 DEF windowVars, raiseVars
  <1>2. CASE ParkShow /\ UNCHANGED <<window, paintVars, visible, sheet, toast, raiseVars>>
    BY <1>0, <1>2 DEF ParkShow, RequestShow, Show
  <1>3. CASE \/ /\ WindowHears \/ UNCHANGED repaint
                /\ UNCHANGED <<window, painted, open, showing, visible, sheet, toast, raiseVars>>
             \/ InstallWindow \/ GtkFails \/ WindowGoes \/ HideWindow
             \/ \E kind \in Kinds, r \in Requests : ToggleSection(kind, r)
             \/ ListenToQueue \/ RefreshWindow
    BY <1>0, <1>3
    DEF InstallWindow, GtkFails, WindowGoes, HideWindow, ToggleSection, ListenToQueue, RefreshWindow
  <1>4. CASE AskOpen
    <2>1. /\ asks < MaxAsks /\ asks' = asks + 1 /\ raise' = NoRaise /\ timers' = timers
          /\ showing'.observe = asks' /\ ~asking /\ asking' = TRUE /\ late' = late
      BY <1>4 DEF AskOpen, RequestShow, Show
    <2>2. asks' \in 0 .. MaxAsks /\ late' < asks' /\ timers' \subseteq 1 .. asks'
      BY <1>t, <2>1
    <2>3. \A j \in timers' : j < showing'.observe
      BY <1>t, <2>1
    <2>4. \A j \in Out' : j \in Out \/ j = asks'
      BY <2>1 DEF Out
    <2>5. \A j \in Out' : asks' - j <= late'
      <3> SUFFICES ASSUME NEW j \in Out' PROVE asks' - j <= late'
        OBVIOUS
      <3>1. CASE j \in Out
        <4>1. j \in Nat /\ asks - j < late
          BY <1>t, <1>o, <2>1, <3>1
        <4>2. QED
          BY <1>t, <2>1, <4>1
      <3>2. CASE j = asks'
        BY <1>t, <2>1, <3>2
      <3>3. QED
        BY <2>4, <3>1, <3>2
    <2>6. NoRaise \in [result : {"none", "focused", "unfocused"}, ask : 0 .. MaxAsks]
      BY <1>t DEF NoRaise
    <2>7. QED
      BY <1>t, <2>1, <2>2, <2>3, <2>5, <2>6 DEF Measured
  <1>5. CASE DrainShow
    <2>1. /\ showing' = NoShow /\ UNCHANGED <<asks, raise, asking, late>>
          /\ timers' = (timers \cup {showing.observe}) \ {0}
      BY <1>5 DEF DrainShow
    <2>2. showing'.observe = 0 /\ Out' = Out
      BY <2>1 DEF NoShow, Out
    <2>3. timers' \subseteq 1 .. asks'
      <3>1. showing.observe # 0 => showing.observe \in 1 .. asks
        BY <1>t
      <3>2. \A j \in timers' : j \in timers \/ (j = showing.observe /\ j # 0)
        BY <2>1
      <3>3. QED
        BY <1>t, <2>1, <3>1, <3>2
    <2>4. QED
      BY <1>t, <1>o, <2>1, <2>2, <2>3 DEF Measured
  <1>6. ASSUME NEW result \in {"focused", "unfocused"}, Measure(result) PROVE Measured'
    <2>1. PICK k \in timers :
            /\ \A j \in timers : k <= j
            /\ timers' = timers \ {k}
            /\ raise'  = [result |-> result, ask |-> k]
      BY <1>6 DEF Measure
    <2>2. UNCHANGED <<showing, asks, asking, late>>
      BY <1>6 DEF Measure
    <2>3. /\ k \in Out /\ Out' \subseteq Out /\ timers' \subseteq timers
          /\ \A j \in Out' : k < j
      BY <1>t, <2>1, <2>2 DEF Out
    <2>4. asking => asks - k <= late
      BY <1>t, <1>o, <2>3
    <2>5. k \in 0 .. MaxAsks /\ raise' \in [result : {"none", "focused", "unfocused"}, ask : 0 .. MaxAsks]
      BY <1>t, <2>1
    <2>6. raise' # NoRaise /\ raise'.ask = k
      BY <1>6, <2>1 DEF NoRaise
    <2>7. QED
      BY <1>t, <1>o, <2>1, <2>2, <2>3, <2>4, <2>5, <2>6 DEF Measured
  <1>7. CASE OpenAnswered
    <2>1. asking /\ raise # NoRaise /\ asking' = FALSE /\ UNCHANGED <<showing, timers, raise, asks, late>>
      BY <1>7 DEF OpenAnswered
    <2>2. Out' = Out /\ \A j \in Out : asks - j < late
      BY <1>t, <1>o, <2>1 DEF Out
    <2>3. QED
      BY <1>t, <2>1, <2>2 DEF Measured
  <1>8. CASE OpenTimesOut
    <2>1. /\ asking /\ raise = NoRaise /\ asking' = FALSE /\ late' = late + 1
          /\ UNCHANGED <<showing, timers, raise, asks>>
      BY <1>8 DEF OpenTimesOut
    <2>2. Out' = Out /\ \A j \in Out : asks - j < late'
      BY <1>t, <1>o, <2>1 DEF Out
    <2>3. QED
      BY <1>t, <2>1, <2>2 DEF Measured
  <1>9. QED
    BY <1>1, <1>2, <1>3, <1>4, <1>5, <1>6, <1>7, <1>8 DEF WindowMove, WindowStep

(* Sections follow their cards. *)
SectionsMove ==
  /\ \A s \in open \ open' :
       s[2] \notin painted'.pending \cup painted'.recent \/ painted' = painted
  /\ \A s \in open' : s[2] \in painted'.pending \cup painted'.recent

(* A section goes only with its card, or by its button. *)
LEMMA MoveSections ==
  ASSUME WindowTypes, QueueInv, Disclosed, WindowMove
  PROVE  SectionsMove
  <1>0. ASSUME UNCHANGED <<open, painted>> PROVE SectionsMove
    BY <1>0 DEF Disclosed, Cards, SectionsMove
  <1>1. CASE \/ UNCHANGED windowVars
             \/ ParkShow /\ UNCHANGED <<window, paintVars, visible, sheet, toast, raiseVars>>
             \/ /\ WindowHears \/ UNCHANGED repaint
                /\ UNCHANGED <<window, painted, open, showing, visible, sheet, toast, raiseVars>>
             \/ GtkFails \/ WindowGoes \/ HideWindow \/ AskOpen
             \/ ListenToQueue \/ (\E result \in {"focused", "unfocused"} : Measure(result))
             \/ OpenAnswered \/ OpenTimesOut
    BY <1>0, <1>1
    DEF windowVars, GtkFails, WindowGoes, HideWindow, AskOpen, ListenToQueue, Measure,
        OpenAnswered, OpenTimesOut, paintVars
  <1>2. CASE Repaint
    BY <1>2, RepaintShows DEF SectionsMove
  <1>3. ASSUME NEW kind \in Kinds, NEW r \in Requests, ToggleSection(kind, r) PROVE SectionsMove
    <2>1. /\ painted' = painted /\ r \in painted.pending \cup painted.recent
          /\ \/ open' = open \ {<<kind, r>>}
             \/ open' = open \cup {<<kind, r>>}
      BY <1>3 DEF ToggleSection, Cards
    <2>2. <<kind, r>>[2] = r
      OBVIOUS
    <2>3. QED
      BY <2>1, <2>2 DEF SectionsMove, Disclosed, Cards
  <1>4. CASE DrainShow
    <2>1. Repaint \/ UNCHANGED <<open, painted>>
      BY <1>4 DEF DrainShow, paintVars
    <2>2. QED
      BY <1>0, <1>2, <2>1
  <1>5. QED
    BY <1>1, <1>2, <1>3, <1>4 DEF WindowMove, WindowStep, InstallWindow, RefreshWindow

(* What the window is told of the queue. *)
LEMMA WindowIsTold ==
  ASSUME NoteTypes, [DesktopNext]_desktopVars, ~(\E c \in unheard : ListenersHear(c)),
         ~WindowMoves, ~WindowLife, ~WindowUser
  PROVE  /\ UNCHANGED <<window, painted, repaint>>
         /\ \/ Pending' = Pending /\ UNCHANGED <<unheard, missed>>
            \/ \E kind, r : Changed(kind, r)
  <1>1. CASE BannerAction
    <2>1. UNCHANGED <<window, painted, repaint>>
      BY <1>1 DEF BannerAction
    <2>2. signals \in Seq(Signals) /\ byNote \in [Notes -> Requests \cup {NoRequest}]
      BY DEF NoteTypes
    <2>3. signals # <<>> => Head(signals) \in Signals
      BY <2>2
    <2>4. signals # <<>> => Head(signals).note \in Notes
      BY <2>3 DEF Signals
    <2>5. \/ UNCHANGED <<queueVars, unheard, missed>>
          \/ \E v \in Verdicts :
               /\ byNote[Head(signals).note] \in Requests
               /\ ResolveOrIgnore(byNote[Head(signals).note], v)
      BY <1>1, <2>2, <2>4, BannerResolves
    <2>6. QED
      BY <2>1, <2>5 DEF ResolveOrIgnore, queueVars, Pending
  <1>2. ASSUME NEW r \in Requests, NEW v \in Verdicts,
               ApproveElsewhere(r, v) \/ TrayResolves(r, v) \/ WindowResolves(r, v)
        PROVE  /\ UNCHANGED <<window, painted, repaint>>
               /\ \/ Pending' = Pending /\ UNCHANGED <<unheard, missed>>
                  \/ \E kind, q : Changed(kind, q)
    BY <1>2
    DEF ApproveElsewhere, TrayResolves, WindowResolves, ResolveOrIgnore, windowVars, queueVars, Pending
  <1>3. ASSUME NEW r \in Requests, SubmitRequest(r)
        PROVE  UNCHANGED <<window, painted, repaint>> /\ Changed("submit", r)
    BY <1>3 DEF SubmitRequest, windowVars
  <1>4. CASE CancelPending
    <2>1. UNCHANGED <<window, painted, repaint>> /\ Pending' = {}
      BY <1>4, OwnId DEF CancelPending, CancelAll, Pending, windowVars
    <2>2. QED
      BY <1>4, <2>1 DEF CancelPending
  <1>5. CASE \/ \E r \in Requests : WorkerNotifies(r) \/ TrayOpens(r)
             \/ TrayOpens(NoRequest)
             \/ AskToQuit \/ TrayGoes \/ NotifierGoes \/ JobsMoves \/ (SignalsMove /\ ~BannerAction)
             \/ NamesMove \/ SessionMoves \/ TrayMoves \/ UNCHANGED desktopVars
    <2>1. UNCHANGED <<window, painted, repaint, entries, unheard, missed>>
      BY <1>5
      DEF WorkerNotifies, TrayOpens, AskToQuit, TrayGoes, NotifierGoes, JobsMoves, SignalsMove,
          NamesMove, SessionMoves, TrayMoves, desktopVars, queueVars, windowVars, paintVars, coreVars
    <2>2. QED
      BY <2>1 DEF Pending
  <1>6. QED
    BY <1>1, <1>2, <1>3, <1>4, <1>5 DEF DesktopNext

(* Every step keeps the window told. *)
LEMMA StepWindowFollows ==
  ASSUME NoteTypes, ChangeTypes, QueueInv, WindowInv, [DesktopNext]_desktopVars
  PROVE  missed' \in BOOLEAN /\ WindowFollows'
  <1>t. WindowTypes /\ missed \in BOOLEAN /\ repaint \in BOOLEAN
    BY DEF WindowInv, WindowTypes
  <1>f. window \in {"installed", "listening"} /\ ~missed =>
          \/ painted.pending = Pending
          \/ window = "listening" /\ (repaint \/ \E c \in unheard : c.window)
    BY DEF WindowInv, WindowFollows
  <1>1. ASSUME NEW c \in unheard, ListenersHear(c) PROVE missed' \in BOOLEAN /\ WindowFollows'
    <2>1. /\ UNCHANGED <<window, painted, missed, entries>>
          /\ unheard' = unheard \ {c}
          /\ repaint' = IF c.window THEN repaint \/ window = "listening" ELSE repaint
      BY <1>1 DEF ListenersHear, CallListeners, WindowHears, Deliver, queueVars
    <2>2. Pending' = Pending
      BY <2>1 DEF Pending
    <2>3. c.window \in BOOLEAN
      BY DEF ChangeTypes
    <2>4. SUFFICES ASSUME window \in {"installed", "listening"}, ~missed, painted.pending # Pending
                   PROVE  window = "listening" /\ (repaint' \/ \E d \in unheard' : d.window)
      BY <1>t, <2>1, <2>2 DEF WindowFollows
    <2>5. QED
      BY <1>f, <2>1, <2>3, <2>4
  <1>2. CASE WindowMoves
    <2>1. missed' = (missed /\ painted'.pending # Pending) /\ UNCHANGED <<entries, unheard>> /\ WindowStep
      BY <1>2 DEF WindowMoves, queueVars
    <2>2. Pending' = Pending
      BY <2>1 DEF Pending
    <2>3. \/ painted'.pending = Pending
          \/ UNCHANGED <<painted, repaint>> /\ (window' = window \/ window = "installed")
      BY <1>t, <2>1, RepaintShows
      DEF WindowStep, ListenToQueue, RefreshWindow, DrainShow, Measure, OpenAnswered, OpenTimesOut,
          paintVars
    <2>4. CASE painted'.pending = Pending
      BY <1>t, <2>1, <2>2, <2>4 DEF WindowFollows
    <2>5. CASE painted'.pending # Pending
      <3>1. missed' = missed /\ UNCHANGED <<painted, repaint>>
        BY <1>t, <2>1, <2>3, <2>5
      <3>2. WindowFollows'
        BY <1>f, <2>1, <2>2, <2>3, <2>5, <3>1 DEF WindowFollows
      <3>3. QED
        BY <1>t, <3>1, <3>2
    <2>6. QED
      BY <2>4, <2>5
  <1>3. CASE WindowLife \/ WindowUser
    <2>1. UNCHANGED <<entries, unheard, missed>>
      BY <1>3 DEF WindowLife, WindowUser, coreVars, queueVars
    <2>2. Pending' = Pending
      BY <2>1 DEF Pending
    <2>3. CASE InstallWindow
      <3>1. painted'.pending = Pending
        BY <1>t, <2>3, RepaintShows DEF InstallWindow
      <3>2. QED
        BY <1>t, <2>1, <2>2, <3>1 DEF WindowFollows
    <2>4. CASE GtkFails \/ WindowGoes
      BY <1>t, <2>1, <2>4 DEF GtkFails, WindowGoes, WindowFollows
    <2>5. CASE AskOpen \/ HideWindow \/ \E kind \in setup.sections, r \in Requests : ToggleSection(kind, r)
      <3>1. UNCHANGED <<window, painted, repaint>>
        BY <2>5 DEF AskOpen, HideWindow, ToggleSection, paintVars
      <3>2. QED
        BY <1>f, <1>t, <2>1, <2>2, <3>1 DEF WindowFollows
    <2>6. QED
      BY <1>3, <2>3, <2>4, <2>5 DEF WindowLife, WindowUser
  <1>4. CASE /\ ~(\E c \in unheard : ListenersHear(c))
             /\ ~WindowMoves /\ ~WindowLife /\ ~WindowUser
    <2>1. /\ UNCHANGED <<window, painted, repaint>>
          /\ \/ Pending' = Pending /\ UNCHANGED <<unheard, missed>>
             \/ \E kind, r : Changed(kind, r)
      BY <1>4, WindowIsTold
    <2>2. CASE Pending' = Pending /\ UNCHANGED <<unheard, missed>>
      BY <1>f, <1>t, <2>1, <2>2 DEF WindowFollows
    <2>3. ASSUME NEW kind, NEW r, Changed(kind, r) PROVE missed' \in BOOLEAN /\ WindowFollows'
      <3>1. /\ missed' = (missed \/ window = "installed")
            /\ Change(kind, r) \in unheard'
            /\ Change(kind, r).window = (window = "listening")
        BY <2>3 DEF Changed, Change
      <3>2. QED
        BY <1>t, <2>1, <3>1 DEF WindowFollows
    <2>4. QED
      BY <2>1, <2>2, <2>3
  <1>5. QED
    BY <1>1, <1>2, <1>3, <1>4

-----------------------------------------------------------------------------
(* The session: its queue, its banners, its tray and its window.           *)
DesktopInv == MapInv /\ TrayInv /\ WindowInv

(* All of it holds in every state of every session. *)
THEOREM DesktopInvariant == DesktopSpec => []DesktopInv
  <1>1. DesktopInit => DesktopInv
    BY InitMap, InitTray, InitWindow DEF DesktopInv
  <1>2. DesktopInv /\ [DesktopNext]_desktopVars => DesktopInv'
    <2> SUFFICES ASSUME DesktopInv, [DesktopNext]_desktopVars PROVE DesktopInv'
      OBVIOUS
    <2>1. MapInv /\ NoteTypes /\ ChangeTypes /\ QueueInv /\ TrayInv /\ WindowInv
      BY DEF DesktopInv, MapInv, OnceInv
    <2>2. WindowTypes /\ Measured /\ Disclosed
      BY <2>1 DEF WindowInv
    <2>3. WindowMove
      BY <2>1, StepMovesWindow
    <2>4. missed' \in BOOLEAN /\ WindowFollows'
      BY <2>1, StepWindowFollows
    <2>5. WindowTypes' /\ Measured'
      BY <2>1, <2>2, <2>3, <2>4, MoveWindowTypes, MoveMeasured
    <2>6. Disclosed'
      BY <2>1, <2>2, <2>3, MoveSections DEF SectionsMove, Disclosed, Cards
    <2>7. MapInv' /\ TrayInv'
      BY <2>1, StepMap, StepTray
    <2>8. QED
      BY <2>4, <2>5, <2>6, <2>7 DEF DesktopInv, WindowInv
  <1>3. QED
    BY <1>1, <1>2, PTL DEF DesktopSpec

(* The types of all three surfaces: no more tokens are parked than there   *)
(* may be, no request has two banners, and no server is asked for an id    *)
(* there is no request for.                                                *)
THEOREM DesktopTypes == DesktopSpec => []DesktopTypeOK
  <1>1. DesktopInv => NotifierTypeOK
    <2> SUFFICES ASSUME DesktopInv PROVE NotifierTypeOK
      OBVIOUS
    <2>1. NoteTypes /\ OneBanner
      BY DEF DesktopInv, MapInv, OnceInv
    <2>2. \A r \in Requests : Cardinality({n \in Notes : screen[n].req = r}) <= 1
      <3>1. SUFFICES ASSUME NEW r \in Requests
                     PROVE  Cardinality({n \in Notes : screen[n].req = r}) <= 1
        OBVIOUS
      <3>2. CASE {n \in Notes : screen[n].req = r} = {}
        BY <3>2, FS_EmptySet
      <3>3. ASSUME NEW m \in Notes, screen[m].req = r
            PROVE  Cardinality({n \in Notes : screen[n].req = r}) <= 1
        <4>1. {n \in Notes : screen[n].req = r} = {m}
          BY <2>1, <3>3, OwnId DEF OneBanner
        <4>2. Cardinality({m}) = 1
          BY FS_Singleton
        <4>3. QED
          BY <4>1, <4>2
      <3>4. QED
        BY <3>2, <3>3
    <2>3. QED
      BY <2>1, <2>2 DEF NoteTypes, NotifierTypeOK, JobTypes
  <1>2. DesktopInv => TrayTypeOK
    BY DEF DesktopInv, TrayInv, TrayTypes, TrayTypeOK, Waiting, Ended, Publishing
  <1>3. DesktopInv => WindowTypeOK
    <2> SUFFICES ASSUME DesktopInv PROVE WindowTypeOK
      OBVIOUS
    <2>1. WindowTypes /\ Measured
      BY DEF DesktopInv, WindowInv
    <2>2. timers \subseteq 1 .. MaxAsks /\ late \in 0 .. MaxAsks
      BY <2>1, WindowAssumption DEF Measured
    <2>3. QED
      BY <2>1, <2>2 DEF WindowTypes, Measured, WindowTypeOK, Kinds, Carded, Pickers
  <1>4. DesktopInv => ChangeTypes
    BY DEF DesktopInv, MapInv, OnceInv
  <1>5. DesktopInv => DesktopTypeOK
    BY <1>1, <1>2, <1>3, <1>4 DEF ChangeTypes, DesktopTypeOK
  <1>6. QED
    BY <1>5, DesktopInvariant, PTL

(* However a change, a snapshot, a publication and a repaint interleave,   *)
(* the menu and the cards are those of the queue once all has been heard.  *)
THEOREM SurfacesFollow == DesktopSpec => []SurfacesCatchUp
  <1>1. DesktopInv => SurfacesCatchUp
    <2> SUFFICES ASSUME DesktopInv PROVE SurfacesCatchUp
      OBVIOUS
    <2>1. TrayCatchesUp(unheard # {})
      BY TrayPlaces
      DEF DesktopInv, TrayInv, TrayTypes, TrayFollows, TrayCatchesUp, Pending
    <2>2. WindowCatchesUp(unheard # {}, missed)
      BY DEF DesktopInv, WindowInv, WindowFollows, WindowCatchesUp
    <2>3. QED
      BY <2>1, <2>2 DEF SurfacesCatchUp
  <1>2. QED
    BY <1>1, DesktopInvariant, PTL

(* `vet daemon open` answers with a measurement that is behind by no more  *)
(* questions than were given up before, for any number of questions and    *)
(* whatever else raises the window: with the measurement of its own        *)
(* present, as long as no question timed out.                              *)
THEOREM RaiseAnswersBounded == DesktopSpec => []RaiseAnswerBounded
  <1>1. DesktopInv => RaiseAnswerBounded
    BY DEF DesktopInv, WindowInv, Measured, RaiseAnswerBounded
  <1>2. QED
    BY <1>1, DesktopInvariant, PTL

(* An open section stays open with its card and goes with it. *)
THEOREM SectionsStay == DesktopSpec => SectionsFollowCards
  <1>1. DesktopInv /\ [DesktopNext]_desktopVars => SectionsMove
    <2> SUFFICES ASSUME DesktopInv, [DesktopNext]_desktopVars PROVE SectionsMove
      OBVIOUS
    <2>1. ChangeTypes /\ WindowTypes /\ QueueInv /\ Disclosed
      BY DEF DesktopInv, MapInv, OnceInv, WindowInv
    <2>2. QED
      BY <2>1, StepMovesWindow, MoveSections
  <1>2. QED
    BY <1>1, DesktopInvariant, PTL DEF DesktopSpec, SectionsFollowCards, SectionsMove
=============================================================================
