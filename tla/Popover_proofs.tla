--------------------------- MODULE Popover_proofs ---------------------------
(***************************************************************************)
(* The macOS surfaces around the pending queue, for every set of requests, *)
(* every history and every kind of session.                                *)
(*                                                                         *)
(* What is on screen follows the queue because a change is never without a *)
(* listener about to run, a repaint waiting or a screen that shows it      *)
(* (Follows).  That a banner that was up when its request was decided here *)
(* does not come back needs that a request is posted at most once          *)
(* (PostedOnce).  That a click acts on its own card needs that every       *)
(* button's number is that of its card in the registry it counts in        *)
(* (Drawn), and that a repaint tears out the button that is being held.    *)
(***************************************************************************)
EXTENDS Popover, PendingQueue_proofs, FiniteSetTheorems

Blocks  == [op : {"refresh", "stop", "post", "remove", "report"} \cup Responses,
            reqs : SUBSET Requests]
Changes == [kind : {"submit", "auto", "resolve", "cancel"}, req : Requests \cup {NoRequest},
            here : BOOLEAN, heard : BOOLEAN]
Shown   == Requests \cup Past \cup {NoRequest}
Kinds   == {"allowlist", "trust", "revoke", "note", "report"}
Alerts  == [kind : Kinds, req : Shown, fromBlock : BOOLEAN]
Buttons == [kind : {"none", "approve", "reject", "allowlist", "trust", "revoke"}, tag : Nat,
            req : Shown, torn : BOOLEAN]
Jobs    == [kind : Kinds, req : Shown, approved : SUBSET Requests]

QueueTypes ==
  /\ app \in {"launching", "listening", "running", "stopped", "cancelled"}
  /\ mainQueue \in Seq(Blocks)
  /\ \A k \in 1 .. Len(mainQueue) : mainQueue[k].op \in Responses => mainQueue[k].reqs # {}
  /\ changed \subseteq Changes
  /\ \A c \in changed : /\ c.kind # "cancel" => c.req \in Requests
                        /\ c.here => c.heard /\ c.kind = "resolve"
  /\ toPost \subseteq Requests
  /\ banners \subseteq Requests
  /\ settled \subseteq Requests

UserTypes ==
  /\ alerts \in Seq(Alerts)
  /\ jobs \subseteq Jobs
  /\ \A j \in jobs : j.kind # "allowlist" => j.approved = {}
  /\ pressed \in Buttons

(* The registries name what the cards show. *)
Drawn ==
  /\ cardIds \in Seq(Requests)
  /\ pickerIds \in Seq(Shown)
  /\ targets \in Seq(Shown)
  /\ \A k \in DOMAIN cards :
       /\ k \in Nat /\ cards[k].req \in Shown
       /\ cards[k].outcome = "pending" => k \in DOMAIN cardIds /\ cardIds[k] = cards[k].req
       /\ cards[k].outcome # "deny" => k \in DOMAIN pickerIds /\ pickerIds[k] = cards[k].req
       /\ cards[k].byRule => k \in DOMAIN targets /\ targets[k] = cards[k].req

(* A button that is held names its own card, unless it was torn out. *)
HeldTrue == pressed # NoButton /\ ~pressed.torn => Target = pressed.req

(* Badge and cards are those of the queue. *)
ScreenTrue ==
  /\ badge = Cardinality(Pending)
  /\ {cardIds[k] : k \in DOMAIN cardIds} = Pending
  /\ SubSeq(cards, Len(cardIds) + 1, Len(cards)) =
       [k \in DOMAIN resolved |-> RecentCard(resolved[k])]

Follows ==
  app = "running" =>
    \/ \E c \in changed : c.heard
    \/ \E k \in 1 .. Len(mainQueue) : mainQueue[k] = Refresh
    \/ ScreenTrue

(* Where a request is on its way to its banner. *)
Submitted(c, r) == c \in changed /\ c.kind = "submit" /\ c.req = r
Posting(k, r) == k \in 1 .. Len(mainQueue) /\ mainQueue[k].op = "post" /\ r \in mainQueue[k].reqs
Posted(r) == r \in banners \cup settled

PostedOnce ==
  \A r \in Requests :
    /\ \A c, d \in changed : Submitted(c, r) /\ Submitted(d, r) => c = d
    /\ \A k, l \in 1 .. Len(mainQueue) : Posting(k, r) /\ Posting(l, r) => k = l
    /\ \A c \in changed : Submitted(c, r) =>
         calls[r] # "none" /\ r \notin toPost /\ ~Posted(r)
    /\ \A k \in 1 .. Len(mainQueue) : Posting(k, r) =>
         calls[r] # "none" /\ r \notin toPost /\ ~Posted(r) /\ (\A c \in changed : ~Submitted(c, r))
    /\ r \in toPost => calls[r] # "none" /\ ~Posted(r)
    /\ Posted(r) => calls[r] # "none"

(* A banner whose request was decided here is about to go. *)
Going == \A r \in settled \cap banners : Announced(r)

PopoverInv ==
  /\ QueueInv /\ QueueTypes /\ UserTypes /\ Drawn /\ HeldTrue /\ Follows /\ PostedOnce /\ Going

(* The number of pending requests is a number. *)
LEMMA PendingCount ==
  /\ Pending \subseteq Requests
  /\ Cardinality(Pending) \in Nat
  <1>1. Pending \subseteq Requests
    BY DEF Pending
  <1>2. QED
    BY <1>1, PopoverAssumption, FS_Subset, FS_CardinalityType

(* What a slot names. *)
LEMMA SlotNames ==
  ASSUME NEW T, NEW registry \in Seq(T), NEW tag
  PROVE  Slot(registry, tag) \in T \cup {NoRequest}
  BY DEF Slot

(* A target is a request, of this run when it is to be decided. *)
LEMMA TargetNames ==
  ASSUME Drawn, Target # NoRequest
  PROVE  /\ Target \in Shown
         /\ pressed.kind \in {"approve", "reject"} => Target \in Requests
  <1>1. /\ Slot(cardIds, pressed.tag) \in Requests \cup {NoRequest}
        /\ Slot(pickerIds, pressed.tag) \in Shown \cup {NoRequest}
        /\ Slot(targets, pressed.tag) \in Shown \cup {NoRequest}
    BY SlotNames DEF Drawn
  <1>2. QED
    BY <1>1 DEF Target, Shown

-----------------------------------------------------------------------------
(* The queue.                                                              *)

(* A decision made here is a step of the queue or none. *)
LEMMA ResolvesHere ==
  ASSUME NEW r \in Requests, NEW v \in {"allow", "deny"}, ResolveHere(r, v)
  PROVE  [QueueNext]_queueVars
  BY PopoverAssumption, QueueAssumption DEF ResolveHere, QueueNext

(* So is what a click comes to. *)
LEMMA ClickQueue ==
  ASSUME Drawn, Click
  PROVE  [QueueNext]_queueVars
  <1>1. CASE pressed.kind \in {"approve", "reject"}
    <2>1. ResolveHere(Target, IF pressed.kind = "approve" THEN "allow" ELSE "deny")
      BY <1>1 DEF Click
    <2>2. Target \in Requests
      BY <1>1, TargetNames DEF Click
    <2>3. QED
      BY <2>1, <2>2, ResolvesHere
  <1>2. CASE pressed.kind \notin {"approve", "reject"}
    BY <1>2 DEF Click
  <1>3. QED
    BY <1>1, <1>2

(* And every block the main thread runs. *)
LEMMA BlockQueue ==
  ASSUME RunBlock
  PROVE  [QueueNext]_queueVars
  <1>1. CASE RunPaint \/ RunBanners \/ RunReport \/ RunStop
    BY <1>1 DEF RunPaint, RunBanners, RunReport, RunStop
  <1>2. CASE RunResponse
    <2>1. UNCHANGED queueVars \/ \E r \in Pending, v \in {"allow", "deny"} : Resolve(IdOf[r], v)
      BY <1>2 DEF RunResponse
    <2>2. QED
      BY <2>1, PendingCount, PopoverAssumption, QueueAssumption DEF QueueNext
  <1>3. QED
    BY <1>1, <1>2 DEF RunBlock

(* Whatever the surfaces do, they use the queue as it allows. *)
LEMMA StepQueue ==
  ASSUME QueueTypes, Drawn, [PopoverNext]_<<queueVars, popoverVars>>
  PROVE  [QueueNext]_queueVars
  <1>1. CASE \E r \in Requests : SubmitRequest(r) \/ NotifyWorker(r)
    BY <1>1 DEF SubmitRequest, NotifyWorker, QueueNext
  <1>2. ASSUME NEW r \in Requests, NEW v \in Verdicts, RuledByStore(r, v) \/ ApproveElsewhere(r, v)
        PROVE  [QueueNext]_queueVars
    BY <1>2, QueueAssumption DEF RuledByStore, ApproveElsewhere, QueueNext
  <1>3. CASE \E rows \in PastTails : WarmHistory(rows)
    BY <1>3 DEF WarmHistory, QueueNext
  <1>4. ASSUME NEW c \in changed, ListenerRuns(c) PROVE [QueueNext]_queueVars
    <2>1. c.kind = "resolve" => c.req \in Requests
      BY DEF QueueTypes
    <2>2. QED
      BY <1>4, <2>1 DEF ListenerRuns, QueueNext
  <1>5. CASE SetListener \/ FirstPaint \/ Press \/ LetGo \/ TogglePopover
    BY <1>5 DEF SetListener, FirstPaint, Press, LetGo, TogglePopover
  <1>6. CASE Click
    BY <1>6, ClickQueue
  <1>7. CASE \E r \in Requests, op \in Responses : ClickBanner(r, op)
    BY <1>7 DEF ClickBanner
  <1>8. CASE RunBlock
    BY <1>8, BlockQueue
  <1>9. CASE AnswerAlert \/ AskToQuit \/ ObserverSees \/ \E j \in jobs : JobEnds(j)
    BY <1>9 DEF AnswerAlert, AskToQuit, ObserverSees, JobEnds
  <1>10. ASSUME NEW j \in jobs, NEW r \in Requests, SweepApproves(j, r) PROVE [QueueNext]_queueVars
    BY <1>10, PopoverAssumption, QueueAssumption DEF SweepApproves, QueueNext
  <1>11. CASE LoopReturned
    BY <1>11 DEF LoopReturned, QueueNext
  <1>12. QED
    BY <1>1, <1>2, <1>3, <1>4, <1>5, <1>6, <1>7, <1>8, <1>9, <1>10, <1>11 DEF PopoverNext

-----------------------------------------------------------------------------
(* The main dispatch queue.                                                *)

(* It loses its first block or none, and more wait at its end.             *)
Answerable(q) == \A k \in 1 .. Len(q) : q[k].op \in Responses => q[k].reqs # {}
QueueMove(more) ==
  \/ mainQueue' = mainQueue \o more
  \/ mainQueue # <<>> /\ mainQueue' = Tail(mainQueue) \o more

(* Where the blocks of the queue are after such a move. *)
LEMMA MoveBlocks ==
  ASSUME QueueTypes, NEW more \in Seq(Blocks), QueueMove(more)
  PROVE  /\ mainQueue' \in Seq(Blocks)
         /\ \A k \in 1 .. Len(mainQueue') :
              \/ \E i \in 1 .. Len(mainQueue) : mainQueue'[k] = mainQueue[i]
              \/ \E i \in 1 .. Len(more) : mainQueue'[k] = more[i]
         /\ \A i \in 1 .. Len(more) : \E k \in 1 .. Len(mainQueue') : mainQueue'[k] = more[i]
         /\ \A i \in 1 .. Len(mainQueue) :
              \/ i = 1 /\ mainQueue' # mainQueue \o more
              \/ \E k \in 1 .. Len(mainQueue') : mainQueue'[k] = mainQueue[i]
         /\ \E d \in {0, 1} : \A k \in 1 .. Len(mainQueue') :
              \/ k + d \in 1 .. Len(mainQueue) /\ mainQueue'[k] = mainQueue[k + d]
              \/ k + d > Len(mainQueue) /\ \E i \in 1 .. Len(more) : mainQueue'[k] = more[i]
  <1>1. mainQueue \in Seq(Blocks)
    BY DEF QueueTypes
  <1> DEFINE Facts(d) ==
        /\ mainQueue' \in Seq(Blocks)
        /\ Len(mainQueue') = Len(mainQueue) + Len(more) - d
        /\ \A k \in 1 .. Len(mainQueue') :
             mainQueue'[k] = IF k + d <= Len(mainQueue) THEN mainQueue[k + d]
                             ELSE more[k + d - Len(mainQueue)]
  <1>2. (mainQueue' = mainQueue \o more /\ Facts(0))
        \/ (mainQueue # <<>> /\ mainQueue' # mainQueue \o more /\ Facts(1))
    <2>1. CASE mainQueue' = mainQueue \o more
      BY <1>1, <2>1
    <2>2. CASE mainQueue # <<>> /\ mainQueue' = Tail(mainQueue) \o more
      <3>1. /\ Tail(mainQueue) \in Seq(Blocks) /\ Len(Tail(mainQueue)) = Len(mainQueue) - 1
            /\ \A k \in 1 .. Len(mainQueue) - 1 : Tail(mainQueue)[k] = mainQueue[k + 1]
        BY <1>1, <2>2
      <3>2. Facts(1)
        BY <1>1, <2>2, <3>1
      <3>3. Len(mainQueue \o more) = Len(mainQueue) + Len(more)
        BY <1>1
      <3>4. QED
        BY <1>1, <2>2, <3>2, <3>3
    <2>3. QED
      BY <2>1, <2>2 DEF QueueMove
  <1>3. PICK d \in {0, 1} : Facts(d) /\ (d = 1 => mainQueue # <<>> /\ mainQueue' # mainQueue \o more)
    BY <1>2
  <1>4. Len(mainQueue) \in Nat /\ Len(more) \in Nat /\ (d = 1 => Len(mainQueue) >= 1)
    BY <1>1, <1>3
  <1>5. \A k \in 1 .. Len(mainQueue') :
          \/ k + d \in 1 .. Len(mainQueue) /\ mainQueue'[k] = mainQueue[k + d]
          \/ /\ k + d > Len(mainQueue)
             /\ k + d - Len(mainQueue) \in 1 .. Len(more)
             /\ mainQueue'[k] = more[k + d - Len(mainQueue)]
    BY <1>3, <1>4
  <1>6. \A i \in 1 .. Len(more) : LET k == Len(mainQueue) - d + i IN
          k \in 1 .. Len(mainQueue') /\ mainQueue'[k] = more[i]
    <2> SUFFICES ASSUME NEW i \in 1 .. Len(more), NEW k, k = Len(mainQueue) - d + i
                 PROVE  k \in 1 .. Len(mainQueue') /\ mainQueue'[k] = more[i]
      BY Zenon
    <2>1. k \in 1 .. Len(mainQueue') /\ ~(k + d <= Len(mainQueue)) /\ k + d - Len(mainQueue) = i
      BY <1>3, <1>4
    <2>2. QED
      BY <1>3, <2>1
  <1>7. \A i \in 1 .. Len(mainQueue) :
          \/ i = 1 /\ mainQueue' # mainQueue \o more
          \/ i - d \in 1 .. Len(mainQueue') /\ mainQueue'[i - d] = mainQueue[i]
    BY <1>3, <1>4
  <1>8. QED
    BY <1>3, <1>5, <1>6, <1>7

(* Its answers stay answers to something. *)
LEMMA MoveTypes ==
  ASSUME QueueTypes, NEW more \in Seq(Blocks), QueueMove(more), Answerable(more)
  PROVE  mainQueue' \in Seq(Blocks) /\ Answerable(mainQueue')
  <1>1. mainQueue' \in Seq(Blocks)
    BY MoveBlocks
  <1>2. ASSUME NEW k \in 1 .. Len(mainQueue'), mainQueue'[k].op \in Responses
        PROVE  mainQueue'[k].reqs # {}
    <2>1. \/ \E i \in 1 .. Len(mainQueue) : mainQueue'[k] = mainQueue[i]
          \/ \E i \in 1 .. Len(more) : mainQueue'[k] = more[i]
      BY MoveBlocks
    <2>2. QED
      BY <1>2, <2>1 DEF QueueTypes, Answerable
  <1>3. QED
    BY <1>1, <1>2 DEF Answerable

(* A list of one block. *)
LEMMA OneBlock ==
  ASSUME NEW op, NEW reqs \in SUBSET Requests,
         op \in {"refresh", "stop", "post", "remove", "report"} \cup Responses
  PROVE  /\ <<Block(op, reqs)>> \in Seq(Blocks) /\ Len(<<Block(op, reqs)>>) = 1
         /\ <<Block(op, reqs)>>[1].op = op /\ <<Block(op, reqs)>>[1].reqs = reqs
  BY DEF Block, Blocks

(* Nothing is added. *)
LEMMA NoBlocks ==
  ASSUME QueueTypes
  PROVE  /\ <<>> \in Seq(Blocks) /\ Len(<<>>) = 0 /\ Answerable(<<>>)
         /\ UNCHANGED mainQueue => mainQueue' = mainQueue \o <<>> /\ QueueMove(<<>>)
         /\ mainQueue # <<>> => Tail(mainQueue) \o <<>> = Tail(mainQueue)
  <1>1. mainQueue \in Seq(Blocks)
    BY DEF QueueTypes
  <1>2. QED
    BY <1>1 DEF QueueMove, Answerable

(* A request that is posted is posted once. *)
LEMMA PostsKept ==
  ASSUME QueueTypes, PostedOnce, NEW more \in Seq(Blocks), QueueMove(more),
         \A i \in 1 .. Len(more) : more[i].op # "post",
         \A c \in changed' : c.kind = "submit" => c \in changed,
         \A r \in toPost' : r \in toPost \/ \E c \in changed \ changed' : Submitted(c, r),
         banners' \subseteq banners, settled' \subseteq settled \cup banners,
         \A r \in Requests : calls[r] # "none" => calls'[r] # "none"
  PROVE  PostedOnce'
  <1> SUFFICES ASSUME NEW r \in Requests PROVE
    /\ \A c, d \in changed' : Submitted(c, r)' /\ Submitted(d, r)' => c = d
    /\ \A k, l \in 1 .. Len(mainQueue') : Posting(k, r)' /\ Posting(l, r)' => k = l
    /\ \A c \in changed' : Submitted(c, r)' =>
         calls'[r] # "none" /\ r \notin toPost' /\ ~Posted(r)'
    /\ \A k \in 1 .. Len(mainQueue') : Posting(k, r)' =>
         calls'[r] # "none" /\ r \notin toPost' /\ ~Posted(r)' /\ (\A c \in changed' : ~Submitted(c, r)')
    /\ r \in toPost' => calls'[r] # "none" /\ ~Posted(r)'
    /\ Posted(r)' => calls'[r] # "none"
    BY DEF PostedOnce
  <1>1. PICK e \in {0, 1} : \A k \in 1 .. Len(mainQueue') :
          \/ k + e \in 1 .. Len(mainQueue) /\ mainQueue'[k] = mainQueue[k + e]
          \/ k + e > Len(mainQueue) /\ \E i \in 1 .. Len(more) : mainQueue'[k] = more[i]
    BY MoveBlocks
  <1>2. \A k \in 1 .. Len(mainQueue') :
          Posting(k, r)' => k + e \in 1 .. Len(mainQueue) /\ Posting(k + e, r)
    BY <1>1 DEF Posting
  <1>3. \A c \in changed' : Submitted(c, r)' => c \in changed /\ Submitted(c, r)
    BY DEF Submitted
  <1>4. Posted(r)' => Posted(r)
    BY DEF Posted
  <1>5. \A k, l \in 1 .. Len(mainQueue') : Posting(k, r)' /\ Posting(l, r)' => k = l
    <2> SUFFICES ASSUME NEW k \in 1 .. Len(mainQueue'), NEW l \in 1 .. Len(mainQueue'),
                        Posting(k, r)', Posting(l, r)'
                 PROVE  k = l
      OBVIOUS
    <2>1. k + e = l + e
      BY <1>2 DEF PostedOnce
    <2>2. QED
      BY <2>1, MoveBlocks
  <1>6. QED
    BY <1>2, <1>3, <1>4, <1>5 DEF PostedOnce

(* What is announced stays so, and what is settled anew is announced. *)
LEMMA GoingKept ==
  ASSUME QueueTypes, Going, banners' \subseteq banners,
         \A r \in banners' : Announced(r) => Announced(r)',
         \A r \in settled' \cap banners' : r \notin settled => Announced(r)'
  PROVE  Going'
  BY DEF Going

(* An announcement is only used up by its block, its listener or its job. *)
LEMMA AnnouncedKept ==
  ASSUME QueueTypes, NEW more \in Seq(Blocks), QueueMove(more),
         mainQueue' = mainQueue \o more \/ Head(mainQueue).op \notin {"remove", "report"},
         \A c \in changed : c.here => c \in changed',
         \A j \in jobs : \E i \in jobs' : j.approved \subseteq i.approved
  PROVE  \A r \in Requests : Announced(r) => Announced(r)'
  <1> SUFFICES ASSUME NEW r \in Requests, Announced(r) PROVE Announced(r)'
    OBVIOUS
  <1>1. CASE \E c \in changed : c.here /\ c.req = r
    BY <1>1 DEF Announced
  <1>2. CASE \E k \in DOMAIN mainQueue : mainQueue[k].op \in {"remove", "report"} /\ r \in mainQueue[k].reqs
    <2>1. DOMAIN mainQueue = 1 .. Len(mainQueue) /\ mainQueue \in Seq(Blocks)
      BY DEF QueueTypes
    <2>2. PICK k \in 1 .. Len(mainQueue) :
            mainQueue[k].op \in {"remove", "report"} /\ r \in mainQueue[k].reqs
      BY <1>2, <2>1
    <2>3. k = 1 => Head(mainQueue) = mainQueue[k]
      BY <2>1
    <2>4. PICK l \in 1 .. Len(mainQueue') : mainQueue'[l] = mainQueue[k]
      BY <2>2, <2>3, MoveBlocks
    <2>5. l \in DOMAIN mainQueue'
      BY <2>4, MoveBlocks
    <2>6. QED
      BY <2>2, <2>4, <2>5 DEF Announced
  <1>3. CASE \E j \in jobs : r \in j.approved
    BY <1>3 DEF Announced
  <1>4. QED
    BY <1>1, <1>2, <1>3 DEF Announced

(* A screen that follows goes on following while no repaint is used up. *)
LEMMA FollowsStill ==
  ASSUME QueueTypes, Follows, NEW more \in Seq(Blocks), QueueMove(more),
         ScreenTrue => ScreenTrue',
         app' = "running" => app = "running",
         mainQueue' = mainQueue \o more \/ Head(mainQueue) # Refresh,
         \A c \in changed : c.heard => c \in changed'
  PROVE  Follows'
  <1> SUFFICES ASSUME app' = "running"
        PROVE  \/ \E c \in changed' : c.heard
               \/ \E k \in 1 .. Len(mainQueue') : mainQueue'[k] = Refresh
               \/ ScreenTrue'
    BY DEF Follows, Refresh, Block
  <1>1. ASSUME NEW k \in 1 .. Len(mainQueue), mainQueue[k] = Refresh
        PROVE  \E l \in 1 .. Len(mainQueue') : mainQueue'[l] = Refresh
    <2>1. k = 1 => Head(mainQueue) = mainQueue[k]
      BY DEF QueueTypes
    <2>2. QED
      BY <1>1, <2>1, MoveBlocks
  <1>2. QED
    BY <1>1 DEF Follows

(* One that nothing touches does. *)
LEMMA FollowsKept ==
  ASSUME QueueTypes, Follows, NEW more \in Seq(Blocks), QueueMove(more),
         UNCHANGED <<entries, calls, resolved, badge, cards, cardIds>>,
         app' = "running" => app = "running",
         mainQueue' = mainQueue \o more \/ Head(mainQueue) # Refresh,
         \A c \in changed : c.heard => c \in changed'
  PROVE  Follows'
  <1>1. ScreenTrue => ScreenTrue'
    BY DEF ScreenTrue, Pending, RecentCard, Card
  <1>2. QED
    BY <1>1, FollowsStill

(* What the main queue carries, as one. *)
MainInv == QueueTypes /\ PostedOnce /\ Going /\ Follows

(* A step that decides: what is settled by it is announced, and its        *)
(* listener will be called.                                                *)
LEMMA DecidedMain ==
  ASSUME MainInv, NEW c \in Changes, c.kind \in {"auto", "resolve"}, c.req \in Requests,
         c.here => c.heard /\ c.kind = "resolve", app = "running" => c.heard, changed' = changed \cup {c},
         NEW more \in Seq(Blocks), QueueMove(more), Answerable(more),
         \A i \in 1 .. Len(more) : more[i].op # "post",
         mainQueue' = mainQueue \o more \/ Head(mainQueue).op \notin {"remove", "report"},
         UNCHANGED <<app, toPost, banners>>,
         settled' \subseteq settled \cup ({c.req} \cap banners),
         settled' = settled \/ c.here \/ \E j \in jobs' : c.req \in j.approved,
         \A j \in jobs : \E i \in jobs' : j.approved \subseteq i.approved,
         \A r \in Requests : calls[r] # "none" => calls'[r] # "none"
  PROVE  MainInv'
  <1>1. QueueTypes'
    BY MoveTypes DEF MainInv, QueueTypes, Answerable
  <1>2. PostedOnce'
    BY PostsKept DEF MainInv
  <1>3. Going'
    <2>1. \A r \in Requests : Announced(r) => Announced(r)'
      BY AnnouncedKept DEF MainInv
    <2>2. \A r \in settled' \cap banners' : r \notin settled => Announced(r)'
      BY DEF Announced
    <2>3. banners \subseteq Requests
      BY DEF MainInv, QueueTypes
    <2>4. QED
      BY <2>1, <2>2, <2>3, GoingKept DEF MainInv
  <1>4. Follows'
    BY DEF Follows
  <1>5. QED
    BY <1>1, <1>2, <1>3, <1>4 DEF MainInv

(* A step that leaves queue and changes alone. *)
LEMMA QuietMain ==
  ASSUME MainInv, UNCHANGED queueVars,
         NEW more \in Seq(Blocks), QueueMove(more), Answerable(more),
         \A i \in 1 .. Len(more) : more[i].op # "post",
         mainQueue' = mainQueue \o more \/ Head(mainQueue).op \notin {"remove", "report"},
         UNCHANGED <<changed, toPost, settled>>, banners' \subseteq banners,
         app' \in {"launching", "listening", "running", "stopped", "cancelled"},
         \A j \in jobs : \E i \in jobs' : j.approved \subseteq i.approved,
         Follows'
  PROVE  MainInv'
  <1>1. QueueTypes'
    BY MoveTypes DEF MainInv, QueueTypes, Answerable
  <1>2. PostedOnce'
    BY PostsKept DEF MainInv, queueVars
  <1>3. Going'
    <2>1. \A r \in Requests : Announced(r) => Announced(r)'
      BY AnnouncedKept DEF MainInv
    <2>2. banners \subseteq Requests
      BY DEF MainInv, QueueTypes
    <2>3. QED
      BY <2>1, <2>2, GoingKept DEF MainInv
  <1>4. QED
    BY <1>1, <1>2, <1>3 DEF MainInv

(* And one that leaves the screen alone, too. *)
LEMMA IdleMain ==
  ASSUME MainInv, UNCHANGED queueVars, UNCHANGED <<badge, cards, cardIds>>,
         NEW more \in Seq(Blocks), QueueMove(more), Answerable(more),
         \A i \in 1 .. Len(more) : more[i].op # "post",
         mainQueue' = mainQueue \o more \/ Head(mainQueue).op \notin {"remove", "report", "refresh"},
         UNCHANGED <<changed, toPost, settled>>, banners' \subseteq banners,
         app' \in {"launching", "listening", "running", "stopped", "cancelled"},
         app' = "running" => app = "running",
         \A j \in jobs : \E i \in jobs' : j.approved \subseteq i.approved
  PROVE  MainInv'
  <1>1. Follows'
    BY FollowsKept DEF MainInv, queueVars, Refresh, Block
  <1>2. QED
    BY <1>1, QuietMain

(* A repaint is waiting once it has been asked for. *)
LEMMA Refreshed ==
  ASSUME QueueTypes, NEW more \in Seq(Blocks), Answerable(more), EnqueueRefresh(more)
  PROVE  \E m \in Seq(Blocks) :
           /\ mainQueue' = mainQueue \o m /\ QueueMove(m) /\ Answerable(m)
           /\ \A i \in 1 .. Len(m) : m[i] = Refresh \/ \E j \in 1 .. Len(more) : m[i] = more[j]
           /\ \A j \in 1 .. Len(more) : \E i \in 1 .. Len(m) : m[i] = more[j]
           /\ \E k \in 1 .. Len(mainQueue') : mainQueue'[k] = Refresh
  <1>1. mainQueue \in Seq(Blocks)
    BY DEF QueueTypes
  <1>2. Refresh \in Blocks /\ Refresh.op \notin Responses
    BY DEF Refresh, Block, Blocks, Responses
  <1>3. CASE mainQueue # <<>> /\ mainQueue[Len(mainQueue)] = Refresh
    <2>1. mainQueue' = mainQueue \o (<<>> \o more) /\ <<>> \o more = more
      BY <1>3 DEF EnqueueRefresh, Enqueue
    <2>2. mainQueue' = mainQueue \o more /\ QueueMove(more)
      BY <2>1 DEF QueueMove
    <2>3. /\ Len(mainQueue) \in 1 .. Len(mainQueue')
          /\ mainQueue'[Len(mainQueue)] = Refresh
      BY <1>1, <1>3, <2>2
    <2>4. QED
      BY <2>2, <2>3
  <1>4. CASE ~(mainQueue # <<>> /\ mainQueue[Len(mainQueue)] = Refresh)
    <2> DEFINE m == <<Refresh>> \o more
    <2>1. mainQueue' = mainQueue \o m
      BY <1>4 DEF EnqueueRefresh, Enqueue
    <2>2. /\ m \in Seq(Blocks) /\ Len(m) = Len(more) + 1 /\ m[1] = Refresh
          /\ \A i \in 1 .. Len(more) : m[i + 1] = more[i]
      BY <1>2
    <2> HIDE DEF m
    <2>3. \A i \in 1 .. Len(m) : i = 1 \/ i - 1 \in 1 .. Len(more)
      BY <2>2
    <2>4. \A i \in 1 .. Len(m) : m[i] = Refresh \/ \E j \in 1 .. Len(more) : m[i] = more[j]
      <3> SUFFICES ASSUME NEW i \in 1 .. Len(m), i # 1 PROVE \E j \in 1 .. Len(more) : m[i] = more[j]
        BY <2>2
      <3>1. i - 1 \in 1 .. Len(more) /\ i = (i - 1) + 1
        BY <2>3
      <3>2. m[(i - 1) + 1] = more[i - 1]
        BY <2>2, <3>1
      <3>3. QED
        BY <3>1, <3>2
    <2>5. \A j \in 1 .. Len(more) : j + 1 \in 1 .. Len(m) /\ m[j + 1] = more[j]
      BY <2>2
    <2>6. Answerable(m)
      BY <1>2, <2>4 DEF Answerable
    <2>7. /\ Len(mainQueue) + 1 \in 1 .. Len(mainQueue')
          /\ mainQueue'[Len(mainQueue) + 1] = Refresh
      BY <1>1, <2>1, <2>2
    <2>8. QED
      BY <2>1, <2>2, <2>4, <2>5, <2>6, <2>7 DEF QueueMove
  <1>5. QED
    BY <1>3, <1>4

-----------------------------------------------------------------------------
(* The cards.                                                              *)
AnyCard == [req : Shown, outcome : Verdicts \cup {"pending"}, byRule : BOOLEAN]

(* A function of the places of a list is a list. *)
LEMMA MappedSeq ==
  ASSUME NEW T, NEW f, NEW n \in Nat, DOMAIN f = 1 .. n, \A k \in 1 .. n : f[k] \in T,
         f = [k \in DOMAIN f |-> f[k]]
  PROVE  f \in Seq(T) /\ Len(f) = n
  <1>1. f \in [1 .. n -> T]
    OBVIOUS
  <1>2. QED
    BY <1>1, FunctionIsSeq

(* A repaint shows the pending requests, in the order of the registry of   *)
(* Approve and Reject, and below them the history.                         *)
LEMMA CardsShow ==
  ASSUME QueueInv, NEW order \in Orders, NEW all, all = CardsOf(order, resolved)
  PROVE  /\ order \in Seq(Requests) /\ {order[k] : k \in DOMAIN order} = Pending
         /\ all \in Seq(AnyCard)
         /\ \A k \in 1 .. Len(all) :
              all[k].outcome = "pending" => k \in DOMAIN order /\ order[k] = all[k].req
         /\ SubSeq(all, Len(order) + 1, Len(all)) = [k \in DOMAIN resolved |-> RecentCard(resolved[k])]
  <1> DEFINE n == Cardinality(Pending)
             first == [k \in DOMAIN order |-> Card(order[k], "pending", FALSE)]
             last  == [k \in DOMAIN resolved |-> RecentCard(resolved[k])]
  <1>1. n \in Nat /\ Pending \subseteq Requests
    BY PendingCount
  <1>2. order \in [1 .. n -> Pending] /\ \A r \in Pending : \E k \in DOMAIN order : order[k] = r
    BY DEF Orders
  <1>3. order \in Seq(Pending) /\ Len(order) = n
    BY <1>1, <1>2, FunctionIsSeq
  <1>4. order \in Seq(Requests) /\ {order[k] : k \in DOMAIN order} = Pending
    BY <1>1, <1>2, <1>3
  <1>5. first \in Seq(AnyCard) /\ Len(first) = n
    <2>1. DOMAIN first = 1 .. n /\ \A k \in 1 .. n : first[k] = Card(order[k], "pending", FALSE)
      BY <1>2
    <2>2. \A k \in 1 .. n : first[k] \in AnyCard
      BY <1>1, <1>2, <2>1 DEF Card, AnyCard, Shown
    <2>3. first = [k \in DOMAIN first |-> first[k]]
      OBVIOUS
    <2> HIDE DEF first
    <2>4. QED
      BY <1>1, <2>1, <2>2, <2>3, MappedSeq
  <1>6. last \in Seq(AnyCard) /\ Len(last) = Len(resolved)
        /\ \A k \in 1 .. Len(last) : last[k].outcome # "pending"
    <2>1. resolved \in Seq(Rows)
      BY DEF QueueInv, QueueTypeOK
    <2>2. /\ Len(resolved) \in Nat /\ DOMAIN last = 1 .. Len(resolved)
          /\ \A k \in 1 .. Len(resolved) : last[k] = RecentCard(resolved[k]) /\ resolved[k] \in Rows
      BY <2>1
    <2>3. \A k \in 1 .. Len(resolved) : last[k] \in AnyCard /\ last[k].outcome # "pending"
      BY <2>2, PopoverAssumption DEF RecentCard, Card, AnyCard, Shown, Rows
    <2>4. QED
      BY <2>2, <2>3, MappedSeq
  <1>7. all = first \o last
    BY DEF CardsOf
  <1> HIDE DEF first, last, n
  <1>8. /\ all \in Seq(AnyCard) /\ Len(all) = n + Len(last)
        /\ \A k \in 1 .. Len(all) : all[k] = IF k <= n THEN first[k] ELSE last[k - n]
    <2>1. first \in Seq(AnyCard) /\ last \in Seq(AnyCard)
      BY <1>5, <1>6
    <2>2. /\ first \o last \in Seq(AnyCard)
          /\ Len(first \o last) = Len(first) + Len(last)
          /\ \A k \in 1 .. Len(first) + Len(last) :
               (first \o last)[k] = IF k <= Len(first) THEN first[k] ELSE last[k - Len(first)]
      BY <2>1, ConcatProperties
    <2>3. QED
      BY <1>5, <1>7, <2>2
  <1>9. ASSUME NEW k \in 1 .. Len(all), all[k].outcome = "pending"
        PROVE  k \in DOMAIN order /\ order[k] = all[k].req
    <2>1. k <= n
      <3> SUFFICES ASSUME ~(k <= n) PROVE FALSE
        BY <1>1, <1>8
      <3>1. k - n \in 1 .. Len(last) /\ all[k] = last[k - n]
        BY <1>1, <1>6, <1>8
      <3>2. QED
        BY <1>6, <1>9, <3>1
    <2>2. k \in DOMAIN order /\ all[k] = first[k]
      BY <1>1, <1>2, <1>8, <2>1 DEF n
    <2>3. QED
      BY <2>2 DEF first, Card
  <1>10. SubSeq(all, Len(order) + 1, Len(all)) = last
    <2>1. Len(SubSeq(all, n + 1, Len(all))) = Len(last) /\ SubSeq(all, n + 1, Len(all)) \in Seq(AnyCard)
      BY <1>1, <1>6, <1>8
    <2>2. \A k \in 1 .. Len(last) : SubSeq(all, n + 1, Len(all))[k] = last[k]
      BY <1>1, <1>6, <1>8
    <2>3. SubSeq(all, n + 1, Len(all)) = last
      BY <1>6, <2>1, <2>2, SeqEqual
    <2>4. QED
      BY <1>3, <2>3
  <1>11. QED
    BY <1>4, <1>8, <1>9, <1>10 DEF last

(* The registries a repaint fills are those of its cards, and a button     *)
(* that was held is torn out.                                              *)
LEMMA RebuildDraws ==
  ASSUME QueueInv, pressed \in Buttons, Rebuild, UNCHANGED queueVars
  PROVE  /\ Drawn' /\ pressed' \in Buttons
         /\ pressed' # NoButton => pressed'.torn
         /\ (pressed' = NoButton) <=> (pressed = NoButton)
         /\ {cardIds'[k] : k \in DOMAIN cardIds'} = Pending
         /\ SubSeq(cards', Len(cardIds') + 1, Len(cards')) =
              [k \in DOMAIN resolved |-> RecentCard(resolved[k])]
  <1>1. PICK order \in Orders :
          /\ cards' = CardsOf(order, resolved)
          /\ cardIds' = order
          /\ pickerIds' = PickerSlots(CardsOf(order, resolved))
          /\ targets' = RevokeSlots(CardsOf(order, resolved))
          /\ pressed' = [pressed EXCEPT !.torn = (pressed # NoButton)]
    BY DEF Rebuild
  <1> DEFINE all == CardsOf(order, resolved)
  <1>2. /\ order \in Seq(Requests) /\ {order[k] : k \in DOMAIN order} = Pending
        /\ all \in Seq(AnyCard)
        /\ \A k \in 1 .. Len(all) :
             all[k].outcome = "pending" => k \in DOMAIN order /\ order[k] = all[k].req
        /\ SubSeq(all, Len(order) + 1, Len(all)) = [k \in DOMAIN resolved |-> RecentCard(resolved[k])]
    BY CardsShow
  <1>3. /\ pressed' \in Buttons
        /\ pressed' # NoButton => pressed'.torn
        /\ (pressed' = NoButton) <=> (pressed = NoButton)
    <2>1. CASE pressed = NoButton
      BY <1>1, <2>1 DEF Buttons, NoButton, Button, Shown
    <2>2. CASE pressed # NoButton
      <3>1. pressed' = [pressed EXCEPT !.torn = TRUE]
        BY <1>1, <2>2
      <3>2. pressed' \in Buttons /\ pressed'.torn = TRUE
        BY <3>1 DEF Buttons
      <3>3. NoButton.torn = FALSE
        BY DEF NoButton, Button
      <3>4. QED
        BY <2>2, <3>2, <3>3
    <2>3. QED
      BY <2>1, <2>2
  <1> HIDE DEF all
  <1>4. DOMAIN all = 1 .. Len(all) /\ Len(all) \in Nat /\ \A k \in 1 .. Len(all) : all[k] \in AnyCard
    BY <1>2
  <1>5. /\ PickerSlots(all) \in Seq(Shown) /\ DOMAIN PickerSlots(all) = 1 .. Len(all)
        /\ \A k \in 1 .. Len(all) : all[k].outcome # "deny" => PickerSlots(all)[k] = all[k].req
    <2>1. /\ DOMAIN PickerSlots(all) = 1 .. Len(all)
          /\ \A k \in 1 .. Len(all) : PickerSlots(all)[k] \in Shown
          /\ PickerSlots(all) = [k \in DOMAIN PickerSlots(all) |-> PickerSlots(all)[k]]
      BY <1>4 DEF PickerSlots, AnyCard, Shown
    <2>2. QED
      BY <1>4, <2>1, MappedSeq DEF PickerSlots
  <1>6. /\ RevokeSlots(all) \in Seq(Shown) /\ DOMAIN RevokeSlots(all) = 1 .. Len(all)
        /\ \A k \in 1 .. Len(all) : all[k].byRule => RevokeSlots(all)[k] = all[k].req
    <2>1. /\ DOMAIN RevokeSlots(all) = 1 .. Len(all)
          /\ \A k \in 1 .. Len(all) : RevokeSlots(all)[k] \in Shown
          /\ RevokeSlots(all) = [k \in DOMAIN RevokeSlots(all) |-> RevokeSlots(all)[k]]
      BY <1>4 DEF RevokeSlots, AnyCard, Shown
    <2>2. QED
      BY <1>4, <2>1, MappedSeq DEF RevokeSlots
  <1>7. cards' = all /\ cardIds' = order /\ pickerIds' = PickerSlots(all) /\ targets' = RevokeSlots(all)
    BY <1>1 DEF all
  <1>8. Drawn'
    BY <1>2, <1>4, <1>5, <1>6, <1>7 DEF Drawn, AnyCard
  <1>9. QED
    BY <1>2, <1>3, <1>7, <1>8

-----------------------------------------------------------------------------
(* The user's side.                                                        *)
UserInv == UserTypes /\ Drawn /\ HeldTrue

(* While nothing is redrawn, what is held names what it named. *)
LEMMA ViewKept ==
  ASSUME Drawn, HeldTrue, UNCHANGED <<cards, cardIds, pickerIds, targets>>,
         pressed' \in {pressed, NoButton}
  PROVE  Drawn' /\ HeldTrue'
  <1>1. Drawn'
    BY DEF Drawn
  <1>2. HeldTrue'
    BY DEF HeldTrue, Target, Slot
  <1>3. QED
    BY <1>1, <1>2

(* The first alert is closed, and a job may come of it. *)
LEMMA CloseTypes ==
  ASSUME UserTypes, NEW response, alerts # <<>>, Close(response)
  PROVE  /\ alerts' \in Seq(Alerts)
         /\ jobs' \subseteq Jobs
         /\ \A j \in jobs' : j.kind # "allowlist" => j.approved = {}
         /\ jobs \subseteq jobs'
  <1>1. alerts' \in Seq(Alerts) /\ Head(alerts) \in Alerts
    BY DEF UserTypes, Close
  <1>2. LET j == Job(Head(alerts).kind, Head(alerts).req, {}) IN
          j \in Jobs /\ j.approved = {} /\ jobs' \in {jobs, jobs \cup {j}}
    BY <1>1 DEF Job, Jobs, Alerts, Close
  <1>3. QED
    BY <1>1, <1>2 DEF UserTypes

(* An alert on top of the others. *)
LEMMA OpenTypes ==
  ASSUME UserTypes, NEW kind \in Kinds, NEW r \in Shown, NEW fromBlock \in BOOLEAN
  PROVE  /\ <<Alert(kind, r, fromBlock)>> \in Seq(Alerts)
         /\ <<Alert(kind, r, fromBlock)>> \o alerts \in Seq(Alerts)
  <1>1. Alert(kind, r, fromBlock) \in Alerts
    BY DEF Alert, Alerts
  <1>2. QED
    BY <1>1 DEF UserTypes

(* A press takes hold of a button by the number of its card. *)
LEMMA PressHolds ==
  ASSUME UserInv, Press
  PROVE  UserInv'
  <1>1. PICK k \in DOMAIN cards : pressed' \in ButtonsOf(k)
    BY DEF Press
  <1> DEFINE r == cards[k].req
  <1>2. UNCHANGED <<cards, cardIds, pickerIds, targets, alerts, jobs>>
    BY DEF Press, viewVars
  <1>3. k \in Nat /\ r \in Shown
    BY DEF UserInv, Drawn
  <1>4. \/ pressed' \in {Button("approve", k, r), Button("reject", k, r)} /\ cards[k].outcome = "pending"
        \/ pressed' \in {Button("allowlist", k, r), Button("trust", k, r)} /\ cards[k].outcome # "deny"
        \/ pressed' = Button("revoke", k, r) /\ cards[k].byRule
    BY <1>1 DEF ButtonsOf
  <1>5. pressed' \in Buttons
    <2>1. \A kind \in {"approve", "reject", "allowlist", "trust", "revoke"} : Button(kind, k, r) \in Buttons
      BY <1>3 DEF Button, Buttons
    <2>2. QED
      BY <1>4, <2>1
  <1>6. Drawn'
    BY <1>2 DEF UserInv, Drawn
  <1>7. Target' = pressed'.req
    BY <1>2, <1>4 DEF UserInv, Drawn, Target, Slot, Button
  <1>8. QED
    BY <1>2, <1>5, <1>6, <1>7 DEF UserInv, UserTypes, HeldTrue

(* A click lets go of the button and may open an alert. *)
LEMMA ClickUser ==
  ASSUME UserInv, Click
  PROVE  UserInv'
  <1>1. Drawn' /\ HeldTrue' /\ pressed' = NoButton /\ UNCHANGED jobs
    BY ViewKept DEF UserInv, Click, viewVars
  <1>2. NoButton \in Buttons
    BY DEF NoButton, Button, Buttons, Shown
  <1>3. alerts' \in Seq(Alerts)
    <2>1. Target \in Shown /\ alerts \in Seq(Alerts)
      BY TargetNames DEF UserInv, UserTypes, Click
    <2>2. CASE pressed.kind \in {"allowlist", "trust"}
      <3>1. OpenPicker(pressed.kind, Target, FALSE) /\ pressed.kind \in Kinds
        BY <2>2 DEF Click, Kinds
      <3>2. QED
        BY <2>1, <3>1, OpenTypes DEF OpenPicker, UserInv
    <2>3. CASE pressed.kind = "revoke"
      <3>1. PICK kind \in {"revoke", "note"} : alerts' = <<Alert(kind, Target, FALSE)>>
        BY <2>3 DEF Click
      <3>2. kind \in Kinds
        BY DEF Kinds
      <3>3. QED
        BY <2>1, <3>1, <3>2, OpenTypes DEF UserInv
    <2>4. CASE pressed.kind \notin {"allowlist", "trust", "revoke"}
      BY <2>1, <2>4 DEF Click
    <2>5. QED
      BY <2>2, <2>3, <2>4
  <1>4. QED
    BY <1>1, <1>2, <1>3 DEF UserInv, UserTypes

(* What a block of the main queue does to what the user sees. *)
LEMMA BlockUser ==
  ASSUME QueueInv, QueueTypes, UserInv, RunBlock
  PROVE  UserInv'
  <1> DEFINE b == Head(mainQueue)
  <1>1. b \in Blocks /\ (b.op \in Responses => b.reqs # {})
    BY DEF QueueTypes, RunBlock
  <1>2. CASE RunPaint
    <2>1. Rebuild /\ UNCHANGED <<queueVars, alerts, jobs>>
      BY <1>2 DEF RunPaint, RefreshUi
    <2>2. QED
      BY <2>1, RebuildDraws DEF UserInv, UserTypes, HeldTrue
  <1>3. CASE RunBanners
    <2>1. UNCHANGED <<cards, cardIds, pickerIds, targets, pressed, alerts, jobs>>
      BY <1>3 DEF RunBanners, viewVars, userVars
    <2>2. QED
      BY <2>1, ViewKept DEF UserInv, UserTypes
  <1>4. CASE RunReport
    <2>1. /\ UNCHANGED <<cards, cardIds, pickerIds, targets, pressed, jobs>>
          /\ alerts' = <<Alert("report", NoRequest, TRUE)>> \o alerts
      BY <1>4 DEF RunReport, viewVars
    <2>2. alerts' \in Seq(Alerts)
      BY <2>1, OpenTypes DEF UserInv, Kinds, Shown
    <2>3. QED
      BY <2>1, <2>2, ViewKept DEF UserInv, UserTypes
  <1>5. CASE RunStop
    <2>1. UNCHANGED <<cards, cardIds, pickerIds, targets, pressed>>
      BY <1>5 DEF RunStop, viewVars
    <2>2. UNCHANGED <<alerts, jobs>> \/ (alerts # <<>> /\ Close("stopped"))
      BY <1>5 DEF RunStop
    <2>3. UserTypes'
      BY <2>1, <2>2, CloseTypes DEF UserInv, UserTypes
    <2>4. QED
      BY <2>1, <2>3, ViewKept DEF UserInv
  <1>6. CASE RunResponse
    <2> DEFINE r == CHOOSE q \in b.reqs : TRUE
    <2>1. b.op \in Responses /\ r \in Requests
      BY <1>1, <1>6 DEF RunResponse, Blocks
    <2>2. alerts' \in Seq(Alerts) /\ UNCHANGED jobs
      <3>1. CASE b.op \in {"allowlist", "trust"}
        <4>1. OpenPicker(b.op, r, TRUE) /\ b.op \in Kinds /\ r \in Shown
          BY <1>6, <2>1, <3>1 DEF RunResponse, Kinds, Shown
        <4>2. QED
          BY <1>6, <4>1, OpenTypes DEF OpenPicker, UserInv, UserTypes, RunResponse
      <3>2. CASE b.op \notin {"allowlist", "trust"}
        BY <1>6, <3>2 DEF RunResponse, UserInv, UserTypes
      <3>3. QED
        BY <3>1, <3>2
    <2>3. CASE b.op = "default"
      <3>1. Rebuild /\ UNCHANGED queueVars
        BY <1>6, <2>3 DEF RunResponse
      <3>2. QED
        BY <2>2, <3>1, RebuildDraws DEF UserInv, UserTypes, HeldTrue
    <2>4. CASE b.op # "default"
      <3>1. UNCHANGED <<cards, cardIds, pickerIds, targets, pressed>>
        BY <1>6, <2>4 DEF RunResponse
      <3>2. QED
        BY <2>2, <3>1, ViewKept DEF UserInv, UserTypes
    <2>5. QED
      BY <2>3, <2>4
  <1>7. QED
    BY <1>2, <1>3, <1>4, <1>5, <1>6 DEF RunBlock

(* A sweep's job remembers what it approved. *)
LEMMA SweepUser ==
  ASSUME UserInv, NEW j \in jobs, NEW r \in Requests, SweepApproves(j, r)
  PROVE  UserInv'
  <1>1. UNCHANGED <<cards, cardIds, pickerIds, targets, pressed, alerts>>
    BY DEF SweepApproves, viewVars, userVars
  <1> DEFINE i == [j EXCEPT !.approved = @ \cup {r}]
  <1>2. j \in Jobs /\ j.kind = "allowlist" /\ jobs' = (jobs \ {j}) \cup {i}
    BY DEF UserInv, UserTypes, SweepApproves
  <1>3. i \in Jobs /\ i.kind = "allowlist"
    BY <1>2 DEF Jobs
  <1>4. UserTypes'
    BY <1>1, <1>2, <1>3 DEF UserInv, UserTypes
  <1>5. QED
    BY <1>1, <1>4, ViewKept DEF UserInv

(* Whatever happens, a button that is held names its own card. *)
LEMMA StepUser ==
  ASSUME QueueInv, QueueTypes, UserInv, [PopoverNext]_<<queueVars, popoverVars>>
  PROVE  UserInv'
  <1>1. ASSUME UNCHANGED <<cards, cardIds, pickerIds, targets, alerts>>, jobs' \subseteq jobs,
               pressed' \in {pressed, NoButton}
        PROVE  UserInv'
    <2>1. NoButton \in Buttons
      BY DEF NoButton, Button, Buttons, Shown
    <2>2. QED
      BY <1>1, <2>1, ViewKept DEF UserInv, UserTypes
  <1>2. CASE \E r \in Requests : SubmitRequest(r) \/ NotifyWorker(r)
    BY <1>1, <1>2 DEF SubmitRequest, NotifyWorker, viewVars, userVars
  <1>3. CASE \E r \in Requests, v \in Verdicts : RuledByStore(r, v) \/ ApproveElsewhere(r, v)
    BY <1>1, <1>3 DEF RuledByStore, ApproveElsewhere, viewVars, userVars
  <1>4. CASE \E rows \in PastTails : WarmHistory(rows)
    BY <1>1, <1>4 DEF WarmHistory, popoverVars, viewVars, userVars
  <1>5. CASE \E c \in changed : ListenerRuns(c)
    BY <1>1, <1>5 DEF ListenerRuns, viewVars, userVars
  <1>6. CASE SetListener \/ AskToQuit \/ ObserverSees \/ LoopReturned
    BY <1>1, <1>6 DEF SetListener, AskToQuit, ObserverSees, LoopReturned, viewVars, userVars
  <1>7. CASE LetGo
    BY <1>1, <1>7 DEF LetGo, viewVars
  <1>8. CASE \E r \in Requests, op \in Responses : ClickBanner(r, op)
    BY <1>1, <1>8 DEF ClickBanner, viewVars
  <1>9. CASE \E j \in jobs : JobEnds(j)
    BY <1>1, <1>9 DEF JobEnds, viewVars, userVars
  <1>10. CASE UNCHANGED <<queueVars, popoverVars>>
    BY <1>1, <1>10 DEF popoverVars, viewVars, userVars
  <1>11. CASE FirstPaint
    <2>1. Rebuild /\ UNCHANGED <<queueVars, alerts, jobs>>
      BY <1>11 DEF FirstPaint, RefreshUi
    <2>2. QED
      BY <2>1, RebuildDraws DEF UserInv, UserTypes, HeldTrue
  <1>12. CASE TogglePopover
    <2>1. UNCHANGED <<queueVars, alerts, jobs>>
      BY <1>12 DEF TogglePopover
    <2>2. CASE open
      BY <1>1, <1>12, <2>1, <2>2 DEF TogglePopover
    <2>3. CASE ~open
      BY <1>12, <2>1, <2>3, RebuildDraws DEF TogglePopover, UserInv, UserTypes, HeldTrue
    <2>4. QED
      BY <2>2, <2>3
  <1>13. CASE AnswerAlert
    <2>1. UNCHANGED <<cards, cardIds, pickerIds, targets, pressed>> /\ alerts # <<>>
      BY <1>13 DEF AnswerAlert, viewVars
    <2>2. UserTypes'
      BY <1>13, <2>1, CloseTypes DEF AnswerAlert, UserInv, UserTypes
    <2>3. QED
      BY <2>1, <2>2, ViewKept DEF UserInv
  <1>14. QED
    BY <1>2, <1>3, <1>4, <1>5, <1>6, <1>7, <1>8, <1>9, <1>10, <1>11, <1>12, <1>13, PressHolds,
       ClickUser, BlockUser, SweepUser DEF PopoverNext

-----------------------------------------------------------------------------
(* The main thread's queue, step by step.                                  *)

(* A new prompt is on its way to at most one banner. *)
LEMMA SubmitMain ==
  ASSUME MainInv, NEW r \in Requests, SubmitRequest(r), calls[r] = "none", calls'[r] # "none",
         \A q \in Requests : q # r => calls'[q] = calls[q]
  PROVE  MainInv'
  <1> DEFINE c == Change("submit", r, FALSE)
  <1>1. /\ changed' = changed \cup {c}
        /\ UNCHANGED <<app, mainQueue, toPost, banners, settled, jobs>>
    BY DEF SubmitRequest
  <1>2. c \in Changes /\ c.kind = "submit" /\ c.req = r /\ ~c.here /\ c.heard = (app # "launching")
    BY DEF Change, Changes
  <1> HIDE DEF c
  <1>3. QueueTypes'
    BY <1>1, <1>2 DEF MainInv, QueueTypes
  <1>4. PostedOnce'
    <2> SUFFICES ASSUME NEW q \in Requests PROVE
      /\ \A d, e \in changed' : Submitted(d, q)' /\ Submitted(e, q)' => d = e
      /\ \A k, l \in 1 .. Len(mainQueue) : Posting(k, q) /\ Posting(l, q) => k = l
      /\ \A d \in changed' : Submitted(d, q)' =>
           calls'[q] # "none" /\ q \notin toPost /\ ~Posted(q)
      /\ \A k \in 1 .. Len(mainQueue) : Posting(k, q) =>
           calls'[q] # "none" /\ q \notin toPost /\ ~Posted(q) /\ (\A d \in changed' : ~Submitted(d, q)')
      /\ q \in toPost => calls'[q] # "none" /\ ~Posted(q)
      /\ Posted(q) => calls'[q] # "none"
      BY <1>1 DEF PostedOnce, Posting, Posted
    <2>1. CASE q = r
      <3>1. /\ \A d \in changed : ~Submitted(d, r)
            /\ \A k \in 1 .. Len(mainQueue) : ~Posting(k, r)
            /\ r \notin toPost /\ ~Posted(r)
        BY DEF MainInv, PostedOnce
      <3>2. \A d \in changed' : Submitted(d, r)' => d = c
        BY <1>1, <3>1 DEF Submitted
      <3>3. QED
        BY <2>1, <3>1, <3>2
    <2>2. CASE q # r
      <3>1. \A d \in changed' : Submitted(d, q)' => d \in changed /\ Submitted(d, q)
        BY <1>1, <1>2, <2>2 DEF Submitted
      <3>2. calls'[q] = calls[q]
        BY <2>2
      <3>3. QED
        BY <3>1, <3>2 DEF MainInv, PostedOnce
    <2>3. QED
      BY <2>1, <2>2
  <1>5. Going'
    BY <1>1 DEF MainInv, Going, Announced
  <1>6. Follows'
    BY <1>1, <1>2 DEF Follows
  <1>7. QED
    BY <1>3, <1>4, <1>5, <1>6 DEF MainInv

(* Its worker asks for the banner, or for none. *)
LEMMA NotifyMain ==
  ASSUME MainInv, NEW r \in Requests, NotifyWorker(r)
  PROVE  MainInv'
  <1>1. /\ UNCHANGED queueVars
        /\ UNCHANGED <<app, changed, banners, settled, jobs, badge, cards, cardIds>>
        /\ r \in toPost /\ toPost' = toPost \ {r}
    BY DEF NotifyWorker, viewVars
  <1>2. CASE r \notin raised
    <2>1. UNCHANGED mainQueue
      <3>1. mainQueue' = mainQueue \o <<>>
        BY <1>2 DEF NotifyWorker, Enqueue
      <3>2. QED
        BY <3>1 DEF MainInv, QueueTypes
    <2>2. QED
      BY <1>1, <2>1 DEF MainInv, QueueTypes, PostedOnce, Submitted, Posting, Posted, Going, Announced,
         Follows, ScreenTrue, Pending, RecentCard, Card, queueVars
  <1>3. CASE r \in raised
    <2> DEFINE more == <<Block("post", {r})>>
    <2>1. mainQueue' = mainQueue \o more
      BY <1>3 DEF NotifyWorker, Enqueue
    <2>2. more \in Seq(Blocks) /\ Len(more) = 1 /\ more[1].op = "post" /\ more[1].reqs = {r}
      BY OneBlock
    <2>3. "post" \notin Responses
      BY DEF Responses
    <2> HIDE DEF more
    <2>4. QueueMove(more) /\ Answerable(more)
      BY <2>1, <2>2, <2>3 DEF QueueMove, Answerable
    <2>5. QueueTypes'
      BY <1>1, <2>2, <2>4, MoveTypes DEF MainInv, QueueTypes, Answerable
    <2>6. PostedOnce'
      <3> SUFFICES ASSUME NEW q \in Requests PROVE
        /\ \A c, d \in changed : Submitted(c, q) /\ Submitted(d, q) => c = d
        /\ \A k, l \in 1 .. Len(mainQueue') : Posting(k, q)' /\ Posting(l, q)' => k = l
        /\ \A c \in changed : Submitted(c, q) => calls[q] # "none" /\ q \notin toPost' /\ ~Posted(q)
        /\ \A k \in 1 .. Len(mainQueue') : Posting(k, q)' =>
             calls[q] # "none" /\ q \notin toPost' /\ ~Posted(q) /\ (\A c \in changed : ~Submitted(c, q))
        /\ q \in toPost' => calls[q] # "none" /\ ~Posted(q)
        /\ Posted(q) => calls[q] # "none"
        BY <1>1 DEF PostedOnce, Submitted, Posted, queueVars
      <3>1. /\ mainQueue \in Seq(Blocks) /\ Len(mainQueue) \in Nat
            /\ Len(mainQueue') = Len(mainQueue) + 1
            /\ \A k \in 1 .. Len(mainQueue) : mainQueue'[k] = mainQueue[k]
            /\ mainQueue'[Len(mainQueue) + 1] = more[1]
        <4>1. mainQueue \in Seq(Blocks) /\ Len(mainQueue) \in Nat
          BY DEF MainInv, QueueTypes
        <4>2. /\ Len(mainQueue') = Len(mainQueue) + Len(more)
              /\ \A k \in 1 .. Len(mainQueue) + Len(more) :
                   mainQueue'[k] = IF k <= Len(mainQueue) THEN mainQueue[k] ELSE more[k - Len(mainQueue)]
          BY <2>1, <2>2, <4>1, ConcatProperties
        <4>3. QED
          BY <2>2, <4>1, <4>2
      <3>2. \A k \in 1 .. Len(mainQueue') :
              \/ k \in 1 .. Len(mainQueue) /\ (Posting(k, q)' <=> Posting(k, q))
              \/ k = Len(mainQueue) + 1 /\ (Posting(k, q)' => q = r)
        BY <2>2, <3>1 DEF Posting
      <3>3. CASE q = r
        <4>1. /\ \A k \in 1 .. Len(mainQueue) : ~Posting(k, r)
              /\ \A c \in changed : ~Submitted(c, r)
              /\ calls[r] # "none" /\ ~Posted(r)
          BY <1>1 DEF MainInv, PostedOnce
        <4>2. QED
          BY <1>1, <3>2, <3>3, <4>1
      <3>4. CASE q # r
        <4>1. \A k \in 1 .. Len(mainQueue') : Posting(k, q)' => k \in 1 .. Len(mainQueue) /\ Posting(k, q)
          BY <3>2, <3>4
        <4>2. q \in toPost' <=> q \in toPost
          BY <1>1, <3>4
        <4>3. QED
          BY <4>1, <4>2 DEF MainInv, PostedOnce
      <3>5. QED
        BY <3>3, <3>4
    <2>7. Going'
      BY <1>1, <2>1, <2>2, <2>4, AnnouncedKept, GoingKept DEF MainInv, QueueTypes
    <2>8. Follows'
      BY <1>1, <2>1, <2>2, <2>4, FollowsKept DEF MainInv, queueVars
    <2>9. QED
      BY <2>5, <2>6, <2>7, <2>8 DEF MainInv
  <1>4. QED
    BY <1>2, <1>3

(* No worker goes back to before its call. *)
LEMMA CallsKept ==
  ASSUME QueueInv, [QueueNext]_queueVars
  PROVE  \A r \in Requests : calls[r] # "none" => calls'[r] # "none"
  BY DEF QueueInv, QueueTypeOK, QueueNext, queueVars, Submit, Resolve, Deliver, RecordAuto, CancelAll, Warm

(* The listener of a change asks for a repaint, and for the banner of what *)
(* the main thread decided to be taken down.                               *)
LEMMA ListenerMain ==
  ASSUME MainInv, NEW c \in changed, ListenerRuns(c)
  PROVE  MainInv'
  <1>1. /\ changed' = changed \ {c}
        /\ UNCHANGED <<app, banners, settled, jobs, badge, cards, cardIds, entries, calls, resolved>>
        /\ toPost' = IF c.kind = "submit" THEN toPost \cup {c.req} ELSE toPost
    BY DEF ListenerRuns, viewVars, queueVars, Deliver
  <1>2. /\ c \in Changes /\ (c.kind # "cancel" => c.req \in Requests)
        /\ c.here => c.heard /\ c.req \in Requests
    BY DEF MainInv, QueueTypes
  <1>3. PICK m \in Seq(Blocks) :
          /\ mainQueue' = mainQueue \o m /\ QueueMove(m) /\ Answerable(m)
          /\ \A i \in 1 .. Len(m) : m[i].op # "post"
          /\ c.heard => \E k \in 1 .. Len(mainQueue') : mainQueue'[k] = Refresh
          /\ c.here => \E k \in 1 .. Len(mainQueue') :
               mainQueue'[k].op = "remove" /\ c.req \in mainQueue'[k].reqs
    <2>1. CASE ~c.heard
      <3>1. UNCHANGED mainQueue
        BY <2>1 DEF ListenerRuns
      <3>2. /\ <<>> \in Seq(Blocks) /\ Len(<<>>) = 0 /\ Answerable(<<>>)
            /\ mainQueue' = mainQueue \o <<>> /\ QueueMove(<<>>)
        BY <3>1, NoBlocks DEF MainInv
      <3>3. \A i \in 1 .. Len(<<>>) : <<>>[i].op # "post"
        BY <3>2
      <3>4. QED
        BY <1>2, <2>1, <3>2, <3>3
    <2>2. CASE c.heard
      <3> DEFINE more == IF c.here THEN <<Block("remove", {c.req})>> ELSE <<>>
      <3>1. EnqueueRefresh(more)
        BY <2>2 DEF ListenerRuns
      <3>2. /\ more \in Seq(Blocks) /\ \A i \in 1 .. Len(more) : more[i].op = "remove"
            /\ c.here => Len(more) = 1 /\ more[1].op = "remove" /\ more[1].reqs = {c.req}
        BY <1>2, OneBlock, NoBlocks DEF MainInv
      <3>3. "remove" \notin Responses /\ Refresh.op # "post"
        BY DEF Responses, Refresh, Block
      <3> HIDE DEF more
      <3>4. Answerable(more)
        BY <3>2, <3>3 DEF Answerable
      <3>5. PICK m \in Seq(Blocks) :
              /\ mainQueue' = mainQueue \o m /\ QueueMove(m) /\ Answerable(m)
              /\ \A i \in 1 .. Len(m) : m[i] = Refresh \/ \E j \in 1 .. Len(more) : m[i] = more[j]
              /\ \A j \in 1 .. Len(more) : \E i \in 1 .. Len(m) : m[i] = more[j]
              /\ \E k \in 1 .. Len(mainQueue') : mainQueue'[k] = Refresh
        BY <3>1, <3>2, <3>4, Refreshed DEF MainInv
      <3>6. \A i \in 1 .. Len(m) : m[i].op # "post"
        BY <3>2, <3>3, <3>5
      <3>7. ASSUME c.here
            PROVE  \E k \in 1 .. Len(mainQueue') :
                     mainQueue'[k].op = "remove" /\ c.req \in mainQueue'[k].reqs
        <4>1. 1 \in 1 .. Len(more)
          BY <3>2, <3>7
        <4>2. PICK i \in 1 .. Len(m) : m[i] = more[1]
          BY <3>5, <4>1
        <4>3. PICK k \in 1 .. Len(mainQueue') : mainQueue'[k] = m[i]
          BY <3>5, MoveBlocks DEF MainInv
        <4>4. QED
          BY <3>2, <3>7, <4>2, <4>3
      <3>8. QED
        BY <3>5, <3>6, <3>7
    <2>3. QED
      BY <2>1, <2>2
  <1>4. QueueTypes'
    BY <1>1, <1>2, <1>3, MoveTypes DEF MainInv, QueueTypes, Answerable
  <1>5. PostedOnce'
    BY <1>1, <1>3, PostsKept DEF MainInv, Submitted
  <1>6. Going'
    <2>1. \A r \in Requests : Announced(r) => Announced(r)'
      <3> SUFFICES ASSUME NEW r \in Requests, Announced(r) PROVE Announced(r)'
        OBVIOUS
      <3>1. CASE c.here /\ c.req = r
        <4>1. PICK k \in 1 .. Len(mainQueue') : mainQueue'[k].op = "remove" /\ r \in mainQueue'[k].reqs
          BY <1>3, <3>1
        <4>2. k \in DOMAIN mainQueue'
          BY <1>4, <4>1 DEF QueueTypes
        <4>3. QED
          BY <4>1, <4>2 DEF Announced
      <3>2. CASE \E d \in changed : d # c /\ d.here /\ d.req = r
        BY <1>1, <3>2 DEF Announced
      <3>3. CASE \E j \in jobs : r \in j.approved
        BY <1>1, <3>3 DEF Announced
      <3>4. CASE \E k \in DOMAIN mainQueue : mainQueue[k].op \in {"remove", "report"} /\ r \in mainQueue[k].reqs
        <4>1. PICK k \in 1 .. Len(mainQueue) : mainQueue[k].op \in {"remove", "report"} /\ r \in mainQueue[k].reqs
          BY <3>4 DEF MainInv, QueueTypes
        <4>2. PICK l \in 1 .. Len(mainQueue') : mainQueue'[l] = mainQueue[k]
          BY <1>3, <4>1, MoveBlocks DEF MainInv
        <4>3. l \in DOMAIN mainQueue'
          BY <1>4, <4>2 DEF QueueTypes
        <4>4. QED
          BY <4>1, <4>2, <4>3 DEF Announced
      <3>5. QED
        BY <3>1, <3>2, <3>3, <3>4 DEF Announced
    <2>2. QED
      BY <1>1, <2>1, GoingKept DEF MainInv, QueueTypes
  <1>7. Follows'
    <2>1. CASE c.heard
      BY <1>3, <2>1 DEF Follows, Refresh, Block
    <2>2. CASE ~c.heard
      BY <1>1, <1>3, <2>2, FollowsKept DEF MainInv
    <2>3. QED
      BY <2>1, <2>2
  <1>8. QED
    BY <1>4, <1>5, <1>6, <1>7 DEF MainInv

(* Somebody else decides, or a rule does. *)
LEMMA ElsewhereMain ==
  ASSUME MainInv, QueueInv, Drawn, NEW r \in Requests, NEW v \in Verdicts,
         [PopoverNext]_<<queueVars, popoverVars>>,
         RuledByStore(r, v) \/ ApproveElsewhere(r, v)
  PROVE  MainInv'
  <1>1. PICK kind \in {"auto", "resolve"} : changed' = changed \cup {Change(kind, r, FALSE)}
    BY DEF RuledByStore, ApproveElsewhere
  <1> DEFINE c == Change(kind, r, FALSE)
  <1>2. c \in Changes /\ c.kind = kind /\ c.req = r /\ ~c.here /\ c.heard = (app # "launching")
    BY DEF Change, Changes
  <1>3. UNCHANGED <<app, mainQueue, toPost, banners, settled, jobs>>
    BY DEF RuledByStore, ApproveElsewhere
  <1>4. \A q \in Requests : calls[q] # "none" => calls'[q] # "none"
    BY StepQueue, CallsKept DEF MainInv
  <1>5. /\ <<>> \in Seq(Blocks) /\ Len(<<>>) = 0 /\ Answerable(<<>>)
        /\ mainQueue' = mainQueue \o <<>> /\ QueueMove(<<>>)
    BY <1>3, NoBlocks DEF MainInv
  <1>6. \A i \in 1 .. Len(<<>>) : <<>>[i].op # "post"
    BY <1>5
  <1> HIDE DEF c
  <1>7. changed' = changed \cup {c}
    BY <1>1 DEF c
  <1>8. QED
    BY <1>2, <1>3, <1>4, <1>5, <1>6, <1>7, DecidedMain

(* A sweep decides, and its job remembers what for. *)
LEMMA SweepMain ==
  ASSUME MainInv, QueueInv, UserInv, NEW j \in jobs, NEW r \in Requests,
         [PopoverNext]_<<queueVars, popoverVars>>, SweepApproves(j, r)
  PROVE  MainInv'
  <1> DEFINE c == Change("resolve", r, FALSE)
             i == [j EXCEPT !.approved = @ \cup {r}]
  <1>1. /\ changed' = changed \cup {c}
        /\ UNCHANGED <<app, mainQueue, toPost, banners>>
        /\ settled' = settled \cup ({r} \cap banners)
        /\ jobs' = (jobs \ {j}) \cup {i}
    BY DEF SweepApproves
  <1>2. c \in Changes /\ c.kind = "resolve" /\ c.req = r /\ ~c.here /\ c.heard = (app # "launching")
    BY DEF Change, Changes
  <1>3. i \in jobs' /\ r \in i.approved /\ j.approved \subseteq i.approved
    BY <1>1 DEF UserInv, UserTypes, Jobs
  <1> HIDE DEF c, i
  <1>4. \A k \in jobs : \E l \in jobs' : k.approved \subseteq l.approved
    BY <1>1, <1>3
  <1>5. \A q \in Requests : calls[q] # "none" => calls'[q] # "none"
    BY StepQueue, CallsKept DEF MainInv, UserInv
  <1>6. /\ <<>> \in Seq(Blocks) /\ Len(<<>>) = 0 /\ Answerable(<<>>)
        /\ mainQueue' = mainQueue \o <<>> /\ QueueMove(<<>>)
    BY <1>1, NoBlocks DEF MainInv
  <1>7. \A k \in 1 .. Len(<<>>) : <<>>[k].op # "post"
    BY <1>6
  <1>8. \E k \in jobs' : c.req \in k.approved
    BY <1>2, <1>3
  <1>9. QED
    BY <1>1, <1>2, <1>4, <1>5, <1>6, <1>7, <1>8, DecidedMain

(* The user decides in the popover. *)
LEMMA ClickMain ==
  ASSUME MainInv, QueueInv, Drawn, [PopoverNext]_<<queueVars, popoverVars>>, Click
  PROVE  MainInv'
  <1>1. UNCHANGED <<app, toPost, banners, jobs, badge, cards, cardIds>>
    BY DEF Click, viewVars
  <1>2. /\ <<>> \in Seq(Blocks) /\ Len(<<>>) = 0 /\ Answerable(<<>>)
        /\ \A i \in 1 .. Len(<<>>) : <<>>[i].op # "post"
        /\ UNCHANGED mainQueue => mainQueue' = mainQueue \o <<>> /\ QueueMove(<<>>)
    BY NoBlocks DEF MainInv
  <1>3. ASSUME UNCHANGED <<queueVars, mainQueue, changed, settled>> PROVE MainInv'
    BY <1>1, <1>2, <1>3, IdleMain DEF MainInv, QueueTypes
  <1>4. CASE pressed.kind \in {"approve", "reject"}
    <2> DEFINE r == Target
               c == Change("resolve", r, TRUE)
    <2>1. PICK v \in {"allow", "deny"} : ResolveHere(r, v)
      BY <1>4 DEF Click
    <2>2. r \in Requests
      BY <1>4, TargetNames DEF Click
    <2> HIDE DEF r
    <2>3. CASE r \in Pending
      <3>1. /\ changed' = changed \cup {c} /\ settled' = settled \cup ({r} \cap banners)
            /\ UNCHANGED mainQueue
        BY <2>1, <2>3 DEF ResolveHere
      <3>2. c \in Changes /\ c.kind = "resolve" /\ c.req = r /\ c.here /\ c.heard
        BY <2>2 DEF Change, Changes, Click, MainFree
      <3>3. \A q \in Requests : calls[q] # "none" => calls'[q] # "none"
        BY StepQueue, CallsKept DEF MainInv
      <3> HIDE DEF c
      <3>4. mainQueue' = mainQueue \o <<>> /\ QueueMove(<<>>)
        BY <1>2, <3>1
      <3>5. \A j \in jobs : \E i \in jobs' : j.approved \subseteq i.approved
        BY <1>1
      <3>6. settled' \subseteq settled \cup ({c.req} \cap banners) /\ UNCHANGED <<app, toPost, banners>>
        BY <1>1, <3>1, <3>2
      <3>7. c.req \in Requests
        BY <2>2, <3>2
      <3>8. QED
        BY <1>2, <3>1, <3>2, <3>3, <3>4, <3>5, <3>6, <3>7, DecidedMain
    <2>4. CASE r \notin Pending
      <3> DEFINE more == <<Block("remove", {r})>>
      <3>1. mainQueue' = mainQueue \o more /\ UNCHANGED <<queueVars, changed, settled>>
        BY <2>1, <2>4 DEF ResolveHere, Enqueue
      <3>2. more \in Seq(Blocks) /\ Len(more) = 1 /\ more[1].op = "remove"
        BY <2>2, OneBlock
      <3>3. "remove" \notin Responses
        BY DEF Responses
      <3> HIDE DEF more
      <3>4. QueueMove(more) /\ Answerable(more) /\ \A i \in 1 .. Len(more) : more[i].op # "post"
        BY <3>1, <3>2, <3>3 DEF QueueMove, Answerable
      <3>5. QED
        BY <1>1, <3>1, <3>2, <3>4, IdleMain DEF MainInv, QueueTypes
    <2>5. QED
      BY <2>3, <2>4
  <1>5. CASE pressed.kind \notin {"approve", "reject"}
    BY <1>3, <1>5 DEF Click
  <1>6. QED
    BY <1>4, <1>5

(* The loop has returned: nobody repaints any more. *)
LEMMA ReturnedMain ==
  ASSUME MainInv, QueueInv, Drawn, [PopoverNext]_<<queueVars, popoverVars>>, LoopReturned
  PROVE  MainInv'
  <1> DEFINE c == Change("cancel", NoRequest, FALSE)
  <1>1. /\ changed' \in {changed, changed \cup {c}}
        /\ app' = "cancelled"
        /\ UNCHANGED <<mainQueue, toPost, banners, settled, jobs>>
    BY DEF LoopReturned
  <1>2. c \in Changes /\ c.kind = "cancel" /\ ~c.here
    BY DEF Change, Changes
  <1> HIDE DEF c
  <1>3. QueueTypes'
    BY <1>1, <1>2 DEF MainInv, QueueTypes
  <1>4. /\ <<>> \in Seq(Blocks) /\ Len(<<>>) = 0 /\ QueueMove(<<>>)
        /\ \A i \in 1 .. Len(<<>>) : <<>>[i].op # "post"
    BY <1>1, NoBlocks DEF MainInv
  <1>5. \A q \in Requests : calls[q] # "none" => calls'[q] # "none"
    BY StepQueue, CallsKept DEF MainInv
  <1>6. PostedOnce'
    BY <1>1, <1>2, <1>4, <1>5, PostsKept DEF MainInv
  <1>7. Going'
    BY <1>1 DEF MainInv, Going, Announced
  <1>8. Follows'
    BY <1>1 DEF Follows
  <1>9. QED
    BY <1>3, <1>6, <1>7, <1>8 DEF MainInv

(* A paint shows the queue. *)
LEMMA PaintFollows ==
  ASSUME QueueInv, pressed \in Buttons, RefreshUi, UNCHANGED queueVars
  PROVE  ScreenTrue'
  <1>1. /\ {cardIds'[k] : k \in DOMAIN cardIds'} = Pending
        /\ SubSeq(cards', Len(cardIds') + 1, Len(cards')) =
              [k \in DOMAIN resolved |-> RecentCard(resolved[k])]
    BY RebuildDraws DEF RefreshUi
  <1>2. badge' = Cardinality(Pending)
    BY DEF RefreshUi
  <1>3. QED
    BY <1>1, <1>2 DEF ScreenTrue, Pending, RecentCard, Card, queueVars

(* New cards without a new badge show the queue if the old ones did.       *)
LEMMA RebuildFollows ==
  ASSUME QueueInv, pressed \in Buttons, Rebuild, UNCHANGED <<queueVars, badge>>, ScreenTrue
  PROVE  ScreenTrue'
  <1>1. /\ {cardIds'[k] : k \in DOMAIN cardIds'} = Pending
        /\ SubSeq(cards', Len(cardIds') + 1, Len(cards')) =
              [k \in DOMAIN resolved |-> RecentCard(resolved[k])]
    BY RebuildDraws
  <1>2. QED
    BY <1>1 DEF ScreenTrue, Pending, RecentCard, Card, queueVars

(* The blocks that paint, stop the loop or show the outcome of a job. *)
LEMMA RunMain ==
  ASSUME MainInv, QueueInv, UserInv, RunBlock, RunPaint \/ RunBanners \/ RunReport \/ RunStop
  PROVE  MainInv'
  <1> DEFINE b == Head(mainQueue)
  <1>1. /\ mainQueue # <<>> /\ mainQueue \in Seq(Blocks)
        /\ b \in Blocks /\ b = mainQueue[1] /\ 1 \in 1 .. Len(mainQueue)
    BY DEF RunBlock, MainInv, QueueTypes
  <1>2. UNCHANGED <<queueVars, changed, toPost, settled>>
    BY DEF RunBlock, RunPaint, RunBanners, RunReport, RunStop
  <1>3. /\ <<>> \in Seq(Blocks) /\ Len(<<>>) = 0 /\ Answerable(<<>>)
        /\ \A i \in 1 .. Len(<<>>) : <<>>[i].op # "post"
        /\ mainQueue' = Tail(mainQueue) => mainQueue' = Tail(mainQueue) \o <<>> /\ QueueMove(<<>>)
    BY <1>1, NoBlocks DEF MainInv, QueueMove
  <1>4. CASE RunPaint
    <2>1. /\ b = Refresh /\ mainQueue' = Tail(mainQueue) /\ RefreshUi
          /\ UNCHANGED <<app, banners, jobs>>
      BY <1>4 DEF RunPaint
    <2>2. ScreenTrue'
      BY <1>2, <2>1, PaintFollows DEF UserInv, UserTypes
    <2>3. Follows'
      BY <2>2 DEF Follows
    <2>4. b.op \notin {"remove", "report"}
      BY <2>1 DEF Refresh, Block
    <2> HIDE DEF b
    <2>5. QED
      BY <1>2, <1>3, <2>1, <2>3, <2>4, QuietMain DEF MainInv, QueueTypes, b
  <1>5. CASE RunStop
    <2>1. /\ b = StopLoop /\ mainQueue' = Tail(mainQueue)
          /\ UNCHANGED <<banners, badge, cards, cardIds>>
          /\ app' \in {app, "stopped"}
      BY <1>5 DEF RunStop, viewVars
    <2>2. b.op \notin {"remove", "report", "refresh"}
      BY <2>1 DEF StopLoop, Block
    <2>3. jobs \subseteq jobs'
      <3>1. UNCHANGED jobs \/ (alerts # <<>> /\ Close("stopped"))
        BY <1>5 DEF RunStop
      <3>2. QED
        BY <3>1, CloseTypes DEF UserInv
    <2>4. /\ app' \in {"launching", "listening", "running", "stopped", "cancelled"}
          /\ app' = "running" => app = "running"
      BY <2>1 DEF MainInv, QueueTypes
    <2> HIDE DEF b
    <2>5. QED
      BY <1>2, <1>3, <2>1, <2>2, <2>3, <2>4, IdleMain DEF b
  <1>6. CASE RunReport
    <2> DEFINE more == IF b.reqs = {} THEN <<>> ELSE <<Block("remove", b.reqs)>>
    <2>1. /\ b.op = "report" /\ mainQueue' = Tail(mainQueue) \o more
          /\ UNCHANGED <<app, banners, jobs, badge, cards, cardIds>>
      BY <1>6 DEF RunReport, viewVars
    <2>2. /\ more \in Seq(Blocks) /\ \A i \in 1 .. Len(more) : more[i].op = "remove"
          /\ b.reqs # {} => Len(more) = 1 /\ more[1].reqs = b.reqs
      <3>1. b.reqs \in SUBSET Requests
        BY <1>1 DEF Blocks
      <3>2. QED
        BY <1>3, <3>1, OneBlock
    <2>3. "remove" \notin Responses
      BY DEF Responses
    <2> HIDE DEF more
    <2>4. QueueMove(more) /\ Answerable(more) /\ \A i \in 1 .. Len(more) : more[i].op # "post"
      BY <1>1, <2>1, <2>2, <2>3 DEF QueueMove, Answerable
    <2>5. QueueTypes'
      BY <1>2, <2>1, <2>2, <2>4, MoveTypes DEF MainInv, QueueTypes, Answerable
    <2>6. PostedOnce'
      BY <1>2, <2>1, <2>2, <2>4, PostsKept DEF MainInv, queueVars
    <2>7. \A r \in Requests : Announced(r) => Announced(r)'
      <3> SUFFICES ASSUME NEW r \in Requests, Announced(r) PROVE Announced(r)'
        OBVIOUS
      <3>1. CASE (\E c \in changed : c.here /\ c.req = r) \/ (\E j \in jobs : r \in j.approved)
        BY <1>2, <2>1, <3>1 DEF Announced
      <3>2. CASE \E k \in DOMAIN mainQueue : mainQueue[k].op \in {"remove", "report"} /\ r \in mainQueue[k].reqs
        <4>1. PICK k \in 1 .. Len(mainQueue) :
                mainQueue[k].op \in {"remove", "report"} /\ r \in mainQueue[k].reqs
          BY <1>1, <3>2
        <4>2. \E l \in 1 .. Len(mainQueue') : mainQueue'[l].op \in {"remove", "report"} /\ r \in mainQueue'[l].reqs
          <5>1. CASE k = 1
            <6>1. 1 \in 1 .. Len(more) /\ more[1].op = "remove" /\ r \in more[1].reqs
              BY <1>1, <2>2, <4>1, <5>1
            <6>2. PICK l \in 1 .. Len(mainQueue') : mainQueue'[l] = more[1]
              BY <2>2, <2>4, <6>1, MoveBlocks DEF MainInv
            <6>3. QED
              BY <6>1, <6>2
          <5>2. CASE k # 1
            <6>1. PICK l \in 1 .. Len(mainQueue') : mainQueue'[l] = mainQueue[k]
              BY <2>2, <2>4, <5>2, MoveBlocks DEF MainInv
            <6>2. QED
              BY <4>1, <6>1
          <5>3. QED
            BY <5>1, <5>2
        <4>3. DOMAIN mainQueue' = 1 .. Len(mainQueue')
          BY <2>5 DEF QueueTypes
        <4>4. QED
          BY <4>2, <4>3 DEF Announced
      <3>3. QED
        BY <3>1, <3>2 DEF Announced
    <2>8. Going'
      BY <1>2, <2>1, <2>7, GoingKept DEF MainInv, QueueTypes
    <2>9. Follows'
      <3>1. Head(mainQueue) # Refresh
        BY <2>1 DEF Refresh, Block
      <3>2. QED
        BY <1>2, <2>1, <2>2, <2>4, <3>1, FollowsKept DEF MainInv, queueVars
    <2>10. QED
      BY <2>5, <2>6, <2>8, <2>9 DEF MainInv
  <1>7. CASE RunBanners
    <2>1. /\ b.op \in {"post", "remove"} /\ mainQueue' = Tail(mainQueue)
          /\ banners' = IF b.op = "post" THEN banners \cup b.reqs ELSE banners \ b.reqs
          /\ UNCHANGED <<app, jobs, badge, cards, cardIds>>
      BY <1>7 DEF RunBanners, viewVars
    <2>2. mainQueue' = Tail(mainQueue) \o <<>> /\ QueueMove(<<>>)
      BY <1>3, <2>1
    <2>3. QueueTypes'
      <3>1. banners' \subseteq Requests
        BY <1>1, <2>1 DEF MainInv, QueueTypes, Blocks
      <3>2. QED
        BY <1>2, <1>3, <2>1, <2>2, <3>1, MoveTypes DEF MainInv, QueueTypes, Answerable
    <2>4. Head(mainQueue) # Refresh
      BY <2>1 DEF Refresh, Block
    <2>5. Follows'
      BY <1>2, <1>3, <2>1, <2>2, <2>4, FollowsKept DEF MainInv, queueVars
    <2>6. CASE b.op = "post"
      <3>1. \A r \in b.reqs : Posting(1, r)
        BY <1>1, <2>6 DEF Posting
      <3>2. PostedOnce'
        <4> SUFFICES ASSUME NEW q \in Requests PROVE
          /\ \A c, d \in changed : Submitted(c, q) /\ Submitted(d, q) => c = d
          /\ \A k, l \in 1 .. Len(mainQueue') : Posting(k, q)' /\ Posting(l, q)' => k = l
          /\ \A c \in changed : Submitted(c, q) => calls[q] # "none" /\ q \notin toPost /\ ~Posted(q)'
          /\ \A k \in 1 .. Len(mainQueue') : Posting(k, q)' =>
               calls[q] # "none" /\ q \notin toPost /\ ~Posted(q)' /\ (\A c \in changed : ~Submitted(c, q))
          /\ q \in toPost => calls[q] # "none" /\ ~Posted(q)'
          /\ Posted(q)' => calls[q] # "none"
          BY <1>2 DEF PostedOnce, Submitted, queueVars
        <4>1. \A k \in 1 .. Len(mainQueue') :
                k + 1 \in 1 .. Len(mainQueue) /\ (Posting(k, q)' => Posting(k + 1, q))
          <5>1. /\ Len(mainQueue') = Len(mainQueue) - 1 /\ Len(mainQueue) \in Nat
                /\ \A k \in 1 .. Len(mainQueue) - 1 : mainQueue'[k] = mainQueue[k + 1]
            BY <1>1, <2>1
          <5>2. QED
            BY <5>1 DEF Posting
        <4>2. CASE q \in b.reqs
          <5>1. /\ calls[q] # "none" /\ q \notin toPost /\ \A c \in changed : ~Submitted(c, q)
                /\ \A k \in 1 .. Len(mainQueue) : Posting(k, q) => k = 1
            BY <1>1, <3>1, <4>2 DEF MainInv, PostedOnce
          <5>2. \A k \in 1 .. Len(mainQueue') : ~Posting(k, q)'
            BY <4>1, <5>1
          <5>3. QED
            BY <5>1, <5>2
        <4>3. CASE q \notin b.reqs
          <5>1. Posted(q)' <=> Posted(q)
            BY <1>2, <2>1, <2>6, <4>3 DEF Posted
          <5>2. \A k, l \in 1 .. Len(mainQueue') : Posting(k, q)' /\ Posting(l, q)' => k = l
            <6> SUFFICES ASSUME NEW k \in 1 .. Len(mainQueue'), NEW l \in 1 .. Len(mainQueue'),
                                Posting(k, q)', Posting(l, q)'
                         PROVE  k = l
              OBVIOUS
            <6>1. k + 1 = l + 1
              BY <4>1 DEF MainInv, PostedOnce
            <6>2. QED
              BY <2>3, <6>1 DEF QueueTypes
          <5>3. QED
            BY <4>1, <5>1, <5>2 DEF MainInv, PostedOnce
        <4>4. QED
          BY <4>2, <4>3
      <3>3. Going'
        <4>1. \A r \in Requests : Announced(r) => Announced(r)'
          <5>1. Head(mainQueue).op \notin {"remove", "report"}
            BY <2>6
          <5>2. QED
            BY <1>2, <1>3, <2>1, <2>2, <5>1, AnnouncedKept DEF MainInv
        <4>2. \A r \in b.reqs : r \in Requests /\ r \notin settled
          BY <1>1, <3>1 DEF MainInv, PostedOnce, Posted, Blocks
        <4>3. QED
          BY <1>2, <2>1, <2>6, <4>1, <4>2 DEF MainInv, QueueTypes, Going
      <3>4. QED
        BY <2>3, <2>5, <3>2, <3>3 DEF MainInv
    <2>7. CASE b.op = "remove"
      <3>1. banners' = banners \ b.reqs
        BY <2>1, <2>7
      <3>2. PostedOnce'
        BY <1>2, <1>3, <2>2, <3>1, PostsKept DEF MainInv, queueVars
      <3>3. \A r \in Requests : Announced(r) /\ r \notin b.reqs => Announced(r)'
        <4> SUFFICES ASSUME NEW r \in Requests, r \notin b.reqs, Announced(r) PROVE Announced(r)'
          OBVIOUS
        <4>1. CASE (\E c \in changed : c.here /\ c.req = r) \/ (\E j \in jobs : r \in j.approved)
          BY <1>2, <2>1, <4>1 DEF Announced
        <4>2. CASE \E k \in DOMAIN mainQueue : mainQueue[k].op \in {"remove", "report"} /\ r \in mainQueue[k].reqs
          <5>1. PICK k \in 1 .. Len(mainQueue) :
                  mainQueue[k].op \in {"remove", "report"} /\ r \in mainQueue[k].reqs
            BY <1>1, <4>2
          <5>2. k # 1
            BY <1>1, <5>1
          <5>3. PICK l \in 1 .. Len(mainQueue') : mainQueue'[l] = mainQueue[k]
            BY <1>3, <2>2, <5>2, MoveBlocks DEF MainInv
          <5>4. DOMAIN mainQueue' = 1 .. Len(mainQueue')
            BY <2>3 DEF QueueTypes
          <5>5. QED
            BY <5>1, <5>3, <5>4 DEF Announced
        <4>3. QED
          BY <4>1, <4>2 DEF Announced
      <3>4. Going'
        BY <1>2, <3>1, <3>3 DEF MainInv, QueueTypes, Going
      <3>5. QED
        BY <2>3, <2>5, <3>2, <3>4 DEF MainInv
    <2>8. QED
      BY <2>1, <2>6, <2>7
  <1>8. QED
    BY <1>4, <1>5, <1>6, <1>7

(* The answer to a banner. *)
LEMMA ResponseMain ==
  ASSUME MainInv, QueueInv, UserInv, [PopoverNext]_<<queueVars, popoverVars>>, RunBlock, RunResponse
  PROVE  MainInv'
  <1> DEFINE b == Head(mainQueue)
             r == CHOOSE q \in b.reqs : TRUE
             deciding == b.op \in {"approve", "reject", "dismiss"}
             more == IF deciding /\ r \notin Pending THEN <<Block("remove", {r})>> ELSE <<>>
  <1>1. /\ mainQueue # <<>> /\ mainQueue \in Seq(Blocks)
        /\ b \in Blocks /\ b.op \in Responses /\ b.reqs # {}
    BY DEF RunBlock, RunResponse, MainInv, QueueTypes
  <1>2. r \in Requests
    BY <1>1 DEF Blocks
  <1>3. b.op \notin {"remove", "report", "refresh"} /\ "remove" \notin Responses
    BY <1>1 DEF Responses
  <1>4. mainQueue' = Tail(mainQueue) \o more /\ UNCHANGED <<app, toPost, banners, jobs, badge>>
    BY DEF RunResponse, RunBlock
  <1>5. more \in Seq(Blocks) /\ \A i \in 1 .. Len(more) : more[i].op = "remove"
    <2> HIDE DEF r, deciding
    <2>1. CASE deciding /\ r \notin Pending
      <3>1. more = <<Block("remove", {r})>>
        BY <2>1
      <3>2. "remove" \in {"refresh", "stop", "post", "remove", "report"} \cup Responses
        OBVIOUS
      <3> HIDE DEF more
      <3>3. /\ <<Block("remove", {r})>> \in Seq(Blocks) /\ Len(<<Block("remove", {r})>>) = 1
            /\ <<Block("remove", {r})>>[1].op = "remove"
        BY <1>2, <3>2, OneBlock
      <3>4. QED
        BY <3>1, <3>3
    <2>2. CASE ~(deciding /\ r \notin Pending)
      <3>1. more = <<>>
        BY <2>2
      <3>2. QED
        BY <3>1
    <2>3. QED
      BY <2>1, <2>2
  <1>6. IF deciding /\ r \in Pending
        THEN /\ changed' = changed \cup {Change("resolve", r, TRUE)}
             /\ settled' = settled \cup ({r} \cap banners)
        ELSE UNCHANGED <<queueVars, changed, settled>>
    BY DEF RunResponse
  <1>7. IF b.op = "default" THEN Rebuild ELSE UNCHANGED <<cards, cardIds>>
    BY DEF RunResponse
  <1>8. app = "running"
    BY DEF RunBlock, MainFree
  <1> HIDE DEF b, r, deciding, more
  <1>9. QueueMove(more) /\ Answerable(more) /\ \A i \in 1 .. Len(more) : more[i].op # "post"
    BY <1>1, <1>3, <1>4, <1>5 DEF QueueMove, Answerable
  <1>10. \A j \in jobs : \E i \in jobs' : j.approved \subseteq i.approved
    BY <1>4
  <1>11. CASE deciding /\ r \in Pending
    <2> DEFINE c == Change("resolve", r, TRUE)
    <2>1. c \in Changes /\ c.kind = "resolve" /\ c.req = r /\ c.here /\ c.heard
      BY <1>2, <1>8 DEF Change, Changes
    <2>2. \A q \in Requests : calls[q] # "none" => calls'[q] # "none"
      BY StepQueue, CallsKept DEF MainInv, UserInv
    <2>3. changed' = changed \cup {c} /\ settled' = settled \cup ({r} \cap banners)
      BY <1>6, <1>11
    <2> HIDE DEF c
    <2>4. settled' \subseteq settled \cup ({c.req} \cap banners) /\ c.req \in Requests
      BY <1>2, <2>1, <2>3
    <2>5. Head(mainQueue).op \notin {"remove", "report"}
      BY <1>3 DEF b
    <2>6. UNCHANGED <<app, toPost, banners>>
      BY <1>4
    <2>7. QED
      BY <1>5, <1>9, <1>10, <2>1, <2>2, <2>3, <2>4, <2>5, <2>6, DecidedMain
  <1>12. CASE ~(deciding /\ r \in Pending)
    <2>1. UNCHANGED <<queueVars, changed, settled>>
      BY <1>6, <1>12
    <2>2. ScreenTrue => ScreenTrue'
      <3>1. CASE b.op = "default"
        BY <1>4, <1>7, <2>1, <3>1, RebuildFollows DEF UserInv, UserTypes
      <3>2. CASE b.op # "default"
        BY <1>4, <1>7, <2>1, <3>2 DEF ScreenTrue, Pending, RecentCard, Card, queueVars
      <3>3. QED
        BY <3>1, <3>2
    <2>3. Head(mainQueue) # Refresh /\ Head(mainQueue).op \notin {"remove", "report"}
      BY <1>3 DEF b, Refresh, Block
    <2>4. Follows'
      BY <1>4, <1>5, <1>9, <2>1, <2>2, <2>3, FollowsStill DEF MainInv
    <2>5. QED
      BY <1>4, <1>5, <1>9, <1>10, <2>1, <2>3, <2>4, QuietMain DEF MainInv, QueueTypes
  <1>13. QED
    BY <1>11, <1>12

(* A job's end shows its outcome, and keeps what it approved announced. *)
LEMMA EndsMain ==
  ASSUME MainInv, UserInv, NEW j \in jobs, JobEnds(j)
  PROVE  MainInv'
  <1>1. /\ UNCHANGED <<queueVars, app, changed, toPost, banners, settled, badge, cards, cardIds>>
        /\ jobs' = jobs \ {j}
    BY DEF JobEnds, viewVars
  <1>2. j \in Jobs /\ (j.kind = "trust" => j.approved = {})
    BY DEF UserInv, UserTypes
  <1> DEFINE last == <<Block("report", j.approved)>>
  <1>3. last \in Seq(Blocks) /\ Len(last) = 1 /\ last[1].op = "report" /\ last[1].reqs = j.approved
    BY <1>2, OneBlock DEF Jobs
  <1>4. "report" \notin Responses /\ Refresh.op \notin {"post"}
    BY DEF Responses, Refresh, Block
  <1>5. Enqueue(last) \/ EnqueueRefresh(last)
    BY <1>2 DEF JobEnds
  <1> HIDE DEF last
  <1>6. Answerable(last)
    BY <1>3, <1>4 DEF Answerable
  <1>7. PICK m \in Seq(Blocks) :
          /\ mainQueue' = mainQueue \o m /\ QueueMove(m) /\ Answerable(m)
          /\ \A i \in 1 .. Len(m) : m[i].op # "post"
          /\ \E k \in 1 .. Len(m) : m[k] = last[1]
    <2>1. CASE Enqueue(last)
      <3>1. mainQueue' = mainQueue \o last /\ QueueMove(last)
        BY <2>1 DEF Enqueue, QueueMove
      <3>2. \A i \in 1 .. Len(last) : last[i].op # "post"
        BY <1>3
      <3>3. \E k \in 1 .. Len(last) : last[k] = last[1]
        BY <1>3
      <3>4. QED
        BY <1>3, <1>6, <3>1, <3>2, <3>3
    <2>2. CASE EnqueueRefresh(last)
      <3>1. PICK m \in Seq(Blocks) :
              /\ mainQueue' = mainQueue \o m /\ QueueMove(m) /\ Answerable(m)
              /\ \A i \in 1 .. Len(m) : m[i] = Refresh \/ \E k \in 1 .. Len(last) : m[i] = last[k]
              /\ \A k \in 1 .. Len(last) : \E i \in 1 .. Len(m) : m[i] = last[k]
        BY <1>3, <1>6, <2>2, Refreshed DEF MainInv
      <3>2. \A i \in 1 .. Len(m) : m[i].op # "post"
        <4> SUFFICES ASSUME NEW i \in 1 .. Len(m) PROVE m[i].op # "post"
          OBVIOUS
        <4>1. CASE m[i] = Refresh
          BY <1>4, <4>1
        <4>2. CASE \E k \in 1 .. Len(last) : m[i] = last[k]
          BY <1>3, <4>2
        <4>3. QED
          BY <3>1, <4>1, <4>2
      <3>3. \E k \in 1 .. Len(m) : m[k] = last[1]
        <4>1. 1 \in 1 .. Len(last)
          BY <1>3
        <4>2. QED
          BY <3>1, <4>1
      <3>4. QED
        BY <3>1, <3>2, <3>3
    <2>3. QED
      BY <1>5, <2>1, <2>2
  <1>8. QueueTypes'
    BY <1>1, <1>7, MoveTypes DEF MainInv, QueueTypes, Answerable
  <1>9. PostedOnce'
    BY <1>1, <1>7, PostsKept DEF MainInv, queueVars
  <1>10. \A r \in Requests : Announced(r) => Announced(r)'
    <2> SUFFICES ASSUME NEW r \in Requests, Announced(r) PROVE Announced(r)'
      OBVIOUS
    <2>1. DOMAIN mainQueue' = 1 .. Len(mainQueue')
      BY <1>8 DEF QueueTypes
    <2>2. CASE \E c \in changed : c.here /\ c.req = r
      BY <1>1, <2>2 DEF Announced
    <2>3. CASE \E i \in jobs : i # j /\ r \in i.approved
      BY <1>1, <2>3 DEF Announced
    <2>4. CASE r \in j.approved
      <3>1. PICK k \in 1 .. Len(m) : m[k] = last[1]
        BY <1>7
      <3>2. PICK l \in 1 .. Len(mainQueue') : mainQueue'[l] = m[k]
        BY <1>7, MoveBlocks DEF MainInv
      <3>3. QED
        BY <1>3, <2>1, <2>4, <3>1, <3>2 DEF Announced
    <2>5. CASE \E k \in DOMAIN mainQueue : mainQueue[k].op \in {"remove", "report"} /\ r \in mainQueue[k].reqs
      <3>1. PICK k \in 1 .. Len(mainQueue) :
              mainQueue[k].op \in {"remove", "report"} /\ r \in mainQueue[k].reqs
        BY <2>5 DEF MainInv, QueueTypes
      <3>2. PICK l \in 1 .. Len(mainQueue') : mainQueue'[l] = mainQueue[k]
        BY <1>7, MoveBlocks DEF MainInv
      <3>3. QED
        BY <2>1, <3>1, <3>2 DEF Announced
    <2>6. QED
      BY <2>2, <2>3, <2>4, <2>5 DEF Announced
  <1>11. Going'
    BY <1>1, <1>10, GoingKept DEF MainInv, QueueTypes
  <1>12. Follows'
    BY <1>1, <1>7, FollowsKept DEF MainInv, queueVars
  <1>13. QED
    BY <1>8, <1>9, <1>11, <1>12 DEF MainInv

(* Steps that at most put an answer or the stop at the end. *)
LEMMA PlainMain ==
  ASSUME MainInv, QueueInv, UserInv,
         \/ SetListener \/ Press \/ LetGo \/ AnswerAlert \/ AskToQuit \/ ObserverSees
         \/ \E r \in Requests, op \in Responses : ClickBanner(r, op)
         \/ UNCHANGED <<queueVars, popoverVars>>
  PROVE  MainInv'
  <1>1. UNCHANGED queueVars /\ UNCHANGED <<badge, cards, cardIds, changed, toPost, settled>>
    BY DEF SetListener, Press, LetGo, AnswerAlert, AskToQuit, ObserverSees, ClickBanner, popoverVars, viewVars
  <1>2. banners' \subseteq banners
    BY DEF SetListener, Press, LetGo, AnswerAlert, AskToQuit, ObserverSees, ClickBanner, popoverVars
  <1>3. /\ app' \in {"launching", "listening", "running", "stopped", "cancelled"}
        /\ app' = "running" => app = "running"
    BY DEF SetListener, Press, LetGo, AnswerAlert, AskToQuit, ObserverSees, ClickBanner, popoverVars,
       MainInv, QueueTypes
  <1>4. jobs \subseteq jobs'
    <2>1. CASE AnswerAlert
      BY <2>1, CloseTypes DEF AnswerAlert, UserInv
    <2>2. CASE ~AnswerAlert
      BY <2>2 DEF SetListener, Press, LetGo, AskToQuit, ObserverSees, ClickBanner, popoverVars
    <2>3. QED
      BY <2>1, <2>2
  <1>5. PICK m \in Seq(Blocks) :
          /\ mainQueue' = mainQueue \o m /\ QueueMove(m) /\ Answerable(m)
          /\ \A i \in 1 .. Len(m) : m[i].op # "post"
    <2>1. CASE ObserverSees
      <3>1. mainQueue' = mainQueue \o <<StopLoop>> /\ StopLoop = Block("stop", {})
        BY <2>1 DEF ObserverSees, Enqueue, StopLoop
      <3>2. /\ <<StopLoop>> \in Seq(Blocks) /\ Len(<<StopLoop>>) = 1 /\ <<StopLoop>>[1].op = "stop"
        BY <3>1, OneBlock
      <3>3. "stop" \notin Responses
        BY DEF Responses
      <3> DEFINE m == <<StopLoop>>
      <3>4. /\ m \in Seq(Blocks) /\ mainQueue' = mainQueue \o m /\ Len(m) = 1 /\ m[1].op = "stop"
        BY <3>1, <3>2
      <3> HIDE DEF m
      <3>5. QueueMove(m) /\ Answerable(m)
        BY <3>3, <3>4 DEF QueueMove, Answerable
      <3>6. \A i \in 1 .. Len(m) : m[i].op # "post"
        BY <3>4
      <3>7. QED
        BY <3>4, <3>5, <3>6
    <2>2. ASSUME NEW r \in Requests, NEW op \in Responses, ClickBanner(r, op)
          PROVE  \E m \in Seq(Blocks) :
                   /\ mainQueue' = mainQueue \o m /\ QueueMove(m) /\ Answerable(m)
                   /\ \A i \in 1 .. Len(m) : m[i].op # "post"
      <3> DEFINE m == <<Block(op, {r})>>
      <3>1. mainQueue' = mainQueue \o m
        BY <2>2 DEF ClickBanner, Enqueue
      <3>2. m \in Seq(Blocks) /\ Len(m) = 1 /\ m[1].op = op /\ m[1].reqs = {r}
        BY OneBlock
      <3>3. "post" \notin Responses
        BY DEF Responses
      <3> HIDE DEF m
      <3>4. QueueMove(m) /\ Answerable(m)
        <4>1. QueueMove(m)
          BY <3>1 DEF QueueMove
        <4>2. \A k \in 1 .. Len(m) : m[k].reqs = {r}
          BY <3>2
        <4>3. QED
          BY <4>1, <4>2 DEF Answerable
      <3>5. \A i \in 1 .. Len(m) : m[i].op # "post"
        BY <3>2, <3>3
      <3>6. QED
        BY <3>1, <3>2, <3>4, <3>5
    <2>3. CASE ~ObserverSees /\ ~\E r \in Requests, op \in Responses : ClickBanner(r, op)
      <3>1. UNCHANGED mainQueue
        BY <2>3 DEF SetListener, Press, LetGo, AnswerAlert, AskToQuit, popoverVars
      <3> DEFINE m == <<>>
      <3>2. m \in Seq(Blocks) /\ Len(m) = 0 /\ mainQueue' = mainQueue \o m
        BY <3>1, NoBlocks DEF MainInv
      <3>3. QueueMove(m)
        BY <3>1, NoBlocks DEF MainInv
      <3> HIDE DEF m
      <3>4. Answerable(m) /\ \A i \in 1 .. Len(m) : m[i].op # "post"
        BY <3>2 DEF Answerable
      <3>5. QED
        BY <3>2, <3>3, <3>4
    <2>4. QED
      BY <2>1, <2>2, <2>3
  <1>6. QED
    BY <1>1, <1>2, <1>3, <1>4, <1>5, IdleMain

(* The first paint and the icon of the menu bar. *)
LEMMA DrawMain ==
  ASSUME MainInv, QueueInv, UserInv, FirstPaint \/ TogglePopover
  PROVE  MainInv'
  <1>1. UNCHANGED queueVars /\ UNCHANGED <<mainQueue, changed, toPost, settled, banners, jobs>>
    BY DEF FirstPaint, TogglePopover
  <1>2. /\ <<>> \in Seq(Blocks) /\ Len(<<>>) = 0 /\ Answerable(<<>>)
        /\ \A i \in 1 .. Len(<<>>) : <<>>[i].op # "post"
        /\ mainQueue' = mainQueue \o <<>> /\ QueueMove(<<>>)
    BY <1>1, NoBlocks DEF MainInv
  <1>3. /\ app' \in {"launching", "listening", "running", "stopped", "cancelled"}
        /\ Follows'
    <2>1. CASE FirstPaint
      <3>1. ScreenTrue'
        BY <1>1, <2>1, PaintFollows DEF FirstPaint, UserInv, UserTypes
      <3>2. QED
        BY <2>1, <3>1 DEF FirstPaint, Follows
    <2>2. CASE TogglePopover
      <3>1. UNCHANGED <<app, badge>>
        BY <2>2 DEF TogglePopover
      <3>2. ScreenTrue => ScreenTrue'
        <4>1. CASE open
          BY <1>1, <2>2, <3>1, <4>1 DEF TogglePopover, ScreenTrue, Pending, RecentCard, Card, queueVars
        <4>2. CASE ~open
          BY <1>1, <2>2, <3>1, <4>2, RebuildFollows DEF TogglePopover, UserInv, UserTypes
        <4>3. QED
          BY <4>1, <4>2
      <3>3. QED
        BY <1>1, <1>2, <3>1, <3>2, FollowsStill DEF MainInv, QueueTypes
    <2>3. QED
      BY <2>1, <2>2
  <1>4. QED
    BY <1>1, <1>2, <1>3, QuietMain

(* Rows of earlier runs come before anybody looks. *)
LEMMA WarmMain ==
  ASSUME MainInv, NEW rows \in PastTails, WarmHistory(rows)
  PROVE  MainInv'
  <1>1. UNCHANGED popoverVars /\ UNCHANGED calls /\ app = "launching"
    BY DEF WarmHistory, Warm
  <1>2. QueueTypes' /\ Going' /\ Follows'
    BY <1>1 DEF MainInv, QueueTypes, Going, Announced, Follows, popoverVars, viewVars
  <1>3. PostedOnce'
    BY <1>1 DEF MainInv, PostedOnce, Submitted, Posting, Posted, popoverVars, viewVars
  <1>4. QED
    BY <1>2, <1>3 DEF MainInv

(* Whatever happens, what is shown follows what is decided. *)
LEMMA StepMain ==
  ASSUME MainInv, QueueInv, UserInv, [PopoverNext]_<<queueVars, popoverVars>>
  PROVE  MainInv'
  <1>1. ASSUME NEW r \in Requests, SubmitRequest(r) PROVE MainInv'
    <2>1. calls[r] = "none" /\ calls' = [calls EXCEPT ![r] = "parked"]
      BY <1>1 DEF SubmitRequest, Submit
    <2>2. calls \in [Requests -> {"none", "parked", "auto"}]
      BY DEF QueueInv, QueueTypeOK
    <2>3. calls'[r] # "none" /\ \A q \in Requests : q # r => calls'[q] = calls[q]
      BY <2>1, <2>2
    <2>4. QED
      BY <1>1, <2>1, <2>3, SubmitMain
  <1>2. ASSUME NEW r \in Requests, NotifyWorker(r) PROVE MainInv'
    BY <1>2, NotifyMain
  <1>3. ASSUME NEW r \in Requests, NEW v \in Verdicts, RuledByStore(r, v) \/ ApproveElsewhere(r, v)
        PROVE  MainInv'
    BY <1>3, ElsewhereMain DEF UserInv
  <1>4. ASSUME NEW rows \in PastTails, WarmHistory(rows) PROVE MainInv'
    BY <1>4, WarmMain
  <1>5. ASSUME NEW c \in changed, ListenerRuns(c) PROVE MainInv'
    BY <1>5, ListenerMain
  <1>6. CASE FirstPaint \/ TogglePopover
    BY <1>6, DrawMain
  <1>7. CASE Click
    BY <1>7, ClickMain DEF UserInv
  <1>8. CASE RunBlock
    <2>1. RunPaint \/ RunBanners \/ RunResponse \/ RunReport \/ RunStop
      BY <1>8 DEF RunBlock
    <2>2. QED
      BY <1>8, <2>1, RunMain, ResponseMain
  <1>9. ASSUME NEW j \in jobs, NEW r \in Requests, SweepApproves(j, r) PROVE MainInv'
    BY <1>9, SweepMain
  <1>10. ASSUME NEW j \in jobs, JobEnds(j) PROVE MainInv'
    BY <1>10, EndsMain
  <1>11. CASE LoopReturned
    BY <1>11, ReturnedMain DEF UserInv
  <1>12. CASE \/ SetListener \/ Press \/ LetGo \/ AnswerAlert \/ AskToQuit \/ ObserverSees
              \/ \E r \in Requests, op \in Responses : ClickBanner(r, op)
              \/ UNCHANGED <<queueVars, popoverVars>>
    BY <1>12, PlainMain
  <1>13. QED
    BY <1>1, <1>2, <1>3, <1>4, <1>5, <1>6, <1>7, <1>8, <1>9, <1>10, <1>11, <1>12 DEF PopoverNext

(* Nothing is on screen before the first paint. *)
LEMMA InitScreen == QueueInit /\ PopoverInit => MainInv /\ UserInv
  <1> SUFFICES ASSUME QueueInit, PopoverInit PROVE MainInv /\ UserInv
    OBVIOUS
  <1>1. /\ app = "launching" /\ mainQueue = <<>> /\ changed = {} /\ toPost = {}
        /\ cards = <<>> /\ cardIds = <<>> /\ pickerIds = <<>> /\ targets = <<>>
        /\ pressed = NoButton /\ alerts = <<>> /\ jobs = {} /\ banners = {} /\ settled = {}
    BY DEF PopoverInit
  <1>2. \A T : <<>> \in Seq(T) /\ Len(<<>>) = 0
    OBVIOUS
  <1>3. QueueTypes
    BY <1>1, <1>2 DEF QueueTypes
  <1>4. PostedOnce /\ Going /\ Follows
    BY <1>1, <1>2 DEF PostedOnce, Submitted, Posting, Posted, Going, Follows
  <1>5. UserTypes
    BY <1>1, <1>2 DEF UserTypes, NoButton, Button, Buttons, Shown
  <1>6. Drawn /\ HeldTrue
    BY <1>1, <1>2 DEF Drawn, HeldTrue
  <1>7. QED
    BY <1>3, <1>4, <1>5, <1>6 DEF MainInv, UserInv

(* The invariant of the surfaces and of the queue they show. *)
THEOREM PopoverInvariant == PopoverSpec => []PopoverInv
  <1>1. QueueInit /\ PopoverInit => PopoverInv
    BY InitInv, InitScreen DEF PopoverInv, MainInv, UserInv
  <1>2. PopoverInv /\ [PopoverNext]_<<queueVars, popoverVars>> => PopoverInv'
    <2> SUFFICES ASSUME PopoverInv, [PopoverNext]_<<queueVars, popoverVars>> PROVE PopoverInv'
      OBVIOUS
    <2>1. MainInv /\ UserInv /\ QueueInv
      BY DEF PopoverInv, MainInv, UserInv
    <2>2. QueueInv'
      BY <2>1, StepQueue, StepInv DEF MainInv, UserInv
    <2>3. MainInv'
      BY <2>1, StepMain
    <2>4. UserInv'
      BY <2>1, StepUser DEF MainInv
    <2>5. QED
      BY <2>2, <2>3, <2>4 DEF PopoverInv, MainInv, UserInv
  <1>3. QED
    BY <1>1, <1>2, PTL DEF PopoverSpec

(* The surfaces use the queue as its module allows, so what is proved of   *)
(* the queue holds of it in the running application.                       *)
THEOREM PopoverKeepsQueue == PopoverSpec => QueueSpec
  <1>1. PopoverInv /\ [PopoverNext]_<<queueVars, popoverVars>> => [QueueNext]_queueVars
    BY StepQueue DEF PopoverInv
  <1>2. QED
    BY <1>1, PopoverInvariant, PTL DEF PopoverSpec, QueueSpec

(* Once the repaints that wait have run, the badge and the cards are those *)
(* of the queue; a banner of a request that was decided here is gone or    *)
(* about to go.                                                            *)
THEOREM PopoverFollows == PopoverSpec => []PopoverCatchesUp
  <1>1. PopoverInv => PopoverCatchesUp
    <2> SUFFICES ASSUME PopoverInv PROVE PopoverCatchesUp
      OBVIOUS
    <2>1. DOMAIN mainQueue = 1 .. Len(mainQueue)
      BY DEF PopoverInv, QueueTypes
    <2>2. ASSUME app = "running", changed = {}, \A k \in DOMAIN mainQueue : mainQueue[k] # Refresh
          PROVE  ScreenTrue
      BY <2>1, <2>2 DEF PopoverInv, Follows
    <2>3. QED
      BY <2>2 DEF PopoverInv, Going, PopoverCatchesUp, ScreenTrue
  <1>2. QED
    BY <1>1, PopoverInvariant, PTL

(* A repaint leaves no button as it was held, and holds none that was not. *)
LEMMA RepaintTears ==
  ASSUME pressed \in Buttons, Rebuild, pressed # NoButton
  PROVE  pressed' # NoButton
  <1>1. pressed' = [pressed EXCEPT !.torn = (pressed # NoButton)]
    BY DEF Rebuild
  <1>2. pressed'.torn
    BY <1>1 DEF Buttons
  <1>3. ~NoButton.torn
    BY DEF NoButton, Button
  <1>4. QED
    BY <1>2, <1>3

(* What a click comes to is about the card it was made on. *)
LEMMA ClickActs ==
  ASSUME PopoverInv, Click, ~pressed.torn
  PROVE  /\ Target = pressed.req
         /\ \A r \in Pending : r \notin Pending' => r = pressed.req
         /\ alerts' # alerts => Head(alerts').req = pressed.req
  <1>1. Target = pressed.req /\ Target # NoRequest
    BY DEF PopoverInv, HeldTrue, Click
  <1>2. \A r \in Pending : r \notin Pending' => r = pressed.req
    <2>1. CASE pressed.kind \in {"approve", "reject"}
      <3> DEFINE v == IF pressed.kind = "approve" THEN "allow" ELSE "deny"
      <3>1. ResolveHere(Target, v)
        BY <2>1 DEF Click
      <3> HIDE DEF v
      <3>2. CASE Target \in Pending
        <4>1. entries' = [entries EXCEPT ![IdOf[Target]] = NoRequest]
          BY <3>1, <3>2 DEF ResolveHere, Resolve
        <4>2. entries[IdOf[Target]] = Target /\ entries \in [Ids -> Requests \cup {NoRequest}]
          BY <3>2 DEF Pending, PopoverInv, QueueInv, QueueTypeOK
        <4>3. ASSUME NEW r \in Pending, r # Target PROVE r \in Pending'
          <5>1. r \in Requests /\ IdOf[r] \in Ids /\ entries[IdOf[r]] = r
            BY <4>3, QueueAssumption DEF Pending
          <5>2. IdOf[r] # IdOf[Target]
            BY <4>2, <4>3, <5>1
          <5>3. entries'[IdOf[r]] = r
            BY <4>1, <4>2, <5>1, <5>2
          <5>4. QED
            BY <5>1, <5>3 DEF Pending
        <4>4. QED
          BY <1>1, <4>3
      <3>3. CASE Target \notin Pending
        BY <3>1, <3>3 DEF ResolveHere, Pending, queueVars
      <3>4. QED
        BY <3>2, <3>3
    <2>2. CASE pressed.kind \notin {"approve", "reject"}
      BY <2>2 DEF Click, Pending, queueVars
    <2>3. QED
      BY <2>1, <2>2
  <1>3. ASSUME alerts' # alerts PROVE Head(alerts').req = pressed.req
    <2>1. PICK kind \in {"allowlist", "trust", "revoke", "note"} :
            \/ alerts' = <<Alert(kind, Target, FALSE)>> \o alerts
            \/ alerts' = <<Alert(kind, Target, FALSE)>>
      <3>1. CASE pressed.kind \in {"allowlist", "trust"}
        <4>1. OpenPicker(pressed.kind, Target, FALSE)
          BY <3>1 DEF Click
        <4>2. QED
          BY <1>3, <3>1, <4>1 DEF OpenPicker
      <3>2. CASE pressed.kind = "revoke"
        BY <3>2 DEF Click
      <3>3. CASE pressed.kind \notin {"allowlist", "trust", "revoke"}
        BY <1>3, <3>3 DEF Click
      <3>4. QED
        BY <3>1, <3>2, <3>3
    <2>2. alerts = <<>>
      BY DEF Click
    <2>3. Head(alerts') = Alert(kind, Target, FALSE)
      <3>1. \A a : <<a>> \o <<>> = <<a>> /\ Head(<<a>>) = a
        OBVIOUS
      <3>2. alerts' = <<Alert(kind, Target, FALSE)>>
        BY <2>1, <2>2, <3>1
      <3>3. QED
        BY <3>1, <3>2
    <2>4. QED
      BY <1>1, <2>3 DEF Alert
  <1>4. QED
    BY <1>1, <1>2, <1>3

(* Only the user lets go of a button. *)
LEMMA LetGoOrClick ==
  ASSUME PopoverInv, [PopoverNext]_<<queueVars, popoverVars>>, pressed # NoButton, pressed' = NoButton
  PROVE  Click \/ LetGo
  <1>1. pressed \in Buttons
    BY DEF PopoverInv, UserTypes
  <1>2. ~FirstPaint /\ ~RunBlock
    <2>1. ~Rebuild
      BY <1>1, RepaintTears
    <2>2. QED
      BY <2>1 DEF FirstPaint, RunBlock, RunPaint, RunBanners, RunResponse, RunReport, RunStop,
                  RefreshUi, userVars
  <1>3. /\ ~SetListener /\ ~Press /\ ~TogglePopover /\ ~AnswerAlert /\ ~AskToQuit
        /\ ~ObserverSees /\ ~LoopReturned
    BY DEF SetListener, Press, TogglePopover, AnswerAlert, AskToQuit, ObserverSees, LoopReturned, userVars
  <1>4. \A r \in Requests : ~SubmitRequest(r) /\ ~NotifyWorker(r)
    BY DEF SubmitRequest, NotifyWorker, userVars
  <1>5. \A r \in Requests, v \in Verdicts : ~RuledByStore(r, v) /\ ~ApproveElsewhere(r, v)
    BY DEF RuledByStore, ApproveElsewhere, userVars
  <1>6. \A rows \in PastTails : ~WarmHistory(rows)
    BY DEF WarmHistory, popoverVars, userVars
  <1>7. \A c \in changed : ~ListenerRuns(c)
    BY DEF ListenerRuns, userVars
  <1>8. \A r \in Requests, op \in Responses : ~ClickBanner(r, op)
    BY DEF ClickBanner
  <1>9. \A j \in jobs : ~JobEnds(j) /\ \A r \in Requests : ~SweepApproves(j, r)
    BY DEF JobEnds, SweepApproves, userVars
  <1>10. ~UNCHANGED <<queueVars, popoverVars>>
    BY DEF popoverVars, userVars
  <1>11. QED
    BY <1>2, <1>3, <1>4, <1>5, <1>6, <1>7, <1>8, <1>9, <1>10 DEF PopoverNext

(* A click acts on the card it was made on, in whatever order the cards    *)
(* were drawn, unless its button was torn out while it was held.           *)
THEOREM ClicksOwnCard == PopoverSpec => ClicksActOnTheirCard
  <1> DEFINE Acts == pressed # NoButton /\ pressed' = NoButton /\ ~pressed.torn =>
                       /\ Target = pressed.req
                       /\ \A r \in Pending : r \notin Pending' => r = pressed.req
                       /\ alerts' # alerts => Head(alerts').req = pressed.req
  <1>1. PopoverInv /\ [PopoverNext]_<<queueVars, popoverVars>> => [Acts]_<<queueVars, popoverVars>>
    <2> SUFFICES ASSUME PopoverInv, [PopoverNext]_<<queueVars, popoverVars>>,
                        pressed # NoButton, pressed' = NoButton, ~pressed.torn
                 PROVE  /\ Target = pressed.req
                        /\ \A r \in Pending : r \notin Pending' => r = pressed.req
                        /\ alerts' # alerts => Head(alerts').req = pressed.req
      OBVIOUS
    <2>1. CASE Click
      BY <2>1, ClickActs
    <2>2. CASE LetGo
      BY <2>2 DEF LetGo, PopoverInv, HeldTrue, Pending, queueVars
    <2>3. QED
      BY <2>1, <2>2, LetGoOrClick
  <1>2. QED
    BY <1>1, PopoverInvariant, PTL DEF PopoverSpec, ClicksActOnTheirCard
=============================================================================
