------------------------------ MODULE Vetterd -------------------------------
(***************************************************************************)
(* The daemon as a whole (vetterd/src/lib.rs): clients connect, an accept  *)
(* loop gives each a worker thread up to a cap, a worker reads and         *)
(* evaluates one request, parks it on the pending queue or decides it,     *)
(* appends to the audit log and answers; approvers and rule writers act on *)
(* the same queue and store meanwhile; a signal winds everything down in   *)
(* an order that depends on the driver; the process can be killed at any   *)
(* point, and a new one starts from the files it left.                     *)
(*                                                                         *)
(* Composes PendingQueue, AllowlistStore and AuditLog, one instance each.  *)
(***************************************************************************)
EXTENDS Naturals, Sequences, FiniteSets

CONSTANTS
  Requests,     \* one `vet <command>` invocation each
  NoRequest,
  Rules, NoRule, Session, Covers, Denied, Writers, Clis,  \* see AllowlistStore
  RuleJobs,     \* the adds and removes the writers are asked for
  DryRun,       \* requests sent with force_prompt
  Unparseable,  \* requests whose argv the daemon's parser refuses
  ResolvedCap,  \* RESOLVED_CAP
  MaxInflight,  \* VETTERD_MAX_INFLIGHT
  DiskFull,     \* requests whose audit append may fail
  MaxStarts,    \* bound: how often the daemon is started
  Drivers       \* what the main thread runs: "none", "glib" or "appkit"

ASSUME VetterdAssumption ==
  /\ IsFiniteSet(Requests) /\ NoRequest \notin Requests
  /\ DryRun \cup Unparseable \cup DiskFull \subseteq Requests
  /\ MaxInflight \in Nat \ {0}
  /\ MaxStarts \in Nat \ {0}
  /\ Drivers \subseteq {"none", "glib", "appkit"}
  /\ ResolvedCap \in Nat \ {0}
  /\ Rules # {} /\ NoRule \notin Rules /\ Session \subseteq Rules
  /\ Covers \in [Rules -> SUBSET Requests] /\ Denied \subseteq Requests
  /\ Writers \cap Clis = {}
  /\ RuleJobs \subseteq [kind : {"add", "remove"}, rule : Rules]

VARIABLES
  entries, calls, raised, handoff, mail, hungup, resolved,  \* PendingQueue
  disk, live, expired, wpc, wjob, wbuf,                     \* AllowlistStore
  log, synced, tried, acked,                                \* AuditLog
  sweep,      \* what each writer's sweep over the queue has left to look at
  phase,      \* of the process: "serving", "cancelled", "down"
  shutdown,   \* the flag the signal handlers and the tray's Quit set
  acceptor,   \* the accept loop: "poll", "armed" (saw the flag clear), "closing"
              \* (returning, the listener still open), "stopped" (listener closed)
  inflight,   \* the atomic worker count
  starts,     \* how often the daemon has been started
  driver,     \* PlatformDriver: under "none" main is the accept loop itself,
              \* otherwise it runs a desktop loop beside the accept thread
  worker,     \* where each connection's worker is
  said,       \* the verdict a worker holds
  wire,       \* what each client's socket has to read
  client      \* each `vet` process

queueVars == <<entries, calls, raised, handoff, mail, hungup, resolved>>
storeVars == <<disk, live, expired, wpc, wjob, wbuf>>
auditVars == <<log, synced, tried, acked>>
connVars  == <<worker, said, wire, client>>
bootVars  == <<starts, driver>>
procVars  == <<phase, shutdown, acceptor, inflight, bootVars>>
vars == <<queueVars, storeVars, auditVars, sweep, procVars, connVars>>

Verdict(d, y) == [decision |-> d, why |-> y]
Verdicts ==
  {Verdict("allow", y) : y \in {"rule", "approver", "newrule"}} \cup
  {Verdict("deny", y) : y \in {"denylist", "parse", "approver", "shutdown"}}
NoVerdict == [decision |-> "none", why |-> "none"]

AuditRows == [req : Requests, verdict : Verdicts]
HasCard(row) == row.verdict.why # "parse"
TwoBytes(row) == 2

Q == INSTANCE PendingQueue
       WITH Past <- {}, Ids <- Requests, IdOf <- [r \in Requests |-> r]
S == INSTANCE AllowlistStore WITH IdOf <- [k \in Rules |-> k]
A == INSTANCE AuditLog
       WITH Ui <- HasCard, SizeOf <- TwoBytes, WindowStart <- 2

Running == phase # "down"
NoSweep == [listed |-> FALSE, ids |-> {}]

-----------------------------------------------------------------------------
(* What `run` sets up for a fresh process: an empty queue warmed from the  *)
(* tail of the log, and the store as the file has it.                      *)
FreshProcess ==
  /\ phase    = "serving"
  /\ shutdown = FALSE
  /\ acceptor = "poll"
  /\ inflight = 0
  /\ sweep    = [w \in Writers |-> NoSweep]

VetterdInit ==
  /\ Q!QueueInit
  /\ S!StoreInit
  /\ A!AuditInit
  /\ FreshProcess
  /\ starts   = 1
  /\ driver   \in Drivers
  /\ worker   = [r \in Requests |-> "none"]
  /\ said     = [r \in Requests |-> NoVerdict]
  /\ wire     = [r \in Requests |-> "empty"]
  /\ client   = [r \in Requests |-> "new"]

-----------------------------------------------------------------------------
(* Clients (vet/src/wrap.rs).                                              *)

(* A connection the kernel has queued on the listener; refused when no     *)
(* daemon runs or the one that does has closed its listener.               *)
Connect(r) ==
  /\ client[r] = "new"
  /\ IF Running /\ acceptor # "stopped"
     THEN /\ client' = [client EXCEPT ![r] = "asking"]
          /\ worker' = [worker EXCEPT ![r] = "backlog"]
     ELSE /\ client' = [client EXCEPT ![r] = "failed"]
          /\ UNCHANGED worker
  /\ UNCHANGED <<queueVars, storeVars, auditVars, sweep, procVars, said, wire>>

(* Allow execs whether or not this was a dry run; end of file fails closed. *)
ClientReads(r) ==
  /\ client[r] = "asking"
  /\ wire[r] # "empty"
  /\ client' = [client EXCEPT ![r] = CASE wire[r] = "allow" -> "ran"
                                       [] wire[r] = "deny"  -> "denied"
                                       [] wire[r] = "eof"   -> "failed"]
  /\ UNCHANGED <<queueVars, storeVars, auditVars, sweep, procVars, worker, said, wire>>

(* Ctrl-C.  No worker is told: a parked one stays parked. *)
ClientLeaves(r) ==
  /\ client[r] = "asking"
  /\ client' = [client EXCEPT ![r] = "gone"]
  /\ UNCHANGED <<queueVars, storeVars, auditVars, sweep, procVars, worker, said, wire>>

-----------------------------------------------------------------------------
(* The accept loop.  An iteration's end and the next one's look at the     *)
(* shutdown flag are one step; then the loop is armed for one accept even  *)
(* if the flag is set meanwhile.                                           *)

NextIteration == IF shutdown THEN "closing" ELSE "armed"

AcceptorStarts ==
  /\ Running
  /\ acceptor = "poll"
  /\ acceptor' = NextIteration
  /\ UNCHANGED <<queueVars, storeVars, auditVars, sweep, phase, shutdown, inflight,
                 bootVars, connVars>>

(* Fault: the cap is compared with > instead of >=. *)
AcceptOneTooMany(r) ==
  /\ acceptor = "armed"
  /\ worker[r] = "backlog"
  /\ acceptor' = NextIteration
  /\ inflight <= MaxInflight
  /\ worker'   = [worker EXCEPT ![r] = "read"]
  /\ inflight' = inflight + 1
  /\ UNCHANGED <<queueVars, storeVars, auditVars, sweep, phase, shutdown, bootVars, said, wire,
                 client>>

(* Fault: a connection dropped at the cap keeps the slot it reserved. *)
AcceptLeaksSlot(r) ==
  /\ acceptor = "armed"
  /\ worker[r] = "backlog"
  /\ acceptor' = NextIteration
  /\ IF inflight >= MaxInflight
     THEN /\ wire'   = [wire EXCEPT ![r] = "eof"]
          /\ worker' = [worker EXCEPT ![r] = "ended"]
     ELSE /\ worker' = [worker EXCEPT ![r] = "read"]
          /\ UNCHANGED wire
  /\ inflight' = inflight + 1
  /\ UNCHANGED <<queueVars, storeVars, auditVars, sweep, phase, shutdown, bootVars, said, client>>

(* Reserve a slot, then check the cap: over it, give the slot back and     *)
(* drop the stream.  The worker thread starts with the slot's guard.       *)
Accept(r) ==
  /\ acceptor = "armed"
  /\ worker[r] = "backlog"
  /\ acceptor' = NextIteration
  /\ IF inflight >= MaxInflight
     THEN /\ wire'   = [wire EXCEPT ![r] = "eof"]
          /\ worker' = [worker EXCEPT ![r] = "ended"]
          /\ UNCHANGED inflight
     ELSE /\ worker'   = [worker EXCEPT ![r] = "read"]
          /\ inflight' = inflight + 1
          /\ UNCHANGED wire
  /\ UNCHANGED <<queueVars, storeVars, auditVars, sweep, phase, shutdown, bootVars, said, client>>

(* Nothing to accept: sleep 100 ms and look at the flag. *)
AcceptWouldBlock ==
  /\ acceptor = "armed"
  /\ \A r \in Requests : worker[r] # "backlog"
  /\ shutdown
  /\ acceptor' = NextIteration
  /\ UNCHANGED <<queueVars, storeVars, auditVars, sweep, phase, shutdown, inflight,
                 bootVars, connVars>>

(* accept_loop owns the listener: its return, for whatever reason, drops   *)
(* it, and what the kernel had queued on it reads end of file.             *)
DropListener ==
  /\ acceptor' = "stopped"
  /\ worker' = [r \in Requests |-> IF worker[r] = "backlog" THEN "ended" ELSE worker[r]]
  /\ wire'   = [r \in Requests |-> IF worker[r] = "backlog" THEN "eof" ELSE wire[r]]
  /\ UNCHANGED <<queueVars, storeVars, auditVars, sweep, phase, shutdown, inflight,
                 bootVars, said, client>>

(* The flag was seen: accept_loop returns. *)
CloseListener ==
  /\ acceptor = "closing"
  /\ DropListener

(* Any other accept error is returned too, whatever the flag says. *)
AcceptFails ==
  /\ acceptor = "armed"
  /\ DropListener

-----------------------------------------------------------------------------
(* A connection worker (handle_connection, policy::evaluate and            *)
(* resolve_outcome).                                                       *)

Step(r, from, to) ==
  /\ worker[r] = from
  /\ worker' = [worker EXCEPT ![r] = to]

(* A peer that leaves first, or sends nothing within the read deadline. *)
ReadFails(r) ==
  /\ Step(r, "read", "leave")
  /\ wire' = [wire EXCEPT ![r] = "eof"]
  /\ UNCHANGED <<queueVars, storeVars, auditVars, sweep, procVars, said, client>>

(* Fault: a denylist match is put to a human. *)
RulingAsksAnyway(r) ==
  IF r \in Unparseable THEN Verdict("deny", "parse")
  ELSE IF r \notin DryRun /\ S!Decide(live, r) = "allow" THEN Verdict("allow", "rule")
  ELSE NoVerdict

(* The matcher's ruling under the store as it is now; "none" is a prompt. *)
Ruling(r) ==
  LET d == S!Decide(live, r)
  IN  CASE r \in Unparseable -> Verdict("deny", "parse")
        [] r \notin Unparseable /\ (r \in DryRun \/ d = "prompt") -> NoVerdict
        [] r \notin Unparseable \cup DryRun /\ d = "allow" -> Verdict("allow", "rule")
        [] r \notin Unparseable \cup DryRun /\ d = "deny" -> Verdict("deny", "denylist")

(* Read the frame, parse, and evaluate with both stores read-locked; the   *)
(* locks are released before the queue is touched.                         *)
Evaluate(r) ==
  /\ Step(r, "read",
          IF r \in Unparseable THEN "audit" ELSE IF Ruling(r) = NoVerdict THEN "submit" ELSE "auto")
  /\ said' = [said EXCEPT ![r] = Ruling(r)]
  /\ UNCHANGED <<queueVars, storeVars, auditVars, sweep, procVars, wire, client>>

(* Fault: an automatic ruling is answered without an audit row. *)
RecordRulingUnaudited(r) ==
  /\ Step(r, "auto", "reply")
  /\ Q!RecordAuto(r, said[r])
  /\ UNCHANGED <<storeVars, auditVars, sweep, procVars, said, wire, client>>

RecordRuling(r) ==
  /\ Step(r, "auto", "audit")
  /\ Q!RecordAuto(r, said[r])
  /\ UNCHANGED <<storeVars, auditVars, sweep, procVars, said, wire, client>>

SubmitPrompt(r) ==
  /\ Step(r, "submit", "parked")
  /\ Q!Submit(r)
  /\ UNCHANGED <<storeVars, auditVars, sweep, procVars, said, wire, client>>

(* Fault: the worker gives up when its client has gone. *)
WakeOnDisconnect(r) ==
  /\ mail[r] # NoVerdict \/ r \in hungup \/ client[r] = "gone"
  /\ Step(r, "parked", "audit")
  /\ said' = [said EXCEPT ![r] = IF mail[r] # NoVerdict THEN mail[r]
                                 ELSE Verdict("deny", "shutdown")]
  /\ UNCHANGED <<queueVars, storeVars, auditVars, sweep, procVars, wire, client>>

(* rx.recv(): the verdict, or an error once the sender has been dropped. *)
Wake(r) ==
  /\ mail[r] # NoVerdict \/ r \in hungup
  /\ Step(r, "parked", "audit")
  /\ said' = [said EXCEPT ![r] = IF mail[r] # NoVerdict THEN mail[r]
                                 ELSE Verdict("deny", "shutdown")]
  /\ UNCHANGED <<queueVars, storeVars, auditVars, sweep, procVars, wire, client>>

AuditRow(r) == [req |-> r, verdict |-> said[r]]

(* Audit before replying; a failed append is logged and not fatal. *)
AppendRow(r) ==
  /\ Step(r, "audit", "reply")
  /\ \/ A!AppendOk(AuditRow(r))
     \/ r \in DiskFull /\ \E n \in 0 .. TwoBytes(AuditRow(r)) : A!AppendFails(AuditRow(r), n)
  /\ UNCHANGED <<queueVars, storeVars, sweep, procVars, said, wire, client>>

Reply(r) ==
  /\ Step(r, "reply", "leave")
  /\ wire' = [wire EXCEPT ![r] = said[r].decision]
  /\ UNCHANGED <<queueVars, storeVars, auditVars, sweep, procVars, said, client>>

(* The thread ends and its InflightGuard drops, after the stream closed. *)
Leave(r) ==
  /\ Step(r, "leave", "ended")
  /\ inflight' = inflight - 1
  /\ UNCHANGED <<queueVars, storeVars, auditVars, sweep, phase, shutdown, acceptor, bootVars,
                 said, wire, client>>

WorkerStep(r) ==
  \/ ReadFails(r)
  \/ Evaluate(r)
  \/ RecordRuling(r)
  \/ SubmitPrompt(r)
  \/ Wake(r)
  \/ AppendRow(r)
  \/ Reply(r)
  \/ Leave(r)

-----------------------------------------------------------------------------
(* Approvers and rule writers.                                             *)

(* The window, the tray, a notification button or the admin socket. *)
Approve(r, d) ==
  /\ Running
  /\ Q!Resolve(r, Verdict(d, "approver"))
  /\ UNCHANGED <<storeVars, auditVars, sweep, procVars, connVars>>

DeliverVerdict(r) ==
  /\ Running
  /\ Q!Deliver(r)
  /\ UNCHANGED <<storeVars, auditVars, sweep, procVars, connVars>>

(* A writer thread begins an add or a remove; a CLI needs no daemon. *)
BeginWrite(w, job) ==
  /\ w \in Writers => Running
  /\ S!ReadFile(w, job)
  /\ UNCHANGED <<queueVars, auditVars, sweep, procVars, connVars>>

ContinueWrite(w) ==
  /\ w \in Writers => Running
  /\ S!WriterStep(w)
  /\ UNCHANGED <<queueVars, auditVars, sweep, procVars, connVars>>

(* pending_summaries, after the store snapshot was taken. *)
ListPending(w) ==
  /\ wpc[w] = "sweep"
  /\ ~sweep[w].listed
  /\ sweep' = [sweep EXCEPT ![w] = [listed |-> TRUE, ids |-> Q!Pending]]
  /\ UNCHANGED <<queueVars, storeVars, auditVars, procVars, connVars>>

(* Resolve a listed request if the snapshot allows it by the added rule.   *)
(* force_prompt is not looked at.                                          *)
SweepOne(w, r) ==
  LET hit == S!Decide(wbuf[w], r) = "allow" /\ S!FirstMatch(wbuf[w], r) = wjob[w].rule
  IN  /\ r \in sweep[w].ids
      /\ sweep' = [sweep EXCEPT ![w].ids = @ \ {r}]
      /\ IF hit /\ entries[r] # NoRequest
         THEN Q!Resolve(r, Verdict("allow", "newrule"))
         ELSE UNCHANGED queueVars
      /\ UNCHANGED <<storeVars, auditVars, procVars, connVars>>

(* Fault: an add waits for the queue to drain. *)
EndWriteWhenDrained(w) ==
  /\ sweep[w].listed
  /\ sweep[w].ids = {}
  /\ Q!Pending = {}
  /\ S!FinishAdd(w)
  /\ sweep' = [sweep EXCEPT ![w] = NoSweep]
  /\ UNCHANGED <<queueVars, auditVars, procVars, connVars>>

EndWrite(w) ==
  /\ sweep[w].listed
  /\ sweep[w].ids = {}
  /\ S!FinishAdd(w)
  /\ sweep' = [sweep EXCEPT ![w] = NoSweep]
  /\ UNCHANGED <<queueVars, auditVars, procVars, connVars>>

SweepStep(w) ==
  \/ ListPending(w)
  \/ \E r \in Requests : SweepOne(w, r)
  \/ EndWrite(w)

RuleExpires(k) ==
  /\ S!Expire(k)
  /\ UNCHANGED <<queueVars, auditVars, sweep, procVars, connVars>>

-----------------------------------------------------------------------------
(* The process.                                                            *)

(* SIGTERM, SIGINT or the tray's Quit. *)
Signal ==
  /\ Running
  /\ ~shutdown
  /\ shutdown' = TRUE
  /\ UNCHANGED <<queueVars, storeVars, auditVars, sweep, phase, acceptor, inflight, bootVars,
                 connVars>>

(* Without a desktop loop the main thread is the accept loop and cancels   *)
(* after it; with one it cancels first and then joins the accept thread.   *)
(* run_glib returns once the flag is set.  run_app_kit returns when NSApp  *)
(* stops: the one stop block the flag leads to may only end an open alert, *)
(* so on AppKit nothing says that this step is ever taken (see Fairness).  *)
MainCancels ==
  /\ phase = "serving"
  /\ IF driver = "none" THEN acceptor = "stopped" ELSE shutdown
  /\ phase' = "cancelled"
  /\ Q!CancelAll
  /\ UNCHANGED <<storeVars, auditVars, sweep, shutdown, acceptor, inflight, bootVars, connVars>>

(* The kernel closes every socket; threads and in-memory state are gone.   *)
(* Workers are not joined, so this can cut any of them short.              *)
ProcessEnds ==
  /\ phase'    = "down"
  /\ shutdown' = FALSE
  /\ acceptor' = "poll"
  /\ inflight' = 0
  /\ sweep'    = [w \in Writers |-> NoSweep]
  /\ entries'  = [r \in Requests |-> NoRequest]
  /\ calls'    = [r \in Requests |-> "none"]
  /\ raised'   = {}
  /\ handoff'  = [r \in Requests |-> NoVerdict]
  /\ mail'     = [r \in Requests |-> NoVerdict]
  /\ hungup'   = {}
  /\ resolved' = <<>>
  /\ wpc'      = [w \in Writers \cup Clis |-> IF w \in Writers THEN "idle" ELSE wpc[w]]
  /\ wbuf'     = [w \in Writers \cup Clis |-> IF w \in Writers THEN <<>> ELSE wbuf[w]]
  /\ worker'   = [r \in Requests |-> IF worker[r] = "none" THEN "none" ELSE "ended"]
  /\ wire'     = [r \in Requests |-> IF worker[r] # "none" /\ wire[r] = "empty" THEN "eof"
                                     ELSE wire[r]]
  /\ UNCHANGED <<disk, live, expired, wjob, auditVars, bootVars, said, client>>

(* Fault: every worker is joined first. *)
ExitJoinsWorkers ==
  /\ phase = "cancelled"
  /\ acceptor = "stopped"
  /\ \A r \in Requests : worker[r] \in {"none", "backlog", "ended"}
  /\ ProcessEnds

(* The end of `run`: the accept loop is over and the queue cancelled. *)
Exit ==
  /\ phase = "cancelled"
  /\ acceptor = "stopped"
  /\ ProcessEnds

(* kill -9, or a panic on the main thread. *)
Crash ==
  /\ Running
  /\ ProcessEnds

(* Fault: a row read back shows the default decision. *)
WarmRowsDefaulted ==
  LET rows == A!TailResolved(ResolvedCap)
  IN  [k \in DOMAIN rows |-> [rows[k] EXCEPT !.verdict = Verdict("allow", "approver")]]

(* The history the daemon refills its ring with; parse failures have none. *)
WarmRows == A!TailResolved(ResolvedCap)

(* A log that cannot be read leaves the ring empty. *)
Start ==
  /\ phase = "down"
  /\ starts < MaxStarts
  /\ starts' = starts + 1
  /\ phase'  = "serving"
  /\ live'   = disk
  /\ resolved' \in {Q!WarmedWith(WarmRows, <<>>), <<>>}
  /\ UNCHANGED <<entries, calls, raised, handoff, mail, hungup, disk, expired, wpc, wjob, wbuf,
                 auditVars, sweep, shutdown, acceptor, inflight, driver, connVars>>

-----------------------------------------------------------------------------
ClientNext    == \E r \in Requests : Connect(r) \/ ClientReads(r) \/ ClientLeaves(r)
AcceptorNext  == \/ AcceptorStarts
                 \/ \E r \in Requests : Accept(r)
                 \/ AcceptWouldBlock
                 \/ CloseListener
                 \/ AcceptFails
WorkerNext    == \E r \in Requests : WorkerStep(r)
ApproverNext  == \E r \in Requests : Approve(r, "allow") \/ Approve(r, "deny") \/ DeliverVerdict(r)
WriterNext    == \/ \E w \in Writers \cup Clis :
                      ContinueWrite(w) \/ \E job \in RuleJobs : BeginWrite(w, job)
                 \/ \E w \in Writers : SweepStep(w)
ProcessNext   == Signal \/ MainCancels \/ Exit \/ Crash \/ Start

VetterdNext ==
  \/ ClientNext
  \/ AcceptorNext
  \/ WorkerNext
  \/ ApproverNext
  \/ WriterNext
  \/ \E k \in Rules : RuleExpires(k)
  \/ ProcessNext

VetterdSpec == VetterdInit /\ [][VetterdNext]_vars

(* Threads that can run do run, and a started client reads its answer.     *)
(* Nobody is obliged to connect, approve, edit rules, send a signal, start *)
(* the daemon again, or let a rule expire; nothing has to fail; and on     *)
(* AppKit the main thread need not come back from the desktop loop.        *)
Fairness ==
  /\ \A r \in Requests :
       /\ WF_vars(ClientReads(r))
       /\ WF_vars(Evaluate(r) \/ RecordRuling(r) \/ SubmitPrompt(r) \/ Wake(r) \/ AppendRow(r)
                  \/ Reply(r) \/ Leave(r))
       /\ WF_vars(DeliverVerdict(r))
  /\ \A w \in Writers : WF_vars(ContinueWrite(w)) /\ WF_vars(SweepStep(w))
  /\ WF_vars(AcceptorStarts)
  /\ WF_vars(\E r \in Requests : Accept(r))
  /\ WF_vars(AcceptWouldBlock)
  /\ WF_vars(CloseListener)
  /\ WF_vars(driver # "appkit" /\ MainCancels)
  /\ WF_vars(Exit)

FairVetterdSpec == VetterdSpec /\ Fairness

-----------------------------------------------------------------------------
VetterdTypeOK ==
  /\ Q!QueueTypeOK
  /\ S!StoreTypeOK
  /\ A!AuditTypeOK
  /\ sweep    \in [Writers -> [listed : BOOLEAN, ids : SUBSET Requests]]
  /\ phase    \in {"serving", "cancelled", "down"}
  /\ shutdown \in BOOLEAN
  /\ acceptor \in {"poll", "armed", "closing", "stopped"}
  /\ inflight \in 0 .. MaxInflight
  /\ starts   \in 1 .. MaxStarts
  /\ driver   \in Drivers
  /\ worker   \in [Requests -> {"none", "backlog", "read", "auto", "submit", "parked", "audit",
                                "reply", "leave", "ended"}]
  /\ said     \in [Requests -> Verdicts \cup {NoVerdict}]
  /\ wire     \in [Requests -> {"empty", "allow", "deny", "eof"}]
  /\ client   \in [Requests -> {"new", "asking", "ran", "denied", "failed", "gone"}]

(* The inflight count is the number of live worker threads: no path out of *)
(* a connection, and no drop at the cap, leaks or returns a slot too many, *)
(* so the cap is never exceeded and never shrinks over a daemon's life.    *)
SlotsMatchWorkers ==
  inflight = Cardinality({r \in Requests : worker[r] \notin {"none", "backlog", "ended"}})

(* The Recent list, the audit log and the worker agree on the verdict of a *)
(* request, also when the list was refilled from the log by a later daemon *)
(* and when several approvers and the rule sweep raced for the request.    *)
OneStory ==
  /\ \A k \in DOMAIN resolved :
       LET row == resolved[k] IN
         said[row.req] \in {row.verdict, NoVerdict} /\ row.req \notin Unparseable
  /\ \A i \in DOMAIN log : log[i].row.verdict = said[log[i].row.req]

(* Every prompt a worker is blocked on can still be answered or has been,  *)
(* and every prompt the approvers see has a worker blocked on it.          *)
PromptsHaveWaiters ==
  \A r \in Requests :
    /\ worker[r] = "parked" =>
         Q!InMap(r) \/ Q!InHand(r) \/ Q!Delivered(r) \/ Q!HungUp(r)
    /\ Q!InMap(r) => worker[r] = "parked"

(* The daemon implements the gate. *)
G == INSTANCE Gate
       WITH Barred   <- (Denied \ DryRun) \cup Unparseable,
            ruling   <- [r \in Requests |-> said[r].decision],
            recorded <- {row.req : row \in tried},
            command  <- [r \in Requests |->
                           CASE client[r] \in {"new", "asking"} -> "waiting"
                             [] client[r] = "ran" -> "ran"
                             [] client[r] \in {"denied", "failed", "gone"} -> "stopped"]

(* Every behaviour of the daemon, its clients and its crashes is one the   *)
(* Gate allows: no command runs unless a single ruling allowed it and the  *)
(* ruling had been handed to the audit log, and none that is barred runs.  *)
ImplementsGate == G!GateSpec

(* Quit never leaves a client waiting, in whatever state it catches its    *)
(* worker: a prompt submitted after cancel_all is freed by process exit.   *)
(* On AppKit, where an alert can swallow the stop, the clients left are    *)
(* those with a prompt still on the queue for a human to answer.           *)
ShutdownFreesClients ==
  shutdown ~> \A r \in Requests :
                client[r] = "asking" => driver = "appkit" /\ Q!InMap(r)

(* A verdict that left the queue ends its client's wait, one way or other. *)
VerdictEndsWait ==
  \A r \in Requests : handoff[r] # NoVerdict ~> client[r] # "asking"

(* Every add and remove in the daemon comes to an end. *)
WritesEnd == \A w \in Writers : wpc[w] = "write" ~> S!AtRest(w)

(* When no human is needed none is waited for: a request the parser or the *)
(* denylist refuses is answered, or its client fails closed, also when the *)
(* accept loop fails under it and the desktop loop goes on regardless.     *)
RefusalsNeedNoHuman ==
  \A r \in Unparseable \cup (Denied \ DryRun) :
    client[r] = "asking" ~> client[r] # "asking"

(* plans/Overview.md, "never exec": a dry run never runs its command. *)
DryRunNeverExecs == \A r \in DryRun : client[r] # "ran"

(* add_allowlist_rule, "auto-resolve every pending request whose new       *)
(* decision is Allow": with no write under way, no prompt stays pending    *)
(* that the rules now allow.                                               *)
NoPendingAllowed ==
  (\A w \in Writers : wpc[w] = "idle") =>
    \A r \in Q!Pending \ DryRun : S!Decide(live, r) # "allow"
=============================================================================
