# A verification development of vetter

vetter puts a human, or a rule the human wrote, between an agent and the
commands it runs. `vet curl …` sends the command line to a per-user daemon,
`vetterd`, waits for its decision, and then either replaces itself with the
command or exits. This directory holds TLA+ models of that machinery, the TLC
configurations that check them on small instances, and proofs, checked by
TLAPS, that most of the parts are right for every size of instance.

Contents: [inventory](#inventory), [plan](#plan), [modules](#modules),
[runs](#runs), [bounds](#bounds), [fairness](#fairness), [proofs](#proofs),
[disagreements found](#disagreements-with-the-documentation),
[limits](#what-is-not-modelled).

## Inventory

| Part | State it keeps | Operations | Talks to | Modules |
| --- | --- | --- | --- | --- |
| pending queue, `vetterd/src/pending.rs` | map id → entry with a one-shot sender; ring of 20 decided rows | submit, resolve, record_auto, warm_resolved, cancel_all, refresh_with | workers block on its channels; every approver resolves; listeners are called after the unlock | `PendingQueue` |
| allowlist store, `vetterd/src/suggestions.rs`, `vetter-core/src/matcher` | `allowlist.yaml`, the copy behind an `RwLock` | load, decide, add, remove, expire, sweep of the queue | workers read it; the admin thread, window threads and `vet allow` write it | `AllowlistStore`, `SerialStore` |
| rule matching, suggestions | none | fires, decide, glob, the rules and hosts a card offers | workers, pickers | `Patterns`, `Glob`, `Matcher`, `Suggest`, `Offered` |
| audit log, `vetterd/src/audit.rs` | an append-only file | open, append, tail | every worker appends before it answers; start-up refills the ring from it | `AuditLog` |
| daemon core, `vetterd/src/lib.rs`, `policy.rs` | shutdown flag, inflight count, one thread per connection | accept, handle a connection, resolve by id, start, stop | all of the above | `Gate`, `Vetterd` |
| wrapper and parser, `vet/src/wrap.rs`, `vetter-core/src/parsers` | one process per command | look up argv[0], parse, connect, wait, exec or fail | the daemon's socket | `Dispatch`, `CurlFlags`, `CurlParser`, `CurlCommand`, `Admission` |
| known hosts, `known_hosts.rs`, `signals` | a YAML file and its copy | load, add, signals of a request, refresh of cards | workers, writers, the queue | `KnownHosts`, `Signals`, `Admission` |
| linux notifier, `notifier/linux.rs` | jobs queue, banner ↔ request map, early answers, activation tokens | post, reconcile, clicks, server restart, shutdown | queue listeners, D-Bus | `Notifier` |
| tray, `tray.rs` | published cards | refresh, clicks, Quit | queue listeners, shutdown flag | `Tray` |
| linux window, `runloop/linux/` | cards, open sections, raise request and result slots | repaint, raise, measure, click | queue listeners, admin thread | `Window` |
| macOS surfaces, `runloop/mod.rs`, `popover*.rs` | badge, cards, button registries, alerts, banners | repaint, click, pick, persist, banner answers | queue listeners, the main dispatch queue | `Popover` |
| settings and autostart | `settings.yaml`, a login entry | set, toggle, show, reconcile | window, popover, admin socket, start-up | `Autostart` |
| pidfile and sockets, `vet/src/daemon.rs`, doctor's check | a locked file, two socket files | acquire, bind, serve, remove; start, stop, status | daemons, the wrapper's check of its peer | `Lifecycle` |
| rendering, cards' view models, wire framing, other diagnostics | none | pure functions and one-shot reports | | not modelled |

What is hard here is not any one of those but what happens between them:

* **Interleaving.** A worker rules under the stores' read locks, lets go of
  them, and only then enters the queue; a rule or a host can be added in
  between. Five kinds of approver race for one request. The verdict travels
  map → hand → channel in separate steps, and `cancel_all` can come at any of
  them. Three threads share the map of banners and lock it once per step.
* **Read-modify-write without a lock.** The allowlist, the known hosts and the
  settings are read, edited and renamed into place by threads and processes
  that do not exclude each other.
* **Paths that outlive files.** A pidfile or a socket can be unlinked by one
  daemon after another has opened or replaced it.
* **Failure.** An append can fail half way, power can go, the process can be
  killed with clients waiting, a reload can fail after the file was written,
  a notification server can leave and come back with the same ids.
* **Order of shutdown.** With a desktop loop the main thread cancels the queue
  and then joins the accept thread; without one it accepts first and cancels
  after. Workers are never joined.
* **Stale screens.** A click acts on what was drawn, a banner answers for an id
  that may have been given out again, a button carries an index into lists that
  every repaint refills.
* **Limits.** The inflight cap, the ring's cap, the tail's read window, the
  second at which a rule expires, the one-place slots of the window.

The properties that make the parts correct: the queue never orphans a worker
and never answers it twice, and its history is true; the store is the file
while writers do not overlap, the file always loads, and a picked rule allows
its request and nothing unlike it; the log keeps what it acknowledged and its
tail is the newest of it; what a card shows is what the words of the command
say; surfaces catch up with the queue and a click decides what it showed; a
daemon that serves is the one everybody finds; the last wish for a setting
stands; and the whole implements a gate: *no command runs without one recorded
ruling to allow it, and anything that goes wrong ends with the command not
run.*

## Plan

Done, in this order: the queue; the store, the log and the gate; `Vetterd`,
which composes them, with its liveness and its crashes; the Linux session
(`Notifier`, `Tray`, `Window`, composed with the queue in `Desktop`); the
matcher, the globs and the rules a card offers, on which the store now runs;
the way of a curl command to its card (`Admission`); the files on the host
(`Lifecycle`, `Autostart`); the macOS surfaces (`Popover`).

Left, in order of what it would add:

1. The window's and the popover's three settings toggles as part of `Desktop`
   and `Popover`; today `Autostart` has them with the rest of the session left
   out.
2. A proof of the step before the tokens (`ShownIsWritten`), which needs a
   definition, apart from the tokeniser, of what spells a flag.
3. The deny list as part of the file: `vet allow rm` and Revoke can remove a
   deny rule, and deny rules can expire.
4. The match of an id prefix in `handle_resolve`, and the mock notifier.

## Modules

`PROJECT.json` maps each definition to the lines it stands for.

**`PendingQueue`**, `pending.rs`. `entries` is the map, but only who is stored
under an id; the sender is represented by where it has got to: `InMap`,
`InHand` (a resolving thread took the entry out and has not sent yet),
`Delivered` (in the worker's channel) or `HungUp` (dropped). `Resolve` is the
critical section of `resolve`, `Deliver` the `send` after the unlock; the two
are separate steps because the code separates them. `calls` records the entry
point each worker has used; a worker calls `submit` or `record_auto` once.
Ids are distinct from requests so that the duplicate-id path exists. Change
listeners are not here: they carry no data, and belong to the surfaces.
`refresh_with` rewrites card data and is `RefreshCards` of `Admission`.

**`AllowlistStore`**, `suggestions.rs`, `loader.rs`, `decide.rs`, `allow.rs`.
A writer is a thread or process with a program counter: `ReadFile` (load, prune,
edit, check ids), `WriteFile` (the rename), then for the daemon `LoadStore`,
`InstallStore`, and for an add `SnapshotStore` and the sweep. `FailStep` is an
error from the write or the reload. A rule is a value; which requests it covers
is the constant `Covers`, which `Offered` ties to `Matcher`;
`Session` rules are searched first and can expire.
The `!` of an id that is already there or missing is the guard `Accepted`.
`SerialStore` adds a history variable, `muddied`, which becomes true when two
writes overlap or a CLI changes the file behind the daemon, and states what
holds until then. `Lists` has the filter (`Kept`) on which store and log are
built, as a recursion over the sequence that can be reasoned about.

**`AuditLog`**, `audit.rs`. The file is a sequence of pieces, each what one
append left: the row with its newline, or a prefix. Bytes matter only to the
tail: `Parses` says which lines a reader can recover, `TailResolved` is the
doubling window, `NewestFirst` of the whole file is what it should return.
`PowerLoss` may drop or shorten whatever has not been synced.

**`Gate`** is the promise: `Rule`, `Record`, `Run`, `Stop`. It knows nothing of
sockets, threads, queues or crashes.

**`Vetterd`** composes the three components (`INSTANCE … WITH`) and adds the
rest of `lib.rs`, `policy.rs` and `wrap.rs`:

| Actor | Actions | Code |
| --- | --- | --- |
| client | `Connect`, `ClientReads`, `ClientLeaves` | `wrap::run`, `round_trip` |
| accept loop | `AcceptorStarts`, `Accept`, `AcceptWouldBlock`, `CloseListener`, `AcceptFails` | `accept_loop` |
| worker | `ReadFails`, `Evaluate`, `RecordRuling` or `SubmitPrompt` and `Wake`, `AppendRow`, `Reply`, `Leave` | `handle_connection`, `policy::evaluate`, `resolve_outcome`, `InflightGuard` |
| approver | `Approve`, `DeliverVerdict` | `handle_resolve`, buttons, banner actions |
| writer | `BeginWrite`, `ContinueWrite`, `ListPending`, `SweepOne`, `EndWrite`, `RuleExpires` | `add_allowlist_rule`, `remove_allowlist_rule` |
| process | `Signal`, `MainCancels`, `Exit`, `Crash`, `Start` | `run`, `run_with_glib`, `run_with_appkit`, `install_signal_handlers` |

`driver` is what the main thread runs. Under "none" it is the accept loop and
cancels the queue when that returns; under "glib" and "appkit" it runs the
desktop's loop beside an accept thread, cancels when that loop comes back, and
joins the thread. `accept_loop` owns its listener, so its return, at a shutdown
(`CloseListener`) or with an error (`AcceptFails`), closes it: whoever waits in
the backlog reads end of file (`DropListener`), and `Connect` is refused from
then on, also while a desktop loop keeps the rest of the daemon going.

Every lock boundary of a worker is a step boundary. The end of one iteration of
the accept loop and the shutdown check of the next are one step
(`NextIteration`): between them the loop touches nothing shared, so a signal
that falls between them is indistinguishable from one that comes just before or
just after. `AcceptWouldBlock` is only an action when it leads somewhere, that
is when the flag is set. `ProcessEnds` is shared by an orderly exit and a kill:
in both, workers are cut off wherever they are, because nothing joins them.

`G` in `Vetterd` is the refinement mapping: a ruling is what a worker holds, it
is on record once the row has been handed to the log (`tried`: a failing append
is reported and not fatal, and that is what the code promises), and a client
that was denied, failed or was interrupted has stopped.

Definitions introduced by a comment "Fault:" are the component with one
plausible bug in it. They are used by no specification; each shows that the
property it goes with notices the bug.

**`Patterns`, `Glob`, `Matcher`, `Suggest`**: paths as segments, hosts as
labels, when a rule fires, and the rules a card offers. `Glob` is the loop of
`matches_segments` as a state machine, one step per iteration, beside
`Patterns`' reference (from the last segment of the pattern to the first, the
places of the path its rest fits from), which `GlobAgrees` compares it with.
`Offered` is the store with rules that are what cards offer: `Book` says what
each rule is, `Offers` what the picker of a card makes with `Suggest`, tier by
duration, and `Covers` is `Fires`. A card's host becomes a rule as text, and
the matcher reads a text that begins with "*." as a wildcard (`HostPattern`).
`MCAllowlistStore` takes the rules of eleven concrete requests, two of them for
such hosts, and runs the store's writers on them.

**`Dispatch`, `CurlFlags`, `CurlParser`, `CurlCommand`, `Signals`,
`KnownHosts`, `Admission`**: the way of one command. `Dispatch` is the look-up
of argv[0]; `CurlParser` reads words into tokens and absorbs them;
`CurlCommand` turns the result into effects; `Signals` and `KnownHosts` decide
what the card warns of. `Admission` is the worker that does all of it, step by
step with its locks, beside two threads that add hosts. A text is abstracted to
the names it is made of; what std and the url crate make of it is given by
functions marked external. What a command says is stated apart from how it is
read (`RequestTrue`, `FilesTrue`, `CannotBeShown`), of any list of flags and
positionals: of the one a behaviour was made from (`setup.meant`) in
`ShownIsWritten`, of the tokens in `ShownIsRead`, an action property of the step
that ends the parse: refused if and only if the tokens have no faithful picture,
and otherwise shown as the tokens say.

**`Notifier`, `Tray`, `Window`, `Desktop`**: a Linux session. `Notifier` has
the jobs, signal and name threads, each lock of the map a step of its own, and
a server that posts, closes, reuses ids, leaves and returns. `Tray` and
`Window` are the two other surfaces; `Desktop` composes the three with the
queue, the calls of its listeners, the users and the shutdown. A raise of the
window carries the number of the `vet daemon open` it is for, or 0; the timers
that measure it keep that number, and so does the result in the shared slot,
where the code's results are all alike. `late` counts the questions that were
given up, and `RaiseAnswerBounded` says how wrong an answer can be for it.

**`Popover`**: a macOS session around the same queue. The main dispatch queue
is explicit: repaints, banners, banner answers, reports and the stop wait in it
and run one at a time, and an alert opened by one of them holds the rest. A
button is pressed and released in two steps, and what it acts on is looked up
at the release in the registries (`cardIds`, `pickerIds`, `targets`) that the
last repaint filled.

**`Lifecycle`**: several daemons starting, serving, stopping and being killed,
at each system call. A path and the file it names are two things; `pulled` is a
history variable: a pidfile was unlinked while another process had it open,
which is the one case the lock does not cover. A daemon whose accept loop has
failed winds down, or is "deaf" under a desktop loop: its main listener is gone,
and lock, paths and admin socket stay until it is told to stop.

**`Autostart`**: `settings.yaml` and the login entry, their writers, and the
desktop or an editor changing them. `wish` is what was last asked for, `sure`
whether the code promises it; a launch that finds the entry switched off on the
desktop while the file still asks for it has two wishes before it, and promises
neither.

**`MC…`** modules hold the instances; no definition is replaced by a
configuration.

## Runs

| Run | Checks | What it shows |
| --- | --- | --- |
| `queue` | `QueueTypeOK`, `SenderHeldOnce`, `HistoryMatchesAnswer`, `OneBannerPerBurst`, `FirstVerdictWins` and, under the macOS surfaces, `PopoverCatchesUp`, `ClicksActOnTheirCard` | no worker is orphaned or answered twice; Recent is true; one banner per burst; a click acts on its own card; badge, cards and banners catch up |
| `store` | `StoreTypeOK`, `RulesUnique`, `SerialStoreFresh`, `SerialNoLostRule`, `PickedRuleFires`, `AllowsOnlyAlike` | overlapping writers never produce a file that fails to load; until writes overlap, nothing is lost and memory is the file; a picked rule allows its request, and only requests alike in method, scheme, host, headers and session |
| `audit` | `AckedRowsSurvive`, `TailIsNewest`, `SyncedPrefixKept`; `ServingIsReachable`; `LastWishStands` | acknowledged rows outlive failed appends and power loss, and the tail is exact for every way the window can cut the file; a serving daemon is found by `vet`, `status` and `doctor`, and none of them calls a deaf one well; the last wish for a setting is what file and entry say |
| `vetterd` | `PromptsHaveWaiters`, `ImplementsGate` | a rule writer, an ordinary request, a dry run, expiry, shutdown and a kill: the daemon is a gate |
| `vetterd_restart` | `VetterdTypeOK`, `SlotsMatchWorkers`, `OneStory` | three clients for one slot, an unparseable request, a failing disk, a second daemon on the same log |
| `vetterd_live` | `ShutdownFreesClients`, `VerdictEndsWait`, `WritesEnd`, `RefusalsNeedNoHuman` | under all three drivers: a shutdown frees the clients, but for those parked on AppKit; a verdict given ends its client's wait; a rule edit with its sweep finishes; nobody waits for a human who is not asked, also when the accept loop fails |
| `desktop` | `DesktopTypeOK`, `MapIsPairing`, `SurfacesCatchUp`, `RaiseAnswerBounded`, `CloseOnlyResolved`, `ClickDecidesShown`, `SectionsFollowCards`, `BannersComeDown` | notifier, tray and window stay true to the queue while threads interleave and servers come and go; a raise is answered from the present, or from one given up |
| `admission` | `ShownIsWritten`, `ShownIsRead`, `GlobAgrees`, `PillMatchesSignal`, `HintsFresh` | what a card shows is what the words say, and what their tokens say; nothing is refused without cause; the glob loop is the glob; the colour of a host is what the store knows, before and after adds |
| `dry_run_exec`, `missed_auto_approve`, `store_stale`, `torn_tail` | one property each | the [disagreements](#disagreements-with-the-documentation) |

`queue` and `audit` hold several independent parts; a variable `part`, fixed at
the start, says which one a behaviour is about, and the others stand still.

Some properties name the exception the code has, so that they are true of it
and still say all the rest:

* `SerialStoreFresh` and `SerialNoLostRule` say "while writes are serial", that
  is until `muddied`. Without that both are false of the code, and `store_stale`
  shows one of the two.
* `PickedRuleFires` leaves out the path suggestion for a path that ends in "/"
  (`LosesSlash`) and the host "*.", which is below no pattern (`BareStar`).
  `AllowsOnlyAlike` lets the rule of a card whose host is written "*.h.io" cover
  the hosts below h.io (`HostLike`).
* `ShutdownFreesClients` leaves out, on AppKit, the clients whose prompt is still
  on the queue: there the main thread need not come back
  ([fairness](#fairness)).
* `RaiseAnswerBounded` is what the slot of the raise results gives: an answer may
  be behind by as many questions as timed out. That none ever is, as the comment
  in the code has it, is false.
* `HintsFresh` leaves out the two races recorded in `raced`, `ServingIsReachable`
  the unlinked pidfile recorded in `pulled`, `LastWishStands` what `sure`
  excludes: outside edits, a launch that finds the entry switched off, a failure
  of the asking setter itself, and two setters at work at once.
* `BannersComeDown` is about banners that were up while their request waited, a
  daemon that runs and one server; `ClickDecidesShown` about at most one move of
  a server. `ClicksActOnTheirCard` leaves out a repaint during the click.

Each exception is listed under the disagreements or the hazards.

`CHECK_DEADLOCK FALSE` is in the configurations whose systems really stop: once
every client is answered and the daemon is down, once a session has had its
requests and gestures, once the moves of a host are used up, once a command has
its card.

## Bounds

* `queue`: alone, three requests, two of them with the same id, one past row, a
  ring of two. Two entries under one id and one under another are all the ways a
  map of this kind can be disturbed; the ring must be smaller than the number of
  rows to evict. The proofs remove these bounds. Under the macOS surfaces, six
  sessions, each with its requests, buttons and one or two gestures (presses and
  answered banners): two pending cards in either order, banners decided here and
  elsewhere, three cards with a denied one between, a picker after a rejection, a
  refilled history, and a shutdown while an alert is up. About 1.2 million
  states.
* `store`: two of the three kinds of writer at a time, two rules. One pair of
  rules runs under every pair of kinds and under all three; beside that, one
  rule is paired with every other that eleven requests offer at every duration. A
  writer can act any number of times.
* `audit`: four rows of two and three bytes, one without a card, and a first
  window of two bytes, so that nearly every read cuts a line and the doubling
  runs up to four times. Three daemons, two stop commands: one daemon to leave
  its file, one to unlink it and one to come after. `MaxMoves = 3` asked
  changes, shows, outside edits or launches.
* `vetterd`: two requests, one of them a dry run, one rule, one writer, one
  daemon, cap two. Races need two requests and a writer; the sweep and the
  approver meet on either request.
* `vetterd_restart`: three requests and one slot, so the cap is reached with a
  worker running and a connection waiting; `MaxStarts = 2` gives a crash or an
  exit, and a second daemon; a ring of one makes the refill evict.
  These two runs are of a GLib daemon: the drivers differ in when the queue is
  cancelled, which `vetterd_live` is about.
* `vetterd_live`: two requests, one of them denied by the list, one writer, one
  slot, all three drivers.
* `desktop`: two requests and ten kinds of session (`MCSetups`): which surfaces
  there are, whether a server is there, late or replaced (at most two moves), what
  its user may do, how often `vet daemon open` asks (at most three times: two to
  be given up, one to be answered by either's timer), and whether it ends.
* `admission`: every flag alone in every spelling and place, pairs of the flags
  that touch the same part of the command, triples of those that name the
  output, clusters and irregular lines; files and environments for argv[0];
  globs and paths of up to four segments; two adders and nine hosts.

## Fairness

`FairVetterdSpec` assumes weak fairness of what a scheduled thread does next:
each worker's next step, the verdict a resolving thread is about to send, each
writer's next step, the accept loop, the main thread's cancellation and exit,
and a client reading an answer that has arrived. `DesktopSpec` assumes the same
of the notifier's jobs thread, its signal thread, the workers that notify and
the threads that call listeners. Threads are OS threads that block only on what
the guards name, so an enabled step stays enabled until it is taken. A session
bus that never answers holds the jobs thread for good, and that is a guard, not
an exception to fairness. Nothing is assumed of people or of the environment: no
approval, edit, signal, restart, expiry, connection or Ctrl-C has to happen, and
no failure either. So `VerdictEndsWait` starts when a verdict exists,
`BannersComeDown` when a request is decided, and `RefusalsNeedNoHuman` is about
requests that no human is asked about.

The main thread's cancellation is fair under "none", where it follows the accept
loop, and under "glib", where `watch_shutdown` looks at the flag on a timer. It
is not on AppKit: the observer of the flag sends one stop block and is gone, and
if an alert is open that block ends only the alert (`RunStop` of `Popover`, and
disagreement 15), so nothing makes the desktop's loop come back. Such a daemon
has closed its listener, and a worker parked in it waits for a human, which
`ShutdownFreesClients` says of AppKit.

`RefusalsNeedNoHuman` needs no exception for an accept error under a desktop
loop. The main loop goes on, but the listener is closed: who was in the backlog
reads end of file, who comes later is refused, and both clients fail closed.

## Proofs

Eight modules hold proofs. Each proves, for any value of the constants, what a
run checks on its small instance; the only assumptions are the named `ASSUME`s
of the modules, which TLC evaluates in the runs that use them.

| Theorem | States |
| --- | --- |
| **`PendingQueue_proofs`** | of `QueueSpec` |
| `QueueTypeCorrect`, `SenderSafe`, `HistoryTruthful`, `BannerOnce`, `FirstApproverWins` | `QueueTypeOK`, `SenderHeldOnce`, `HistoryMatchesAnswer`, `OneBannerPerBurst`, `FirstVerdictWins` |
| **`Stored_proofs`** | of `StoreSpec`, `SerialSpec` and `AuditSpec` |
| `StoreTypes`, `IdsStayUnique` | `StoreTypeOK`, `RulesUnique` |
| `SerialFresh`, `SerialLosesNothing` | `SerialStoreFresh`, `SerialNoLostRule` |
| `AuditTypes`, `AckedSurvive`, `SyncedKept`, `TailNewest` | `AuditTypeOK`, `AckedRowsSurvive`, `SyncedPrefixKept`, `TailIsNewest` |
| **`Vetterd_proofs`** | of `VetterdSpec` |
| `DaemonImplementsGate`, `SlotsAreThreads`, `PromptsAnswerable` | `ImplementsGate` (the refinement), `SlotsMatchWorkers`, `PromptsHaveWaiters` |
| `DaemonTypes`, `OneStoryTold` | `VetterdTypeOK`, `OneStory` |
| **`Desktop_proofs`** | of `DesktopSpec` |
| `DesktopTypes`, `MapPairs`, `OnlyResolvedClose`, `ClicksDecideShown` | `DesktopTypeOK`, `MapIsPairing`, `CloseOnlyResolved`, `ClickDecidesShown` |
| `SurfacesFollow`, `RaiseAnswersBounded`, `SectionsStay` | `SurfacesCatchUp`, `RaiseAnswerBounded`, `SectionsFollowCards` |
| `DesktopKeepsQueue` | `QueueSpec`: the session uses the queue as the queue allows |
| **`Popover_proofs`** | of `PopoverSpec` |
| `PopoverFollows`, `ClicksOwnCard`, `PopoverKeepsQueue` | `PopoverCatchesUp`, `ClicksActOnTheirCard`, `QueueSpec` |
| **`HostFiles_proofs`** | of `LifecycleSpec` and `AutostartSpec` |
| `ServingReachable`, `LastWishIsKept` | `ServingIsReachable`, `LastWishStands` |
| **`Admission_proofs`** | of `GlobSpec`, `AdmissionSpec` and `StoreSpec` |
| `GlobTypes`, `GlobProgresses`, `GlobAnswers` | the positions of the loop stay in range, every iteration makes progress in an order the two lengths bound, and `GlobAgrees` |
| `PillFollowsSignal`, `HintsStayFresh` | `PillMatchesSignal`, `HintsFresh` |
| `PickedRulesFire`, `OnlyAlikeAllowed` | `PickedRuleFires`, `AllowsOnlyAlike` |
| `ReadAsWritten` | `ShownIsRead` |
| `WorkerRunsGlob`, `WorkerGlobAgrees` | `GlobSpec`: a request uses the loop as the loop allows; so `GlobAgrees` of every request |

`Lists_proofs` has what the store and the log need of `Kept`.

What the constants are assumed to be: finitely many requests (`Desktop`,
`Popover`, `Vetterd`), which a run of a daemon has; ids that are the requests
themselves in `Desktop`, whose banner map is keyed by them (duplicates are the
queue's own subject); caps that are not zero; rows of at least two bytes; rules
that cover requests; and values for "none" that are not values. Of the rules in
the store: each is one that the card of some request offers, and covers what
`Fires` says (`OfferedAssumption`). Of a command: its words have a form, names
and at most one value each, what the url crate accepts as a URL has its parts,
and the path pattern of a rule is a list of segments (`AdmissionAssumption`);
nothing is assumed of what the words are or in which order they come.

The arguments:

* **Queue.** All five follow from `QueueInv`. `SenderHeldOnce` is not inductive
  alone: `Resolve(i, v)` takes out whatever is stored under `i`, and that this is
  the request whose sender is in the map needs `EntriesUnderOwnId` (an entry is
  stored under its own id). `OneBannerPerBurst` needs `RaisedWereParked`: a
  request that has not been submitted cannot have raised a banner, so a submit
  into a non-empty queue adds a pending request but no banner.
  `HistoryMatchesAnswer` needs `SenderHeldOnce`: a request that is resolved had
  no verdict, hence no row, so the new row is the only one. `PushFrontRing` and
  `WarmedRing` say what the two ways of filling the ring return.
* **Store.** A writer overwrites the file with the list in its hand, whatever
  became of the file meanwhile; so no id may occur twice in that list either
  (`HeldUnique`), and an edit checks ids against what it read. While writes are
  serial (`OneAtATime`), what a writer is about to write is the edit of the file
  as it still is (`EditsFile`), what it is about to install is the file
  (`HoldsFile`), and the store is behind the file only while a daemon writer has
  yet to repair it or has failed (`FreshOrOwed`).
* **Log.** Every acknowledged row is in the synced prefix, and that prefix is
  never shortened. For the tail, the rows recovered from a window that starts
  later are the end of those recovered from the whole file (`RowsFromLater`), so
  a window that yields the cap, or that reaches the start, gives the newest rows
  (`EnoughIsNewest`); and the window that doubles comes to one that does, by
  induction over how far it is from the size of the file (`DoublesIsNewest`).
* **Daemon, the gate.** `GateInv` says, for each request, what a worker in each
  place may hold: no verdict before a ruling, a request that is barred is never
  submitted, a reply only when its row was handed to the log, an allowing reply
  only for an allowing ruling, and a client that has not connected has no
  worker. With it each step of the daemon maps to a step of `Gate` or to
  nothing, one lemma per group of actions. `SlotsAreThreads` counts: the
  threads' set gains or loses one element exactly when the counter does.
  `PromptsAnswerable` follows a parked worker's sender through map, hand and
  channel (`Waits`).
* **Daemon, its parts.** The daemon's own store and log keep the invariants of
  their modules, which are used as theorems (`SP`, `QP`: `INSTANCE … WITH`). For
  `OneStory`: what a worker says of its request, or the verdict on its way to
  it (`Final`), is never replaced by another; every row of the ring shows it
  (`TrueRing`), and every row of the log shows what its worker said
  (`TrueLog`), which is what the ring of a new daemon is filled from.
* **Linux session.** The banner map rests on a count: the ids a server has yet
  to give out are never fewer than the requests whose banner is still to be
  posted, because each is posted at most once (`OnceInv`), so an id is not given
  out twice while its entry is in the map. `MapShows` says that an id
  leads to the request whose banner is on screen, unless the server has just
  given the id out again and the jobs thread is about to link it, and
  `CloseSafe` that the request a thread is about to close for does not wait any
  more; it cannot come back. A click that waits in the signals queue decides
  what its banner showed while every id has one meaning (`OneServer`). The tray's menu and the window's cards follow by
  the one thing each drops: a change is unheard, or a repaint is owed, or what
  is shown is the queue (`TrayFollows`, `WindowFollows`). `Measured` says
  of the measurements still out, asked for or with a timer running, that they
  are behind the present question by no more questions than were given up, by
  fewer when none is waiting, and that they are later than the result in the
  slot, because the timers end in the order they were set.
* **macOS session.** A change on its way to its listener, a repaint in the main
  queue, or a screen that shows the queue: one of the three always holds
  (`Follows`), because a listener puts its repaint behind everything that was
  there, and only a repaint takes it out. That a banner decided here goes needs
  that no request is posted twice (`PostedOnce`): its way is submit, worker,
  block, banner, and it is at one of these places at a time. A click acts on its
  own card because every button that can be pressed carries a number that names
  its card in the registry it counts in (`Drawn`), which a denied card keeps by
  leaving its slot empty; and a repaint, which renumbers, tears the button that
  is held out (`HeldTrue`).
* **Lifecycle.** `LocksAreHeld` (who holds a lock has that file open),
  `OpenIsAtPath` (until a file is pulled, an open pidfile is the one at the
  path), and what each daemon knows of its own sockets. So two daemons past
  their locks hold the same file, which only one can. A deaf daemon keeps lock
  and paths, and so no other daemon listens where clients look.
* **Autostart.** `Alone` (a `sure` field has at most one setter) and `WishKept`
  (that setter carries the wish, or file and entry already say it).
* **Globs.** What a glob means becomes a set of places (`From`), and three
  equations about it, one for each kind of segment. While the loop runs, the
  glob fits if and only if it fits from where the loop is or from further behind
  the last star; only the last star is kept, and that is enough because whatever
  fits behind it also fits further on (`AnswerOpen`).

* **Known hosts on a card.** A worker reads the signal of the host in one step
  and its colour in another; between them it holds the read lock, and an add
  replaces the store only when nobody does, so the two are of one store
  (`LocksHosts`, `SignalTrue`). That needs a lemma on the parser: it yields at
  most one command and never raises the signal about the host itself
  (`ParserYields`), or the daemon's would not be the only one. `HintsFresh` is
  not inductive: `FreshOrDue` adds that while there was no race, a thread that
  repaints has the store as it is in its hand, and a card that is not fresh has
  a repaint before it.

* **Rules offered.** What the store lets through is a rule that covers the
  request and has not ended (`CoveredIsAllowed`, `AllowedIsCovered`: the two
  tiers and their order change nothing). A picked rule covers its request,
  because the normal form of a path fits itself, `**`, and itself with the last
  segment starred, and is its own normal form (`OfferFits`, by the equations of
  `From`); the pattern for a path that ends in "/" and the host "*." are
  the exceptions. Whatever fires for a picked rule is like the picked request,
  clause by clause (`FiresLike`).
* **Reading a command.** The invariant is that after any number of tokens what
  the parser has kept is what these tokens mean (`Means`), a statement without
  order for each flag: the last of some, all of others, at most one of the
  method and the URL. It says more than the properties need of a prefix, because
  each field is used by several later checks: that the data pieces are two
  exactly when two positions gave one, and that a second positional is there
  exactly when something is in `extra`. Absorbing a token keeps it (`ValueMeans`,
  `FlagMeans`); from `Means` of all tokens `finalise` shows what they say
  (`RequestShown`, `FilesShown`, `NothingLeftOut`); and where `absorb` or
  `finalise` refuses, `Means` of the tokens so far yields the flag that has no
  picture (`RefusedToken`, `RefusedInTheEnd`).
* **The glob inside a request.** A worker starts the loop at most once, when it
  stands still (`Unasked`), and on sequences of names, since a URL the parser
  accepted keeps its path (`Shown`); every other step leaves the loop alone.

Induction over data is not to be had from the library's theorems, which take an
operator as a parameter. Where it was needed, it is by sets: a set of naturals
with 0 that is closed under + 1 has them all (`AllNaturals`), from the library's
well-founded minimum. This carries `Kept`, the tail's windows and the globs.

Only model-checked: `ShownIsWritten` and the five liveness properties. Of
`ShownIsWritten` the proofs have the second half, from the tokens to the card
and to the refusals; what TLC alone checks is the first, that the tokens are
what the command was meant to say. That is a fact about spellings, which
`MCAdmission` enumerates: for every word there is a theorem, for what a person
means by it there is only the list. Liveness under fairness and `ENABLED` are
out of the prover's reach.

## Disagreements with the documentation

Shown by a run:

1. **A dry run can execute** (`dry_run_exec`). `plans/Overview.md` says "never
   exec"; the wrapper execs on Allow, dry run or not, and the rule sweep
   approves parked dry runs too.
2. **An added rule can miss a pending request** (`missed_auto_approve`). A
   worker that ruled before the rule was installed can submit after the sweep
   listed the queue.
3. **Concurrent rule edits can leave the daemon with an old list**
   (`store_stale`). The comment says the reload happens under the write lock;
   it happens before the lock is taken.
4. **An acknowledged audit row can be unreadable** (`torn_tail`), glued to a
   line that an earlier failure tore.
Met while modelling; the properties exclude them by name, and TLC shows each
when the exclusion is dropped, or they are read off the code:

5. **A suggestion that never fires.** For a path that ends in "/" the picker
   offers "/a/*" for "/a/b/", which does not match it; the comment at
   `suggest/mod.rs:144-155` says the emitted rule matches.
6. **A session rule blocks its suggestion.** Ids are derived without the
   duration, so while a session-scoped rule is in the file the same suggestion
   cannot be picked for longer (`DuplicateId`), although `rules.rs:60-68` says
   the backstop does not change matching.
7. **Loopback three ways.** `127.*` as a domain gets no host suggestion although
   the signals call it an unknown host.
8. **Banners that stay.** A banner posted after its request was decided stays
   until the queue changes again (Linux) or for good (macOS); shutdown sets the
   flag before it queues the last Reconcile, so banners outlive the daemon
   although the comment says they are closed; a server that joins late can have
   its banners forgotten by its own NameOwnerChanged. On macOS, approvals by the
   CLI or by a rule of another surface never remove the banner.
9. **A shown window asks for things.** Showing it after a failed enable sets
   the box from the entry, which fires `toggled` and stores `autostart: false`
   (`window.rs:547-550`, `lib.rs:877-880` say the preference is kept); an unasked
   setter can also undo a CLI's enable made meanwhile.
10. **An autostart entry switched off on the desktop** is switched on again at
    the next launch when settings.yaml still asks for it;
    `autostart.rs:33-36`, `autostart.rs:307-310` and
    `plans/LinuxApp.md:505-507` say it is respected. A launch that finds such
    an entry makes `sure` FALSE in `Autostart`.
11. **Pidfile.** The comment at `vet/src/daemon.rs:105` says the pidfile is
    written after binding; it is acquired before. When a pidfile is unlinked
    while another daemon has it open, two daemons can pass their locks, or one
    serves that nobody trusts.
12. **A raise answered by an earlier one.** `window.rs:1865-1866` says a stale
    result cannot be mistaken for this one's, because the slot is cleared before
    the asking. The timer of a present that came too late for a call that timed
    out can end afterwards and fill the slot of the next call. Also, a show that
    is not yet drained is overwritten by the next.
13. **Accept errors.** One in the admin loop ends that loop for good while the
    daemon serves on. One in the main loop closes the main socket for good, and
    with a desktop loop the daemon stays up, deaf to clients, with its lock, its
    admin socket and its window.
14. **A card's host colour** stays stale when a host is added between the
    worker's unlock and its submit, until the next add.
15. **macOS alerts.** An alert opened from a main-queue block holds repaints,
    banners and the shutdown until it is answered; `[NSApp stop:]` while an
    alert is up ends only that alert and the observer has already returned, so
    the daemon goes on; and the revoke confirmation treats any response but
    Cancel, that one included, as Remove.
16. **A host written "*.h.io".** The url crate accepts such a host, the table at
    `suggest/mod.rs:26-31` says the suggestion for it is the host, and the
    matcher and the known hosts read it as every host below h.io. "*." alone
    fits nothing, not even itself.

## What is not modelled

* Rendering, cards' view models, disclosures, copying, layout, sounds: no state
  the rest depends on.
* Toasts and the widgets of the Linux pickers; what they pick is in the store's
  run.
* Framing and serde. A frame arrives whole, or the worker's read fails.
* The deny list is constant, and rules are not edited by hand while the daemon
  runs.
* Project allowlists: the daemon loads with no working directory and never reads
  them; only `vet allow` and `vet --explain` do.
* The admin socket's own thread. It serialises its requests; the models let
  approvers and writers overlap more than one admin thread would, which is what
  window threads do anyway. The match of an id prefix is taken as done.
* The mock notifier (a test double), `init`, and what `doctor` and `--explain`
  print beyond the two answers in `Lifecycle` and `Suggest`.
* Parsers other than curl's: there is one more, a test stub.
* Panics of a worker: the guard returns the slot as on a normal return
  (`Leave`), and a poisoned mutex would end every later user of it.
* Hash collisions of rule ids, and reuse of session and process ids by the
  kernel.
* D-Bus, GTK, AppKit, the kernel's locks and the url crate are modelled from how
  the code uses them; their definitions are marked external in `PROJECT.json`.
