----------------------------- MODULE Lifecycle ------------------------------
(***************************************************************************)
(* One daemon per user: the pidfile and its POSIX lock                     *)
(* (vetter-core/src/pidfile.rs), the two sockets (vetterd/src/socket.rs),  *)
(* start-up and shutdown of vetterd (lib.rs run), `vet daemon stop`, and   *)
(* how `vet`, `vet daemon status` and `vet doctor` tell a daemon that can  *)
(* be trusted.                                                             *)
(*                                                                         *)
(* A path and the file it names are two things here, as they are for the   *)
(* kernel: a lock is on the file a process opened, and unlinking the path  *)
(* leaves that file locked where no one can find it.  A file is named by   *)
(* the daemon that created it.  Daemons are launched by `vet daemon start`,*)
(* at login or by hand, so any number may start up at once, and each may   *)
(* be killed anywhere.                                                     *)
(***************************************************************************)
EXTENDS Naturals, FiniteSets

CONSTANTS
  Daemons,   \* processes of vetterd, numbered as they start
  Stops,     \* runs of `vet daemon stop`
  None

ASSUME LifecycleAssumption ==
  /\ Daemons \subseteq Nat \ {0} /\ IsFiniteSet(Daemons)
  /\ Stops \in Nat
  /\ None \notin Nat

VARIABLES
  pc,        \* where each daemon is
  sock,      \* the socket it is seeing to, while it sees to one
  asked,     \* daemons whose shutdown flag is set
  opened,    \* the pidfile each daemon has opened
  locker,    \* the holder of each pidfile's lock
  body,      \* the pid each pidfile holds, None while it is empty
  pidpath,   \* the pidfile at the path, or None
  sockpath,  \* the daemon that bound the socket at each path, or None
  listener,  \* each daemon's end of each socket: none, bound, listening
  private,   \* the socket directory is 0700
  stop,      \* where `vet daemon stop` is
  target,    \* the pid it has read
  stops,     \* how many there have been
  pulled     \* a pidfile was unlinked while another process had it open

lifecycleVars == <<pc, sock, asked, opened, locker, body, pidpath, sockpath, listener,
                   private, stop, target, stops, pulled>>

Sockets == {"main", "admin"}

Alive(d) == pc[d] \notin {"unborn", "dead"}

LifecycleInit ==
  /\ pc       = [d \in Daemons |-> "unborn"]
  /\ sock     = [d \in Daemons |-> "main"]
  /\ asked    = {}
  /\ opened   = [d \in Daemons |-> None]
  /\ locker   = [d \in Daemons |-> None]
  /\ body     = [d \in Daemons |-> None]
  /\ pidpath  = None
  /\ sockpath = [s \in Sockets |-> None]
  /\ listener = [d \in Daemons |-> [s \in Sockets |-> "none"]]
  /\ private  \in BOOLEAN
  /\ stop     = "idle"
  /\ target   = None
  /\ stops    = 0
  /\ pulled   = FALSE

Goto(d, at) == pc' = [pc EXCEPT ![d] = at] /\ UNCHANGED sock

(* The same step for the admin socket once the main one is done with. *)
ThenAdmin(d, first, after) ==
  IF sock[d] = "main"
  THEN pc' = [pc EXCEPT ![d] = first] /\ sock' = [sock EXCEPT ![d] = "admin"]
  ELSE pc' = [pc EXCEPT ![d] = after] /\ sock' = [sock EXCEPT ![d] = "main"]

(* connect: someone listens on the file at the path, which is not known    *)
(* between bind and listen.                                                *)
Reaches(s) ==
  sockpath[s] # None /\ listener[sockpath[s]][s] = "listening"

(* The kernel closes what the process had open: the lock goes, the paths   *)
(* stay.                                                                   *)
Exit(d) ==
  /\ pc'       = [pc EXCEPT ![d] = "dead"]
  /\ sock'     = [sock EXCEPT ![d] = "main"]
  /\ asked'    = asked \ {d}
  /\ opened'   = [opened EXCEPT ![d] = None]
  /\ locker'   = [f \in Daemons |-> IF locker[f] = d THEN None ELSE locker[f]]
  /\ listener' = [listener EXCEPT ![d] = [s \in Sockets |-> "none"]]
  /\ UNCHANGED <<body, pidpath, sockpath, private, stop, target, stops, pulled>>

(* pidfile::remove of whatever is at the path now, by d or by a `stop`.    *)
UnlinkPidfile(remover) ==
  /\ pidpath' = None
  /\ pulled'  = (pulled \/ \E e \in Daemons \ {remover} :
                             opened[e] # None /\ opened[e] = pidpath)

(* run: a new process, its stores and audit log loaded. *)
Start(d) ==
  /\ pc[d] = "unborn"
  /\ \A e \in Daemons : e < d => pc[e] # "unborn"
  /\ Goto(d, "open")
  /\ UNCHANGED <<asked, opened, locker, body, pidpath, sockpath, listener, private,
                 stop, target, stops, pulled>>

(* acquire: open the file at the path, creating it when there is none.     *)
OpenPidfile(d) ==
  /\ pc[d] = "open"
  /\ pidpath' = IF pidpath = None THEN d ELSE pidpath
  /\ opened'  = [opened EXCEPT ![d] = pidpath']
  /\ Goto(d, "lock")
  /\ UNCHANGED <<asked, locker, body, sockpath, listener, private, stop, target, stops, pulled>>

(* acquire: F_SETLK; a file another process has locked ends this one.      *)
Lock(d) ==
  /\ pc[d] = "lock"
  /\ IF locker[opened[d]] = None
     THEN /\ locker' = [locker EXCEPT ![opened[d]] = d]
          /\ Goto(d, "write")
          /\ UNCHANGED <<asked, opened, body, pidpath, sockpath, listener, private,
                         stop, target, stops, pulled>>
     ELSE Exit(d)

(* acquire: set_len(0), then the new pid, fsynced. *)
Truncate(d) ==
  /\ pc[d] = "write"
  /\ body' = [body EXCEPT ![opened[d]] = None]
  /\ Goto(d, "pid")
  /\ UNCHANGED <<asked, opened, locker, pidpath, sockpath, listener, private,
                 stop, target, stops, pulled>>

WritePid(d) ==
  /\ pc[d] = "pid"
  /\ body' = [body EXCEPT ![opened[d]] = d]
  /\ Goto(d, "probe")
  /\ UNCHANGED <<asked, opened, locker, pidpath, sockpath, listener, private,
                 stop, target, stops, pulled>>

(* listen, for the main socket and then for the admin one.  The three      *)
(* steps between its system calls:                                         *)
(*   a file at the path that accepts is another daemon's: give up; one     *)
(*   that refuses is an orphan, to be removed;                             *)
Probe(d) ==
  /\ pc[d] = "probe"
  /\ IF Reaches(sock[d]) THEN Exit(d)
     ELSE /\ Goto(d, IF sockpath[sock[d]] = None THEN "bind" ELSE "unlink")
          /\ UNCHANGED <<asked, opened, locker, body, pidpath, sockpath, listener,
                         private, stop, target, stops, pulled>>

(*   remove_file fails, and with it the start-up, when the file has gone;  *)
Unlink(d) ==
  /\ pc[d] = "unlink"
  /\ IF sockpath[sock[d]] = None THEN Exit(d)
     ELSE /\ sockpath' = [sockpath EXCEPT ![sock[d]] = None]
          /\ Goto(d, "bind")
          /\ UNCHANGED <<asked, opened, locker, body, pidpath, listener, private,
                         stop, target, stops, pulled>>

(*   the directory is made 0700, and bind fails on a file that is there.   *)
Bind(d) ==
  /\ pc[d] = "bind"
  /\ IF sockpath[sock[d]] # None THEN Exit(d)
     ELSE /\ sockpath' = [sockpath EXCEPT ![sock[d]] = d]
          /\ listener' = [listener EXCEPT ![d][sock[d]] = "bound"]
          /\ private'  = TRUE
          /\ Goto(d, "listen")
          /\ UNCHANGED <<asked, opened, locker, body, pidpath, stop, target, stops, pulled>>

Listen(d) ==
  /\ pc[d] = "listen"
  /\ listener' = [listener EXCEPT ![d][sock[d]] = "listening"]
  /\ ThenAdmin(d, "probe", "serve")
  /\ UNCHANGED <<asked, opened, locker, body, pidpath, sockpath, private,
                 stop, target, stops, pulled>>

(* SIGTERM, SIGINT, Quit: the flag, from the first line of run on. *)
Terminate(d) ==
  /\ Alive(d) /\ d \notin asked
  /\ asked' = asked \cup {d}
  /\ UNCHANGED <<pc, sock, opened, locker, body, pidpath, sockpath, listener, private,
                 stop, target, stops, pulled>>

(* Fault: the pidfile goes at once, before the sockets. *)
WindDownPidfileFirst(d) ==
  /\ pc[d] \in {"serve", "deaf"} /\ d \in asked
  /\ listener' = [listener EXCEPT ![d]["main"] = "none"]
  /\ UnlinkPidfile(d)
  /\ Goto(d, "remove socket")
  /\ UNCHANGED <<asked, opened, locker, body, sockpath, private, stop, target, stops>>

(* accept_loop owns the main listener: when accept returns an error the    *)
(* listener is dropped for good.  Without a desktop loop run winds down;   *)
(* with one it goes on, window, admin socket and lock and all, deaf to     *)
(* clients until someone quits it.                                         *)
AcceptFails(d) ==
  /\ pc[d] = "serve"
  /\ listener' = [listener EXCEPT ![d]["main"] = "none"]
  /\ Goto(d, "deaf") \/ Goto(d, "remove socket")
  /\ UNCHANGED <<asked, opened, locker, body, pidpath, sockpath, private,
                 stop, target, stops, pulled>>

(* The accept loop sees the flag and drops the main listener.  The admin   *)
(* loop drops its own when it sees the flag, or for good at any time, when *)
(* accept returns an error.                                                *)
WindDown(d) ==
  /\ pc[d] \in {"serve", "deaf"} /\ d \in asked
  /\ listener' = [listener EXCEPT ![d]["main"] = "none"]
  /\ Goto(d, "remove socket")
  /\ UNCHANGED <<asked, opened, locker, body, pidpath, sockpath, private,
                 stop, target, stops, pulled>>

AdminEnds(d) ==
  /\ listener[d]["admin"] = "listening"
  /\ pc[d] \in {"serve", "deaf", "remove socket", "remove pidfile", "exit"}
  /\ listener' = [listener EXCEPT ![d]["admin"] = "none"]
  /\ UNCHANGED <<pc, sock, asked, opened, locker, body, pidpath, sockpath, private,
                 stop, target, stops, pulled>>

(* remove_file of whatever is at the socket's path now. *)
RemoveSocket(d) ==
  /\ pc[d] = "remove socket"
  /\ sockpath' = [sockpath EXCEPT ![sock[d]] = None]
  /\ ThenAdmin(d, "remove socket", "remove pidfile")
  /\ UNCHANGED <<asked, opened, locker, body, pidpath, listener, private,
                 stop, target, stops, pulled>>

RemovePidfile(d) ==
  /\ pc[d] = "remove pidfile"
  /\ UnlinkPidfile(d)
  /\ Goto(d, "exit")
  /\ UNCHANGED <<asked, opened, locker, body, sockpath, listener, private, stop, target, stops>>

Return(d) == pc[d] = "exit" /\ Exit(d)

(* kill -9, a panic, or an error of the start-up past the pidfile: the     *)
(* process ends without its clean-up.                                      *)
Kill(d) == Alive(d) /\ Exit(d)

-----------------------------------------------------------------------------
(* `vet daemon stop`: read the pid, look for the process, and signal it or *)
(* clean up after it.  Each looks at the world anew.                       *)
StopReads ==
  /\ stop = "idle" /\ stops < Stops
  /\ stops'  = stops + 1
  /\ target' = IF pidpath = None THEN None ELSE body[pidpath]
  /\ stop'   = IF target' = None THEN "idle" ELSE "probe"
  /\ UNCHANGED <<pc, sock, asked, opened, locker, body, pidpath, sockpath, listener,
                 private, pulled>>

StopProbes ==
  /\ stop = "probe"
  /\ stop' = IF Alive(target) THEN "signal" ELSE "clean"
  /\ UNCHANGED <<pc, sock, asked, opened, locker, body, pidpath, sockpath, listener,
                 private, target, stops, pulled>>

StopSignals ==
  /\ stop = "signal"
  /\ asked'  = asked \cup (IF Alive(target) THEN {target} ELSE {})
  /\ stop'   = "idle"
  /\ target' = None
  /\ UNCHANGED <<pc, sock, opened, locker, body, pidpath, sockpath, listener, private,
                 stops, pulled>>

StopCleans ==
  /\ stop = "clean"
  /\ UnlinkPidfile(None)
  /\ stop'   = "idle"
  /\ target' = None
  /\ UNCHANGED <<pc, sock, asked, opened, locker, body, sockpath, listener, private, stops>>

LifecycleNext ==
  \/ \E d \in Daemons :
       \/ Start(d) \/ OpenPidfile(d) \/ Lock(d) \/ Truncate(d) \/ WritePid(d)
       \/ Probe(d) \/ Unlink(d) \/ Bind(d) \/ Listen(d)
       \/ Terminate(d) \/ AcceptFails(d) \/ WindDown(d) \/ AdminEnds(d)
       \/ RemoveSocket(d) \/ RemovePidfile(d) \/ Return(d) \/ Kill(d)
  \/ StopReads \/ StopProbes \/ StopSignals \/ StopCleans

LifecycleSpec == LifecycleInit /\ [][LifecycleNext]_lifecycleVars

-----------------------------------------------------------------------------
(* What the others conclude.  All three run as the same user.              *)

VerifySocketParent == private

(* read_locker_pid: the kernel's answer for the pidfile at the path. *)
Locker == IF pidpath = None THEN None ELSE locker[pidpath]

(* round_trip: `vet` gives its request only to the process that holds the  *)
(* lock of the pidfile at the path.                                        *)
ClientTrusts ==
  VerifySocketParent /\ Reaches("main") /\ Locker = sockpath["main"]

(* read: an empty or half-written pidfile does not parse. *)
PidRead == IF pidpath = None THEN None ELSE body[pidpath]

StatusRunning == PidRead # None /\ Reaches("main")

(* check_daemon. *)
DoctorOk ==
  /\ PidRead # None
  /\ Alive(PidRead)
  /\ Reaches("main")
  /\ Locker = sockpath["main"]

-----------------------------------------------------------------------------
(* A daemon that is up is the one everybody finds: both sockets are its    *)
(* own, `vet` trusts it, `status` calls it running and `doctor` well.  So  *)
(* it is however daemons start together, stop, are killed and leave their  *)
(* files behind, and stop commands clean up after the dead.  One whose     *)
(* accept loop has ended with an error keeps lock and paths, and nobody is *)
(* told that it is well.  The exception is the one the lock does not       *)
(* cover: a daemon or a `stop` unlinks the pidfile while another daemon    *)
(* has it open.                                                            *)
ServingIsReachable ==
  \A d \in Daemons : (pc[d] \in {"serve", "deaf"} /\ ~pulled) =>
    /\ \A s \in Sockets : sockpath[s] = d
    /\ Locker = d
    /\ pc[d] = "serve" => ClientTrusts /\ StatusRunning /\ DoctorOk
    /\ pc[d] = "deaf" => ~ClientTrusts /\ ~StatusRunning /\ ~DoctorOk
=============================================================================
