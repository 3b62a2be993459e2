-------------------------- MODULE HostFiles_proofs --------------------------
(***************************************************************************)
(* What vetterd keeps on the host: the pidfile and the sockets of a daemon *)
(* that is up, and the settings file with the autostart entry.             *)
(*                                                                         *)
(* ServingIsReachable, for every number of daemons and stop commands, is   *)
(* not inductive.  That nobody else writes the pidfile or the sockets of a *)
(* daemon that is up needs that no other daemon is past its lock and short *)
(* of its exit; two such daemons would have locked two files, and while no *)
(* pidfile has been unlinked under anyone, everyone who has a pidfile open *)
(* and still has use for it has the one at the path (OpenIsAtPath), which  *)
(* one process at a time can lock (LocksAreHeld).                          *)
(*                                                                         *)
(* LastWishStands, for every number of toggles, shows and outside edits,   *)
(* speaks of the moments without a setter at work, so it is not inductive  *)
(* either.  While a preference is sure, the one setter that was asked for  *)
(* has the file to itself (Alone), every setter of the preference wants    *)
(* what was wished, and what a setter of the other preference has read and *)
(* is about to write back holds the wish too (OnTheWay).                   *)
(***************************************************************************)
EXTENDS Lifecycle, Autostart, TLAPS

-----------------------------------------------------------------------------
(* Daemons, their pidfile and their sockets.                               *)
Steps == {"unborn", "open", "lock", "write", "pid", "probe", "unlink", "bind",
          "listen", "serve", "deaf", "remove socket", "remove pidfile", "exit", "dead"}

(* Past the lock, and past it with something left to do to the paths. *)
Holding == {"write", "pid", "probe", "unlink", "bind", "listen", "serve", "deaf",
            "remove socket", "remove pidfile", "exit"}
Active  == Holding \ {"exit"}

LifecycleTypeOK ==
  /\ pc       \in [Daemons -> Steps]
  /\ sock     \in [Daemons -> Sockets]
  /\ asked    \subseteq Daemons
  /\ opened   \in [Daemons -> Daemons \cup {None}]
  /\ locker   \in [Daemons -> Daemons \cup {None}]
  /\ body     \in [Daemons -> Daemons \cup {None}]
  /\ pidpath  \in Daemons \cup {None}
  /\ sockpath \in [Sockets -> Daemons \cup {None}]
  /\ listener \in [Daemons -> [Sockets -> {"none", "bound", "listening"}]]
  /\ private  \in BOOLEAN
  /\ stop     \in {"idle", "probe", "signal", "clean"}
  /\ target   \in Daemons \cup {None}
  /\ stop = "idle" \/ target \in Daemons
  /\ stops    \in Nat
  /\ pulled   \in BOOLEAN

(* A file's lock is with the one daemon that opened it and got past Lock. *)
HasOpen(d)  == opened[d] = None <=> pc[d] \in {"unborn", "open", "dead"}
Locks(d, f) == locker[f] = d <=> (opened[d] = f /\ pc[d] \in Holding)

LocksAreHeld ==
  /\ \A d \in Daemons : HasOpen(d)
  /\ \A d, f \in Daemons : Locks(d, f)

OpenIsAtPath ==
  ~pulled => \A d \in Daemons :
    opened[d] # None /\ pc[d] # "exit" => opened[d] = pidpath

(* How far a daemon has come with its sockets and its pidfile. *)
PidWritten(d)    == pc[d] \in {"probe", "unlink", "bind", "listen", "serve", "deaf"}
MainListening(d) ==
  pc[d] = "serve" \/ (sock[d] = "admin" /\ pc[d] \in {"probe", "unlink", "bind", "listen"})
MainBound(d)     == MainListening(d) \/ pc[d] \in {"listen", "deaf"}
AdminBound(d)    == pc[d] \in {"serve", "deaf"} \/ (sock[d] = "admin" /\ pc[d] = "listen")

(* What it has done itself, whatever the others do; it sees to the main    *)
(* socket first.                                                           *)
OwnEnds ==
  \A d \in Daemons :
    /\ pc[d] \in {"unborn", "open", "lock", "write", "pid"} => sock[d] = "main"
    /\ MainListening(d) => listener[d]["main"] = "listening"
    /\ pc[d] = "deaf" => listener[d]["main"] = "none"
    /\ MainBound(d) => private

(* What the others have left alone. *)
OwnPaths ==
  ~pulled => \A d \in Daemons :
    /\ PidWritten(d) => body[opened[d]] = d
    /\ MainBound(d) => sockpath["main"] = d
    /\ AdminBound(d) => sockpath["admin"] = d

LifecycleInv == LifecycleTypeOK /\ LocksAreHeld /\ OpenIsAtPath /\ OwnEnds /\ OwnPaths

-----------------------------------------------------------------------------
(* The free lock is held by nobody. *)
LEMMA NoneIsNoDaemon == None \notin Daemons
  BY LifecycleAssumption

(* Until a pidfile is pulled, one daemon at most works on the paths. *)
LEMMA OneActive ==
  ASSUME LifecycleTypeOK, LocksAreHeld, OpenIsAtPath, ~pulled,
         NEW d \in Daemons, NEW e \in Daemons,
         pc[d] \in Active, pc[e] \in Active
  PROVE  d = e
  <1>1. opened[d] # None /\ opened[e] # None
    BY DEF LocksAreHeld, HasOpen, Locks, Active, Holding
  <1>2. opened[d] = pidpath /\ opened[e] = pidpath /\ pidpath \in Daemons
    BY <1>1 DEF OpenIsAtPath, Active, LifecycleTypeOK
  <1>3. locker[pidpath] = d /\ locker[pidpath] = e
    BY <1>2 DEF LocksAreHeld, Locks, Active
  <1>4. QED
    BY <1>3

(* No daemon, no file. *)
LEMMA InitDaemons == LifecycleInit => LifecycleInv
  <1> SUFFICES ASSUME LifecycleInit PROVE LifecycleInv
    OBVIOUS
  <1> USE NoneIsNoDaemon DEF LifecycleInit
  <1>1. LifecycleTypeOK
    BY DEF LifecycleTypeOK, Steps, Sockets
  <1>2. LocksAreHeld
    BY DEF LocksAreHeld, HasOpen, Locks, Holding
  <1>3. OpenIsAtPath
    BY DEF OpenIsAtPath
  <1>4. OwnEnds
    BY DEF OwnEnds, MainListening, MainBound
  <1>5. OwnPaths
    BY DEF OwnPaths, PidWritten, MainListening, MainBound, AdminBound
  <1>6. QED
    BY <1>1, <1>2, <1>3, <1>4, <1>5 DEF LifecycleInv

(* Stop commands are counted. *)
LEMMA CountedStops ==
  ASSUME LifecycleTypeOK, StopReads
  PROVE  stops' \in Nat
  <1>1. stops \in Nat
    BY DEF LifecycleTypeOK
  <1>2. stops' = stops + 1
    BY DEF StopReads
  <1>3. QED
    BY <1>1, <1>2

(* Every step keeps the types. *)
LEMMA TypeStep ==
  ASSUME LifecycleTypeOK, LifecycleNext
  PROVE  LifecycleTypeOK'
  <1> USE DEF LifecycleTypeOK, Steps, Sockets, Goto, ThenAdmin
  <1>0. ASSUME NEW d \in Daemons, Exit(d) PROVE LifecycleTypeOK'
    BY <1>0 DEF Exit
  <1>1. ASSUME NEW d \in Daemons, Start(d) PROVE LifecycleTypeOK'
    BY <1>1 DEF Start
  <1>2. ASSUME NEW d \in Daemons, OpenPidfile(d) PROVE LifecycleTypeOK'
    BY <1>2 DEF OpenPidfile
  <1>3. ASSUME NEW d \in Daemons, Lock(d) PROVE LifecycleTypeOK'
    <2>1. CASE locker[opened[d]] = None
      BY <1>3, <2>1 DEF Lock
    <2>2. CASE locker[opened[d]] # None
      BY <1>0, <1>3, <2>2 DEF Lock
    <2>3. QED
      BY <2>1, <2>2
  <1>4. ASSUME NEW d \in Daemons, Truncate(d) PROVE LifecycleTypeOK'
    BY <1>4 DEF Truncate
  <1>5. ASSUME NEW d \in Daemons, WritePid(d) PROVE LifecycleTypeOK'
    BY <1>5 DEF WritePid
  <1>6. ASSUME NEW d \in Daemons, Probe(d) PROVE LifecycleTypeOK'
    BY <1>0, <1>6 DEF Probe
  <1>7. ASSUME NEW d \in Daemons, Unlink(d) PROVE LifecycleTypeOK'
    <2>1. CASE sockpath[sock[d]] = None
      BY <1>0, <1>7, <2>1 DEF Unlink
    <2>2. CASE sockpath[sock[d]] # None
      <3>1. sockpath' = [sockpath EXCEPT ![sock[d]] = None] /\ pc' = [pc EXCEPT ![d] = "bind"]
        BY <1>7, <2>2 DEF Unlink
      <3>2. UNCHANGED <<sock, asked, opened, locker, body, pidpath, listener, private,
                        stop, target, stops, pulled>>
        BY <1>7, <2>2 DEF Unlink
      <3>3. QED
        BY <3>1, <3>2
    <2>3. QED
      BY <2>1, <2>2
  <1>8. ASSUME NEW d \in Daemons, Bind(d) PROVE LifecycleTypeOK'
    <2>1. CASE sockpath[sock[d]] # None
      BY <1>0, <1>8, <2>1 DEF Bind
    <2>2. CASE sockpath[sock[d]] = None
      <3>1. /\ pc' = [pc EXCEPT ![d] = "listen"]
            /\ sockpath' = [sockpath EXCEPT ![sock[d]] = d]
            /\ listener' = [listener EXCEPT ![d][sock[d]] = "bound"]
            /\ private' = TRUE
        BY <1>8, <2>2 DEF Bind
      <3>2. UNCHANGED <<sock, asked, opened, locker, body, pidpath, stop, target, stops,
                        pulled>>
        BY <1>8, <2>2 DEF Bind
      <3>3. QED
        BY <3>1, <3>2
    <2>3. QED
      BY <2>1, <2>2
  <1>9. ASSUME NEW d \in Daemons, Listen(d) PROVE LifecycleTypeOK'
    BY <1>9 DEF Listen
  <1>10. ASSUME NEW d \in Daemons, Terminate(d) PROVE LifecycleTypeOK'
    BY <1>10 DEF Terminate
  <1>11. ASSUME NEW d \in Daemons, WindDown(d) \/ AcceptFails(d) PROVE LifecycleTypeOK'
    <2>1. /\ pc' \in {[pc EXCEPT ![d] = at] : at \in {"deaf", "remove socket"}}
          /\ listener' = [listener EXCEPT ![d]["main"] = "none"]
          /\ UNCHANGED <<sock, asked, opened, locker, body, pidpath, sockpath, private, stop,
                         target, stops, pulled>>
      BY <1>11 DEF WindDown, AcceptFails
    <2>2. QED
      BY <2>1
  <1>12. ASSUME NEW d \in Daemons, AdminEnds(d) PROVE LifecycleTypeOK'
    BY <1>12 DEF AdminEnds
  <1>13. ASSUME NEW d \in Daemons, RemoveSocket(d) PROVE LifecycleTypeOK'
    BY <1>13 DEF RemoveSocket
  <1>14. ASSUME NEW d \in Daemons, RemovePidfile(d) PROVE LifecycleTypeOK'
    BY <1>14 DEF RemovePidfile, UnlinkPidfile
  <1>15. ASSUME NEW d \in Daemons, Return(d) \/ Kill(d) PROVE LifecycleTypeOK'
    BY <1>0, <1>15 DEF Return, Kill
  <1>16. CASE StopReads
    <2>1. /\ target' \in Daemons \cup {None}
          /\ stop' \in {"idle", "probe"}
          /\ stop' = "idle" \/ target' \in Daemons
      <3>1. target' = IF pidpath = None THEN None ELSE body[pidpath]
        BY <1>16 DEF StopReads
      <3>2. stop' = IF target' = None THEN "idle" ELSE "probe"
        BY <1>16 DEF StopReads
      <3>3. QED
        BY <3>1, <3>2
    <2>2. stops' \in Nat
      BY <1>16, CountedStops
    <2>3. QED
      <3>1. UNCHANGED <<pc, sock, asked, opened, locker, body, pidpath, sockpath,
                        listener, private, pulled>>
        BY <1>16, Zenon DEF StopReads
      <3>2. QED
        BY <2>1, <2>2, <3>1
  <1>17. CASE StopProbes
    BY <1>17 DEF StopProbes
  <1>18. CASE StopSignals
    BY <1>18 DEF StopSignals
  <1>19. CASE StopCleans
    BY <1>19 DEF StopCleans, UnlinkPidfile
  <1>20. QED
    BY <1>1, <1>2, <1>3, <1>4, <1>5, <1>6, <1>7, <1>8, <1>9, <1>10, <1>11, <1>12,
       <1>13, <1>14, <1>15, <1>16, <1>17, <1>18, <1>19 DEF LifecycleNext

(* A step that neither opens nor locks, nor ends. *)
Moves(d, step) ==
  /\ pc' = [pc EXCEPT ![d] = step]
  /\ \/ pc[d] \in Active /\ step \in Holding
     \/ pc[d] = "unborn" /\ step = "open"
  /\ opened' = opened /\ locker' = locker

(* Every step leaves the lock with the one that took it. *)
LEMMA LocksStep ==
  ASSUME LifecycleTypeOK, LocksAreHeld, LifecycleNext
  PROVE  LocksAreHeld'
  <1> USE NoneIsNoDaemon
  <1>0. ASSUME NEW d \in Daemons, Exit(d) PROVE LocksAreHeld'
    <2> SUFFICES ASSUME NEW e \in Daemons, NEW f \in Daemons
                 PROVE  HasOpen(e)' /\ Locks(e, f)'
      BY DEF LocksAreHeld
    <2>1. HasOpen(e) /\ Locks(e, f) /\ Locks(d, f)
      BY DEF LocksAreHeld
    <2>2. CASE e = d
      BY <1>0, <2>1, <2>2 DEF Exit, HasOpen, Locks, Holding, LifecycleTypeOK
    <2>3. CASE e # d
      BY <1>0, <2>1, <2>3 DEF Exit, HasOpen, Locks, LifecycleTypeOK
    <2>4. QED
      BY <2>2, <2>3
  <1>1. ASSUME NEW d \in Daemons, OpenPidfile(d) PROVE LocksAreHeld'
    <2> SUFFICES ASSUME NEW e \in Daemons, NEW f \in Daemons
                 PROVE  HasOpen(e)' /\ Locks(e, f)'
      BY DEF LocksAreHeld
    <2>1. HasOpen(e) /\ Locks(e, f)
      BY DEF LocksAreHeld
    <2>2. /\ pc[d] = "open" /\ pc' = [pc EXCEPT ![d] = "lock"]
          /\ opened' = [opened EXCEPT ![d] = pidpath'] /\ pidpath' \in Daemons
          /\ locker' = locker
      BY <1>1 DEF OpenPidfile, Goto, LifecycleTypeOK
    <2>3. QED
      BY <2>1, <2>2 DEF HasOpen, Locks, Holding, LifecycleTypeOK
  <1>2. ASSUME NEW d \in Daemons, Lock(d), locker[opened[d]] = None PROVE LocksAreHeld'
    <2> SUFFICES ASSUME NEW e \in Daemons, NEW f \in Daemons
                 PROVE  HasOpen(e)' /\ Locks(e, f)'
      BY DEF LocksAreHeld
    <2>1. HasOpen(e) /\ HasOpen(d) /\ Locks(e, f) /\ Locks(d, f)
      BY DEF LocksAreHeld
    <2>2. /\ pc[d] = "lock" /\ pc' = [pc EXCEPT ![d] = "write"]
          /\ locker' = [locker EXCEPT ![opened[d]] = d] /\ opened' = opened
      BY <1>2 DEF Lock, Goto
    <2>3. opened[d] \in Daemons
      BY <2>1, <2>2 DEF HasOpen, LifecycleTypeOK
    <2>4. HasOpen(e)'
      BY <2>1, <2>2 DEF HasOpen, LifecycleTypeOK
    <2>5. Locks(e, f)'
      BY <1>2, <2>1, <2>2, <2>3 DEF Locks, Holding, LifecycleTypeOK
    <2>6. QED
      BY <2>4, <2>5
  <1>3. ASSUME NEW d \in Daemons, NEW step, Moves(d, step)
        PROVE  LocksAreHeld'
    <2> SUFFICES ASSUME NEW e \in Daemons, NEW f \in Daemons
                 PROVE  HasOpen(e)' /\ Locks(e, f)'
      BY DEF LocksAreHeld
    <2>1. HasOpen(e) /\ Locks(e, f)
      BY DEF LocksAreHeld
    <2>2. QED
      BY <1>3, <2>1 DEF Moves, HasOpen, Locks, Holding, Active, LifecycleTypeOK
  <1>4. ASSUME UNCHANGED <<opened, locker, pc>> PROVE LocksAreHeld'
    BY <1>4 DEF LocksAreHeld, HasOpen, Locks
  <1>5. ASSUME NEW d \in Daemons,
               Start(d) \/ Truncate(d) \/ WritePid(d) \/ Listen(d) \/ WindDown(d)
                 \/ AcceptFails(d) \/ RemoveSocket(d) \/ RemovePidfile(d)
        PROVE  LocksAreHeld'
    <2>1. \E step : Moves(d, step)
      BY <1>5 DEF Start, Truncate, WritePid, Listen, WindDown, AcceptFails, RemoveSocket, RemovePidfile,
                  Goto, ThenAdmin, Moves, Holding, Active
    <2>2. QED
      BY <1>3, <2>1
  <1>6. ASSUME NEW d \in Daemons, Probe(d) \/ Unlink(d) \/ Bind(d) PROVE LocksAreHeld'
    <2>1. CASE Exit(d)
      BY <1>0, <2>1
    <2>2. CASE ~Exit(d)
      <3>1. \E step : Moves(d, step)
        BY <1>6, <2>2 DEF Probe, Unlink, Bind, Goto, Moves, Holding, Active
      <3>2. QED
        BY <1>3, <3>1
    <2>3. QED
      BY <2>1, <2>2
  <1>7. ASSUME NEW d \in Daemons, Lock(d) PROVE LocksAreHeld'
    BY <1>0, <1>2, <1>7 DEF Lock
  <1>8. ASSUME NEW d \in Daemons, Terminate(d) \/ AdminEnds(d) PROVE LocksAreHeld'
    BY <1>4, <1>8 DEF Terminate, AdminEnds
  <1>9. ASSUME NEW d \in Daemons, Return(d) \/ Kill(d) PROVE LocksAreHeld'
    BY <1>0, <1>9 DEF Return, Kill
  <1>10. CASE StopReads \/ StopProbes \/ StopSignals \/ StopCleans
    BY <1>4, <1>10 DEF StopReads, StopProbes, StopSignals, StopCleans
  <1>11. QED
    BY <1>1, <1>5, <1>6, <1>7, <1>8, <1>9, <1>10 DEF LifecycleNext

(* Nobody keeps a pidfile that has left the path. *)
LEMMA OpenStep ==
  ASSUME LifecycleTypeOK, LocksAreHeld, OpenIsAtPath, LifecycleNext
  PROVE  OpenIsAtPath'
  <1> USE NoneIsNoDaemon
  <1>0. ASSUME NEW d \in Daemons, Exit(d) PROVE OpenIsAtPath'
    BY <1>0 DEF Exit, OpenIsAtPath, LifecycleTypeOK
  <1>1. ASSUME NEW d \in Daemons, OpenPidfile(d) PROVE OpenIsAtPath'
    <2>1. /\ pc[d] = "open" /\ pc' = [pc EXCEPT ![d] = "lock"]
          /\ opened' = [opened EXCEPT ![d] = pidpath'] /\ pulled' = pulled
          /\ pidpath' = IF pidpath = None THEN d ELSE pidpath
      BY <1>1 DEF OpenPidfile, Goto
    <2> SUFFICES ASSUME NEW e \in Daemons, ~pulled, opened'[e] # None, pc'[e] # "exit"
                 PROVE  opened'[e] = pidpath'
      BY <2>1 DEF OpenIsAtPath
    <2>2. CASE e = d
      BY <2>1, <2>2 DEF LifecycleTypeOK
    <2>3. CASE e # d
      <3>1. opened'[e] = opened[e] /\ pc'[e] = pc[e]
        BY <2>1, <2>3 DEF LifecycleTypeOK
      <3>2. opened[e] = pidpath /\ pidpath # None
        BY <3>1 DEF OpenIsAtPath
      <3>3. QED
        BY <2>1, <3>1, <3>2
    <2>4. QED
      BY <2>2, <2>3
  <1>2. ASSUME NEW d \in Daemons, Lock(d), locker[opened[d]] = None PROVE OpenIsAtPath'
    BY <1>2 DEF Lock, Goto, OpenIsAtPath, LifecycleTypeOK
  <1>3. ASSUME NEW d \in Daemons, NEW step, Moves(d, step), UNCHANGED <<pidpath, pulled>>
        PROVE  OpenIsAtPath'
    <2> SUFFICES ASSUME NEW e \in Daemons, ~pulled, opened[e] # None, pc'[e] # "exit"
                 PROVE  opened[e] = pidpath
      BY <1>3 DEF OpenIsAtPath, Moves
    <2>1. CASE pc[e] # "exit"
      BY <2>1 DEF OpenIsAtPath
    <2>2. CASE pc[e] = "exit"
      <3>1. e = d
        BY <1>3, <2>2 DEF Moves, LifecycleTypeOK
      <3>2. QED
        BY <1>3, <2>2, <3>1 DEF Moves, LifecycleTypeOK, Active
    <2>3. QED
      BY <2>1, <2>2
  <1>4. ASSUME UNCHANGED <<opened, pc, pidpath, pulled>> PROVE OpenIsAtPath'
    BY <1>4 DEF OpenIsAtPath
  <1>5. ASSUME NEW d \in Daemons,
               Start(d) \/ Truncate(d) \/ WritePid(d) \/ Listen(d) \/ WindDown(d)
                 \/ AcceptFails(d) \/ RemoveSocket(d)
        PROVE  OpenIsAtPath'
    <2>1. \E step : Moves(d, step)
      BY <1>5 DEF Start, Truncate, WritePid, Listen, WindDown, AcceptFails, RemoveSocket,
                  Goto, ThenAdmin, Moves, Holding, Active
    <2>2. UNCHANGED <<pidpath, pulled>>
      BY <1>5 DEF Start, Truncate, WritePid, Listen, WindDown, AcceptFails, RemoveSocket
    <2>3. QED
      BY <1>3, <2>1, <2>2
  <1>6. ASSUME NEW d \in Daemons, Probe(d) \/ Unlink(d) \/ Bind(d) PROVE OpenIsAtPath'
    <2>1. CASE Exit(d)
      BY <1>0, <2>1
    <2>2. CASE ~Exit(d)
      <3>1. (\E step : Moves(d, step)) /\ UNCHANGED <<pidpath, pulled>>
        BY <1>6, <2>2 DEF Probe, Unlink, Bind, Goto, Moves, Holding, Active
      <3>2. QED
        BY <1>3, <3>1
    <2>3. QED
      BY <2>1, <2>2
  <1>7. ASSUME NEW d \in Daemons, Lock(d) PROVE OpenIsAtPath'
    BY <1>0, <1>2, <1>7 DEF Lock
  <1>8. ASSUME NEW d \in Daemons, RemovePidfile(d) PROVE OpenIsAtPath'
    <2>1. /\ pc' = [pc EXCEPT ![d] = "exit"] /\ opened' = opened
          /\ pulled' = (pulled \/ \E e \in Daemons \ {d} :
                                    opened[e] # None /\ opened[e] = pidpath)
      BY <1>8 DEF RemovePidfile, UnlinkPidfile, Goto
    <2> SUFFICES ASSUME NEW e \in Daemons, ~pulled', opened[e] # None, pc'[e] # "exit"
                 PROVE  FALSE
      BY <2>1 DEF OpenIsAtPath
    <2>2. e # d /\ pc[e] # "exit"
      BY <2>1 DEF LifecycleTypeOK
    <2>3. QED
      BY <2>1, <2>2 DEF OpenIsAtPath
  <1>9. CASE StopCleans
    <2>1. /\ pc' = pc /\ opened' = opened
          /\ pulled' = (pulled \/ \E e \in Daemons \ {None} :
                                    opened[e] # None /\ opened[e] = pidpath)
      BY <1>9 DEF StopCleans, UnlinkPidfile
    <2>2. QED
      BY <2>1 DEF OpenIsAtPath
  <1>10. ASSUME NEW d \in Daemons, Terminate(d) \/ AdminEnds(d) PROVE OpenIsAtPath'
    BY <1>4, <1>10 DEF Terminate, AdminEnds
  <1>11. ASSUME NEW d \in Daemons, Return(d) \/ Kill(d) PROVE OpenIsAtPath'
    BY <1>0, <1>11 DEF Return, Kill
  <1>12. CASE StopReads \/ StopProbes \/ StopSignals
    BY <1>4, <1>12 DEF StopReads, StopProbes, StopSignals
  <1>13. QED
    BY <1>1, <1>5, <1>6, <1>7, <1>8, <1>9, <1>10, <1>11, <1>12 DEF LifecycleNext

(* What a daemon did to its own ends stays done until it winds down. *)
LEMMA EndsStep ==
  ASSUME LifecycleTypeOK, OwnEnds, LifecycleNext
  PROVE  OwnEnds'
  <1> USE DEF OwnEnds, MainListening, MainBound, LifecycleTypeOK, Sockets, Steps
  <1>0. ASSUME NEW d \in Daemons, Exit(d) PROVE OwnEnds'
    BY <1>0 DEF Exit
  <1>1. ASSUME NEW d \in Daemons, Start(d) PROVE OwnEnds'
    BY <1>1 DEF Start, Goto
  <1>2. ASSUME NEW d \in Daemons, OpenPidfile(d) PROVE OwnEnds'
    BY <1>2 DEF OpenPidfile, Goto
  <1>3. ASSUME NEW d \in Daemons, Lock(d) PROVE OwnEnds'
    <2>1. CASE Exit(d)
      BY <1>0, <2>1
    <2>2. CASE ~Exit(d)
      BY <1>3, <2>2 DEF Lock, Goto
    <2>3. QED
      BY <2>1, <2>2
  <1>4. ASSUME NEW d \in Daemons, Truncate(d) PROVE OwnEnds'
    BY <1>4 DEF Truncate, Goto
  <1>5. ASSUME NEW d \in Daemons, WritePid(d) PROVE OwnEnds'
    <2>1. /\ pc[d] = "pid" /\ pc' = [pc EXCEPT ![d] = "probe"]
          /\ UNCHANGED <<sock, listener, private>>
      BY <1>5 DEF WritePid, Goto
    <2>2. QED
      BY <2>1
  <1>6. ASSUME NEW d \in Daemons, Probe(d) PROVE OwnEnds'
    <2>1. CASE Exit(d)
      BY <1>0, <2>1
    <2>2. CASE ~Exit(d)
      <3>1. /\ pc[d] = "probe" /\ pc' \in {[pc EXCEPT ![d] = at] : at \in {"bind", "unlink"}}
            /\ UNCHANGED <<sock, listener, private>>
        BY <1>6, <2>2 DEF Probe, Goto
      <3>2. QED
        BY <3>1
    <2>3. QED
      BY <2>1, <2>2
  <1>7. ASSUME NEW d \in Daemons, Unlink(d) PROVE OwnEnds'
    <2>1. CASE Exit(d)
      BY <1>0, <2>1
    <2>2. CASE ~Exit(d)
      <3>1. /\ pc[d] = "unlink" /\ pc' = [pc EXCEPT ![d] = "bind"]
            /\ UNCHANGED <<sock, listener, private>>
        BY <1>7, <2>2 DEF Unlink, Goto
      <3>2. QED
        BY <3>1
    <2>3. QED
      BY <2>1, <2>2
  <1>8. ASSUME NEW d \in Daemons, Bind(d) PROVE OwnEnds'
    <2>1. CASE Exit(d)
      BY <1>0, <2>1
    <2>2. CASE ~Exit(d)
      <3>1. /\ pc[d] = "bind" /\ pc' = [pc EXCEPT ![d] = "listen"]
            /\ listener' = [listener EXCEPT ![d][sock[d]] = "bound"]
            /\ private' = TRUE /\ sock' = sock
        BY <1>8, <2>2 DEF Bind, Goto
      <3>2. QED
        BY <3>1
    <2>3. QED
      BY <2>1, <2>2
  <1>9. ASSUME NEW d \in Daemons, Listen(d) PROVE OwnEnds'
    <2>1. /\ pc[d] = "listen" /\ private' = private
          /\ listener' = [listener EXCEPT ![d][sock[d]] = "listening"]
      BY <1>9 DEF Listen
    <2>2. CASE sock[d] = "main"
      <3>1. /\ pc' = [pc EXCEPT ![d] = "probe"] /\ sock' = [sock EXCEPT ![d] = "admin"]
        BY <1>9, <2>2 DEF Listen, ThenAdmin
      <3>2. QED
        BY <2>1, <2>2, <3>1
    <2>3. CASE sock[d] = "admin"
      <3>1. /\ pc' = [pc EXCEPT ![d] = "serve"] /\ sock' = [sock EXCEPT ![d] = "main"]
        BY <1>9, <2>3 DEF Listen, ThenAdmin
      <3>2. QED
        BY <2>1, <2>3, <3>1
    <2>4. QED
      BY <2>2, <2>3
  <1>10. ASSUME NEW d \in Daemons, WindDown(d) \/ AcceptFails(d) PROVE OwnEnds'
    <2>1. /\ pc[d] \in {"serve", "deaf"}
          /\ pc' \in {[pc EXCEPT ![d] = at] : at \in {"deaf", "remove socket"}}
          /\ listener' = [listener EXCEPT ![d]["main"] = "none"]
          /\ UNCHANGED <<sock, private>>
      BY <1>10 DEF WindDown, AcceptFails, Goto
    <2>2. QED
      BY <2>1
  <1>11. ASSUME NEW d \in Daemons, AdminEnds(d) PROVE OwnEnds'
    BY <1>11 DEF AdminEnds
  <1>12. ASSUME NEW d \in Daemons, RemoveSocket(d) PROVE OwnEnds'
    <2>1. UNCHANGED <<listener, private>> /\ pc[d] = "remove socket"
      BY <1>12 DEF RemoveSocket
    <2>2. CASE sock[d] = "main"
      <3>1. pc' = [pc EXCEPT ![d] = "remove socket"] /\ sock' = [sock EXCEPT ![d] = "admin"]
        BY <1>12, <2>2 DEF RemoveSocket, ThenAdmin
      <3>2. QED
        BY <2>1, <3>1
    <2>3. CASE sock[d] = "admin"
      <3>1. pc' = [pc EXCEPT ![d] = "remove pidfile"] /\ sock' = [sock EXCEPT ![d] = "main"]
        BY <1>12, <2>3 DEF RemoveSocket, ThenAdmin
      <3>2. QED
        BY <2>1, <3>1
    <2>4. QED
      BY <2>2, <2>3
  <1>13. ASSUME NEW d \in Daemons, RemovePidfile(d) PROVE OwnEnds'
    BY <1>13 DEF RemovePidfile, Goto
  <1>14. ASSUME NEW d \in Daemons, Return(d) \/ Kill(d) PROVE OwnEnds'
    BY <1>0, <1>14 DEF Return, Kill
  <1>15. ASSUME UNCHANGED <<pc, sock, listener, private>> PROVE OwnEnds'
    BY <1>15
  <1>16. ASSUME NEW d \in Daemons, Terminate(d) PROVE OwnEnds'
    BY <1>15, <1>16 DEF Terminate
  <1>17. CASE StopReads \/ StopProbes \/ StopSignals \/ StopCleans
    BY <1>15, <1>17 DEF StopReads, StopProbes, StopSignals, StopCleans
  <1>18. QED
    BY <1>1, <1>2, <1>3, <1>4, <1>5, <1>6, <1>7, <1>8, <1>9, <1>10, <1>11, <1>12,
       <1>13, <1>14, <1>16, <1>17 DEF LifecycleNext

(* What one daemon has put at the paths. *)
Claims(d) ==
  /\ PidWritten(d) => body[opened[d]] = d
  /\ MainBound(d) => sockpath["main"] = d
  /\ AdminBound(d) => sockpath["admin"] = d

Claiming(d) == PidWritten(d) \/ MainBound(d) \/ AdminBound(d)

(* Another daemon that changes a file or a path is active, and then this   *)
(* one has nothing there yet.                                              *)
LEMMA OthersLeaveIt ==
  ASSUME LifecycleTypeOK, LocksAreHeld, OpenIsAtPath, ~pulled,
         NEW d \in Daemons, NEW e \in Daemons, e # d, pc[d] \in Active, Claims(e),
         pc'[e] = pc[e], sock'[e] = sock[e]
  PROVE  Claims(e)'
  <1>1. pc[e] \notin Active
    BY OneActive
  <1>2. ~Claiming(e)
    BY <1>1 DEF Claiming, PidWritten, MainBound, MainListening, AdminBound, Active, Holding
  <1>3. ~Claiming(e)'
    BY <1>2 DEF Claiming, PidWritten, MainBound, MainListening, AdminBound
  <1>4. QED
    BY <1>3 DEF Claims, Claiming

(* Until a pidfile is pulled, each daemon's sockets stay its own. *)
LEMMA PathsStep ==
  ASSUME LifecycleTypeOK, LocksAreHeld, OpenIsAtPath, OwnEnds, OwnPaths, LifecycleNext
  PROVE  OwnPaths'
  <1> USE NoneIsNoDaemon
  <1>a. ~pulled' => ~pulled
    BY DEF LifecycleNext, Start, OpenPidfile, Lock, Truncate, WritePid, Probe, Unlink, Bind,
           Listen, Terminate, AcceptFails, WindDown, AdminEnds, RemoveSocket, RemovePidfile, Return, Kill,
           Exit, UnlinkPidfile, StopReads, StopProbes, StopSignals, StopCleans
  <1> SUFFICES ASSUME ~pulled, ~pulled', NEW e \in Daemons, Claims(e)
               PROVE  Claims(e)'
    BY <1>a DEF OwnPaths, Claims
  <1> USE DEF Claims, PidWritten, MainBound, MainListening, AdminBound, LifecycleTypeOK
  <1>0. ASSUME NEW d \in Daemons, Exit(d) PROVE Claims(e)'
    BY <1>0 DEF Exit
  <1>b. ASSUME NEW d \in Daemons, pc[d] \in Active, e # d, pc'[e] = pc[e], sock'[e] = sock[e]
        PROVE  Claims(e)'
    BY <1>b, OthersLeaveIt
  <1>1. ASSUME NEW d \in Daemons, Start(d) PROVE Claims(e)'
    BY <1>1 DEF Start, Goto
  <1>2. ASSUME NEW d \in Daemons, OpenPidfile(d) PROVE Claims(e)'
    <2>1. /\ pc[d] = "open" /\ pc' = [pc EXCEPT ![d] = "lock"]
          /\ opened' = [opened EXCEPT ![d] = pidpath']
          /\ UNCHANGED <<sock, body, sockpath>>
      BY <1>2 DEF OpenPidfile, Goto
    <2>2. QED
      BY <2>1
  <1>3. ASSUME NEW d \in Daemons, Lock(d) PROVE Claims(e)'
    <2>1. CASE Exit(d)
      BY <1>0, <2>1
    <2>2. CASE ~Exit(d)
      BY <1>3, <2>2 DEF Lock, Goto
    <2>3. QED
      BY <2>1, <2>2
  <1>4. ASSUME NEW d \in Daemons, Truncate(d) PROVE Claims(e)'
    <2>1. /\ pc[d] = "write" /\ pc' = [pc EXCEPT ![d] = "pid"]
          /\ UNCHANGED <<sock, opened, sockpath>>
      BY <1>4 DEF Truncate, Goto
    <2>2. CASE e # d
      BY <1>b, <2>1, <2>2 DEF Active, Holding
    <2>3. CASE e = d
      BY <2>1, <2>3
    <2>4. QED
      BY <2>2, <2>3
  <1>5. ASSUME NEW d \in Daemons, WritePid(d) PROVE Claims(e)'
    <2>1. /\ pc[d] = "pid" /\ pc' = [pc EXCEPT ![d] = "probe"]
          /\ body' = [body EXCEPT ![opened[d]] = d]
          /\ UNCHANGED <<sock, opened, sockpath>>
      BY <1>5 DEF WritePid, Goto
    <2>2. CASE e # d
      BY <1>b, <2>1, <2>2 DEF Active, Holding
    <2>3. CASE e = d
      <3>1. opened[d] \in Daemons
        BY <2>1 DEF LocksAreHeld, HasOpen
      <3>2. body'[opened'[d]] = d
        BY <2>1, <3>1
      <3>3. sock[d] = "main"
        BY <2>1 DEF OwnEnds
      <3>4. QED
        BY <2>1, <2>3, <3>2, <3>3
    <2>4. QED
      BY <2>2, <2>3
  <1>6. ASSUME NEW d \in Daemons, Probe(d) PROVE Claims(e)'
    <2>1. CASE Exit(d)
      BY <1>0, <2>1
    <2>2. CASE ~Exit(d)
      <3>1. /\ pc[d] = "probe"
            /\ \/ pc' = [pc EXCEPT ![d] = "bind"]
               \/ pc' = [pc EXCEPT ![d] = "unlink"]
            /\ UNCHANGED <<sock, opened, body, sockpath>>
        BY <1>6, <2>2 DEF Probe, Goto
      <3>2. QED
        BY <3>1
    <2>3. QED
      BY <2>1, <2>2
  <1>7. ASSUME NEW d \in Daemons, Unlink(d) PROVE Claims(e)'
    <2>1. CASE Exit(d)
      BY <1>0, <2>1
    <2>2. CASE ~Exit(d)
      <3>1. /\ pc[d] = "unlink" /\ pc' = [pc EXCEPT ![d] = "bind"]
            /\ sockpath' = [sockpath EXCEPT ![sock[d]] = None]
            /\ UNCHANGED <<sock, opened, body>>
        BY <1>7, <2>2 DEF Unlink, Goto
      <3>2. CASE e # d
        BY <1>b, <3>1, <3>2 DEF Active, Holding
      <3>3. CASE e = d
        BY <3>1, <3>3 DEF Sockets
      <3>4. QED
        BY <3>2, <3>3
    <2>3. QED
      BY <2>1, <2>2
  <1>8. ASSUME NEW d \in Daemons, Bind(d) PROVE Claims(e)'
    <2>1. CASE Exit(d)
      BY <1>0, <2>1
    <2>2. CASE ~Exit(d)
      <3>1. /\ pc[d] = "bind" /\ pc' = [pc EXCEPT ![d] = "listen"]
            /\ sockpath' = [sockpath EXCEPT ![sock[d]] = d]
            /\ UNCHANGED <<sock, opened, body>>
        BY <1>8, <2>2 DEF Bind, Goto
      <3>2. CASE e # d
        BY <1>b, <3>1, <3>2 DEF Active, Holding
      <3>3. CASE e = d
        BY <3>1, <3>3 DEF Sockets
      <3>4. QED
        BY <3>2, <3>3
    <2>3. QED
      BY <2>1, <2>2
  <1>9. ASSUME NEW d \in Daemons, Listen(d) PROVE Claims(e)'
    <2>1. pc[d] = "listen" /\ UNCHANGED <<opened, body, sockpath>>
      BY <1>9 DEF Listen
    <2>2. \/ /\ sock[d] = "main"
             /\ pc' = [pc EXCEPT ![d] = "probe"] /\ sock' = [sock EXCEPT ![d] = "admin"]
          \/ /\ sock[d] = "admin"
             /\ pc' = [pc EXCEPT ![d] = "serve"] /\ sock' = [sock EXCEPT ![d] = "main"]
      BY <1>9 DEF Listen, ThenAdmin, Sockets
    <2>3. QED
      BY <2>1, <2>2
  <1>10. ASSUME NEW d \in Daemons, WindDown(d) \/ AcceptFails(d) PROVE Claims(e)'
    BY <1>10 DEF WindDown, AcceptFails, Goto
  <1>11. ASSUME NEW d \in Daemons, RemoveSocket(d) PROVE Claims(e)'
    <2>1. pc[d] = "remove socket" /\ UNCHANGED <<opened, body>>
      BY <1>11 DEF RemoveSocket
    <2>2. \/ pc' = [pc EXCEPT ![d] = "remove socket"] /\ sock' = [sock EXCEPT ![d] = "admin"]
          \/ pc' = [pc EXCEPT ![d] = "remove pidfile"] /\ sock' = [sock EXCEPT ![d] = "main"]
      BY <1>11 DEF RemoveSocket, ThenAdmin, Sockets
    <2>3. CASE e # d
      BY <1>b, <2>1, <2>2, <2>3 DEF Active, Holding
    <2>4. CASE e = d
      BY <2>1, <2>2, <2>4
    <2>5. QED
      BY <2>3, <2>4
  <1>12. ASSUME NEW d \in Daemons, RemovePidfile(d) PROVE Claims(e)'
    BY <1>12 DEF RemovePidfile, Goto
  <1>13. ASSUME UNCHANGED <<pc, sock, opened, body, sockpath>> PROVE Claims(e)'
    BY <1>13
  <1>14. ASSUME NEW d \in Daemons, Terminate(d) \/ AdminEnds(d) PROVE Claims(e)'
    BY <1>13, <1>14 DEF Terminate, AdminEnds
  <1>15. ASSUME NEW d \in Daemons, Return(d) \/ Kill(d) PROVE Claims(e)'
    BY <1>0, <1>15 DEF Return, Kill
  <1>16. CASE StopReads \/ StopProbes \/ StopSignals \/ StopCleans
    BY <1>13, <1>16 DEF StopReads, StopProbes, StopSignals, StopCleans
  <1>17. QED
    BY <1>1, <1>2, <1>3, <1>4, <1>5, <1>6, <1>7, <1>8, <1>9, <1>10, <1>11, <1>12,
       <1>14, <1>15, <1>16 DEF LifecycleNext

-----------------------------------------------------------------------------
(* The invariant holds whoever starts, stops and is killed, and when. *)
THEOREM LifecycleInvariant == LifecycleSpec => []LifecycleInv
  <1>1. LifecycleInit => LifecycleInv
    BY InitDaemons
  <1>2. LifecycleInv /\ [LifecycleNext]_lifecycleVars => LifecycleInv'
    <2>1. CASE LifecycleInv /\ LifecycleNext
      BY <2>1, TypeStep, LocksStep, OpenStep, EndsStep, PathsStep DEF LifecycleInv
    <2>2. CASE LifecycleInv /\ UNCHANGED lifecycleVars
      BY <2>2 DEF lifecycleVars, LifecycleInv, LifecycleTypeOK, LocksAreHeld, HasOpen, Locks,
                  OpenIsAtPath, OwnEnds, OwnPaths, PidWritten, MainListening, MainBound,
                  AdminBound
    <2>3. QED
      BY <2>1, <2>2
  <1>3. QED
    BY <1>1, <1>2, PTL DEF LifecycleSpec

(* A daemon that is up is the one everybody finds, or nobody if it is deaf. *)
LEMMA InvServes == LifecycleInv => ServingIsReachable
  <1> SUFFICES ASSUME LifecycleInv, NEW d \in Daemons, pc[d] \in {"serve", "deaf"}, ~pulled
               PROVE  /\ \A s \in Sockets : sockpath[s] = d
                      /\ Locker = d
                      /\ pc[d] = "serve" => ClientTrusts /\ StatusRunning /\ DoctorOk
                      /\ pc[d] = "deaf" => ~ClientTrusts /\ ~StatusRunning /\ ~DoctorOk
    BY DEF ServingIsReachable
  <1> USE NoneIsNoDaemon DEF LifecycleInv
  <1>1. opened[d] = pidpath /\ pidpath # None
    BY DEF LocksAreHeld, HasOpen, OpenIsAtPath
  <1>2. locker[pidpath] = d
    BY <1>1 DEF LocksAreHeld, Locks, Holding, LifecycleTypeOK
  <1>3. body[pidpath] = d /\ sockpath["main"] = d /\ sockpath["admin"] = d
    BY <1>1 DEF OwnPaths, PidWritten, MainBound, MainListening, AdminBound
  <1>4. private /\ (Reaches("main") <=> pc[d] = "serve")
    BY <1>3 DEF OwnEnds, MainBound, MainListening, Reaches
  <1>5. Locker = d /\ PidRead = d
    BY <1>1, <1>2, <1>3 DEF Locker, PidRead
  <1>6. CASE pc[d] = "serve"
    <2>1. ClientTrusts /\ StatusRunning /\ DoctorOk
      BY <1>3, <1>4, <1>5, <1>6 DEF ClientTrusts, VerifySocketParent, StatusRunning, DoctorOk, Alive
    <2>2. QED
      BY <1>3, <1>5, <1>6, <2>1 DEF Sockets
  <1>7. CASE pc[d] = "deaf"
    <2>1. ~ClientTrusts /\ ~StatusRunning /\ ~DoctorOk
      BY <1>4, <1>7 DEF ClientTrusts, StatusRunning, DoctorOk
    <2>2. QED
      BY <1>3, <1>5, <1>7, <2>1 DEF Sockets
  <1>8. QED
    BY <1>6, <1>7

(* One daemon per user, found by all while it accepts and called well by   *)
(* nobody once its accept loop has failed, for any number of daemons and   *)
(* stop commands: src/vetter-core/src/pidfile.rs, src/vetterd/src/lib.rs.  *)
THEOREM ServingReachable == LifecycleSpec => []ServingIsReachable
  BY LifecycleInvariant, InvServes, PTL

-----------------------------------------------------------------------------
(* The settings file and the autostart entry.                              *)
Tasks == [pc : {"none", "load", "store", "apply"}, field : Fields, want : BOOLEAN,
          wished : BOOLEAN, copy : Settings]

AutostartTypeOK ==
  /\ platform \in {"linux", "mac"}
  /\ file     \in Settings \cup {Broken}
  /\ entry    \in {"absent", "enabled", "hidden", "gone", "requires_approval"}
  /\ running  \in BOOLEAN
  /\ box      \in Settings
  /\ task     \in [Threads -> Tasks]
  /\ \A t \in Threads : task[t].pc = "apply" => task[t].field = "autostart"
  /\ wish     \in Settings
  /\ sure     \in Settings
  /\ moves    \in Nat

(* A dead daemon has no threads and is sure of nothing. *)
NothingWhenDown ==
  ~running => Quiet /\ \A f \in Fields : ~sure[f]

AskedFor(t) == Busy(t) /\ task[t].wished

Alone ==
  \A f \in Fields : sure[f] =>
    \A t, u \in Threads : AskedFor(t) /\ Busy(u) => t = u

InForce(f) == Preference[f] = wish[f] /\ (f = "autostart" => IsEnabled = wish[f])

OnTheWay(f, t) ==
  /\ Busy(t) /\ task[t].field = f => task[t].want = wish[f]
  /\ task[t].pc = "store" /\ task[t].field # f => task[t].copy[f] = wish[f]
  /\ task[t].pc = "apply" /\ task[t].field = f => Preference[f] = wish[f]

WishKept ==
  \A f \in Fields : sure[f] =>
    /\ \A t \in Threads : OnTheWay(f, t)
    /\ (\A t \in Threads : AskedFor(t) => task[t].field # f) => InForce(f)

AutostartInv == AutostartTypeOK /\ NothingWhenDown /\ Alone /\ WishKept

-----------------------------------------------------------------------------
(* The settings of an absent file. *)
LEMMA DefaultIsSettings == Default \in Settings
  BY DEF Default, Settings, Fields

(* A file that does not parse holds no settings. *)
LEMMA BrokenIsNone == Broken \notin Settings
  BY AutostartAssumption DEF Settings, Fields

(* An idle thread and a fresh setter are tasks. *)
LEMMA TaskTypes ==
  /\ NoTask \in Tasks
  /\ \A field \in Fields, want, wished \in BOOLEAN : Setter(field, want, wished) \in Tasks
  BY DefaultIsSettings DEF NoTask, Setter, Tasks, Fields

(* What a load returns, from whatever file. *)
LEMMA PreferenceType ==
  ASSUME AutostartTypeOK
  PROVE  Preference \in Settings
  BY DefaultIsSettings DEF Preference, AutostartTypeOK

(* Before the first launch. *)
LEMMA InitSettings == AutostartInit => AutostartInv
  <1> SUFFICES ASSUME AutostartInit PROVE AutostartInv
    OBVIOUS
  <1> USE DEF AutostartInit
  <1>1. AutostartTypeOK
    BY DefaultIsSettings, TaskTypes, AutostartAssumption
    DEF AutostartTypeOK, EntryStates, Settings, NoTask
  <1>2. NothingWhenDown
    BY DEF NothingWhenDown, Quiet, Busy, NoTask
  <1>3. Alone /\ WishKept
    BY DEF Alone, WishKept
  <1>4. QED
    BY <1>1, <1>2, <1>3 DEF AutostartInv

-----------------------------------------------------------------------------
(* enable and disable bring the entry to what was wanted. *)
LEMMA AppliedIsWanted ==
  ASSUME NEW want \in BOOLEAN, entry' \in Applied(want)
  PROVE  /\ entry' \in {"absent", "enabled", "requires_approval"}
         /\ IsEnabled' = want
  BY DEF Applied, IsEnabled

(* The entry is on or off. *)
LEMMA EnabledType == IsEnabled \in BOOLEAN
  BY DEF IsEnabled

(* A launch takes the file for the wish and repairs the entry. *)
LEMMA LaunchInv == ASSUME AutostartInv, Launch PROVE AutostartInv'
  <1> USE DEF AutostartInv
  <1>1. /\ ~running /\ running' = TRUE /\ wish' = Preference
        /\ box' = [f \in Fields |-> platform = "mac" /\ f = "sound"]
        /\ UNCHANGED <<platform, file, task, moves>>
    BY DEF Launch
  <1>2. Preference' = Preference /\ Preference \in Settings
    BY <1>1, PreferenceType DEF Preference
  <1>3. /\ entry' \in {"absent", "enabled", "hidden", "gone", "requires_approval"}
        /\ sure' \in Settings
        /\ sure'["autostart"] => IsEnabled' = Preference["autostart"]
    <2>1. CASE /\ Reconcile(Preference["autostart"])
               /\ sure' = [f \in Fields |-> f = "autostart" /\ entry = "hidden" => ~Preference[f]]
      <3>1. CASE Preference["autostart"] = IsEnabled
        <4>1. entry' = entry
          BY <2>1, <3>1 DEF Reconcile
        <4>2. sure' \in Settings
          BY <1>2, <2>1 DEF Settings, Fields
        <4>3. QED
          BY <2>1, <3>1, <4>1, <4>2 DEF AutostartTypeOK, IsEnabled
      <3>2. CASE Preference["autostart"] # IsEnabled
        <4>1. entry' \in Applied(Preference["autostart"])
          BY <2>1, <3>2 DEF Reconcile
        <4>2. Preference["autostart"] \in BOOLEAN
          BY <1>2 DEF Settings, Fields
        <4>3. sure' \in Settings
          BY <1>2, <2>1 DEF Settings, Fields
        <4>4. QED
          BY <4>1, <4>2, <4>3, AppliedIsWanted
      <3>3. QED
        BY <3>1, <3>2
    <2>2. CASE /\ UNCHANGED entry
               /\ sure' = [f \in Fields |-> f = "sound"]
      BY <2>2 DEF AutostartTypeOK, Settings, Fields
    <2>3. QED
      BY <2>1, <2>2 DEF Launch
  <1>4. \A t \in Threads : ~Busy(t)'
    BY <1>1 DEF NothingWhenDown, Quiet, Busy
  <1>5. AutostartTypeOK'
    BY <1>1, <1>2, <1>3 DEF AutostartTypeOK, Settings, Fields
  <1>6. NothingWhenDown'
    BY <1>1 DEF NothingWhenDown
  <1>7. Alone'
    BY <1>4 DEF Alone
  <1>8. WishKept'
    <2>1. \A f \in Fields, t \in Threads : OnTheWay(f, t)'
      BY <1>4 DEF OnTheWay, Busy
    <2>2. \A f \in Fields : sure'[f] => InForce(f)'
      BY <1>1, <1>2, <1>3 DEF InForce
    <2>3. QED
      BY <2>1, <2>2 DEF WishKept
  <1>9. QED
    BY <1>5, <1>6, <1>7, <1>8

(* The end of a daemon takes its setters with it. *)
LEMMA DownInv == ASSUME AutostartInv, Down PROVE AutostartInv'
  <1> USE DEF AutostartInv, Down
  <1>1. AutostartTypeOK'
    BY TaskTypes DEF AutostartTypeOK, Settings, NoTask
  <1>2. NothingWhenDown'
    BY DEF NothingWhenDown, Quiet, Busy, NoTask
  <1>3. Alone' /\ WishKept'
    BY DEF Alone, WishKept
  <1>4. QED
    BY <1>1, <1>2, <1>3

(* Someone asks: the common part of SetAutostart and Toggle. *)
LEMMA AskInv ==
  ASSUME AutostartInv, NEW t \in Threads, NEW field \in Fields, NEW want \in BOOLEAN,
         Ask(t, field, want), UNCHANGED <<platform, file, entry, running>>,
         box' \in Settings, moves' \in Nat
  PROVE  AutostartInv'
  <1> USE DEF AutostartInv
  <1>1. /\ running /\ ~Busy(t)
        /\ task' = [task EXCEPT ![t] = Setter(field, want, TRUE)]
        /\ wish' = [wish EXCEPT ![field] = want]
        /\ sure' = IF Quiet THEN [sure EXCEPT ![field] = TRUE] ELSE [f \in Fields |-> FALSE]
    BY DEF Ask
  <1>2. /\ task'[t] = Setter(field, want, TRUE)
        /\ \A u \in Threads : u # t => task'[u] = task[u]
        /\ \A f \in Fields : wish'[f] = IF f = field THEN want ELSE wish[f]
    BY <1>1 DEF AutostartTypeOK, Settings
  <1>3. AutostartTypeOK'
    <2>1. task' \in [Threads -> Tasks]
      BY <1>1, TaskTypes DEF AutostartTypeOK
    <2>2. sure' \in Settings /\ wish' \in Settings
      BY <1>1 DEF AutostartTypeOK, Settings
    <2>3. \A u \in Threads : task'[u].pc = "apply" => task'[u].field = "autostart"
      BY <1>2 DEF AutostartTypeOK, Setter
    <2>4. QED
      BY <2>1, <2>2, <2>3 DEF AutostartTypeOK
  <1>4. NothingWhenDown'
    BY <1>1 DEF NothingWhenDown
  <1>5. CASE ~Quiet
    <2>1. \A f \in Fields : ~sure'[f]
      BY <1>1, <1>5
    <2>2. Alone' /\ WishKept'
      BY <2>1 DEF Alone, WishKept
    <2>3. QED
      BY <1>3, <1>4, <2>2
  <1>6. CASE Quiet
    <2>1. \A u \in Threads : u # t => ~Busy(u)'
      BY <1>2, <1>6 DEF Quiet, Busy
    <2>2. Alone'
      BY <2>1 DEF Alone, AskedFor
    <2>3. WishKept'
      <3> SUFFICES ASSUME NEW f \in Fields, sure'[f]
                   PROVE  /\ \A u \in Threads : OnTheWay(f, u)'
                          /\ (\A u \in Threads : AskedFor(u)' => task'[u].field # f)
                               => InForce(f)'
        BY DEF WishKept
      <3>1. \A u \in Threads : u # t => OnTheWay(f, u)'
        BY <2>1 DEF OnTheWay, Busy
      <3>2. OnTheWay(f, t)'
        BY <1>2 DEF OnTheWay, Setter
      <3>3. CASE f = field
        <4>1. AskedFor(t)' /\ task'[t].field = f
          BY <1>2, <3>3 DEF AskedFor, Busy, Setter
        <4>2. QED
          BY <3>1, <3>2, <4>1
      <3>4. CASE f # field
        <4>1. sure[f] /\ wish'[f] = wish[f]
          BY <1>1, <1>2, <1>6, <3>4 DEF AutostartTypeOK, Settings
        <4>2. \A u \in Threads : ~AskedFor(u)
          BY <1>6 DEF Quiet, AskedFor
        <4>3. InForce(f)
          BY <4>1, <4>2 DEF WishKept
        <4>4. InForce(f)'
          BY <4>1, <4>3 DEF InForce, Preference, IsEnabled
        <4>5. QED
          BY <3>1, <3>2, <4>4
      <3>5. QED
        BY <3>3, <3>4
    <2>4. QED
      BY <1>3, <1>4, <2>2, <2>3
  <1>7. QED
    BY <1>5, <1>6

(* Moves are counted. *)
LEMMA MoveType == ASSUME AutostartTypeOK, Move PROVE moves' \in Nat
  <1>1. moves' = moves + 1 /\ moves \in Nat
    BY DEF Move, AutostartTypeOK
  <1>2. QED
    BY <1>1

(* A request from the CLI or a click on a checkbox. *)
LEMMA AskedInv ==
  ASSUME AutostartInv,
         \/ \E want \in BOOLEAN : SetAutostart(want)
         \/ \E field \in Fields : Toggle(field)
  PROVE  AutostartInv'
  <1>0. AutostartTypeOK
    BY DEF AutostartInv
  <1>1. ASSUME NEW want \in BOOLEAN, SetAutostart(want) PROVE AutostartInv'
    <2>1. /\ Ask("admin", "autostart", want)
          /\ UNCHANGED <<platform, file, entry, running>>
      BY <1>1 DEF SetAutostart
    <2>2. box' \in Settings /\ moves' \in Nat
      BY <1>0, <1>1, MoveType DEF SetAutostart, AutostartTypeOK
    <2>3. "admin" \in Threads /\ "autostart" \in Fields
      BY DEF Threads, Fields
    <2>4. QED
      BY <2>1, <2>2, <2>3, AskInv
  <1>2. ASSUME NEW field \in Fields, Toggle(field) PROVE AutostartInv'
    <2>1. PICK t \in WindowThreads : Ask(t, field, ~box[field])
      BY <1>2 DEF Toggle
    <2>2. t \in Threads
      BY DEF Threads, WindowThreads
    <2>3. box' = [box EXCEPT ![field] = ~box[field]]
      BY <1>2 DEF Toggle
    <2>a. (~box[field]) \in BOOLEAN
      OBVIOUS
    <2>4. box' \in Settings
      BY <1>0, <2>a, <2>3 DEF AutostartTypeOK, Settings
    <2>5. moves' \in Nat /\ UNCHANGED <<platform, file, entry, running>>
      BY <1>0, <1>2, MoveType DEF Toggle
    <2>6. QED
      BY <2>1, <2>2, <2>a, <2>4, <2>5, AskInv
  <1>3. QED
    BY <1>1, <1>2

-----------------------------------------------------------------------------
(* A step of a setter: the types, and that nobody new sets out. *)
LEMMA SetterStep ==
  ASSUME AutostartInv, NEW t \in Threads, Busy(t), NEW new \in Tasks,
         task' = [task EXCEPT ![t] = new],
         \/ new.pc = "none"
         \/ /\ new.field = task[t].field /\ new.want = task[t].want
            /\ new.wished = task[t].wished,
         new.pc = "apply" => new.field = "autostart",
         sure' = sure \/ Unsure(t),
         UNCHANGED <<platform, running, wish, moves>>,
         file' \in Settings \cup {Broken},
         entry' \in {"absent", "enabled", "hidden", "gone", "requires_approval"},
         box' \in Settings
  PROVE  /\ AutostartTypeOK' /\ NothingWhenDown' /\ Alone'
         /\ \A f \in Fields : sure'[f] => sure[f]
         /\ task'[t] = new /\ \A u \in Threads : u # t => task'[u] = task[u]
  <1> USE DEF AutostartInv
  <1>1. task'[t] = new /\ \A u \in Threads : u # t => task'[u] = task[u]
    BY DEF AutostartTypeOK
  <1>2. sure' \in Settings /\ \A f \in Fields : sure'[f] => sure[f]
    <2>1. CASE sure' = sure
      BY <2>1 DEF AutostartTypeOK
    <2>2. CASE Unsure(t)
      <3>1. sure' = [sure EXCEPT ![task[t].field] = FALSE]
        BY <2>2 DEF Unsure
      <3>2. task[t].field \in Fields
        BY DEF AutostartTypeOK, Tasks
      <3>3. QED
        BY <3>1, <3>2 DEF AutostartTypeOK, Settings
    <2>3. QED
      BY <2>1, <2>2
  <1>3. AutostartTypeOK'
    BY <1>1, <1>2 DEF AutostartTypeOK
  <1>4. NothingWhenDown'
    BY DEF NothingWhenDown, Quiet
  <1>5. \A u \in Threads : /\ Busy(u)' => Busy(u)
                          /\ AskedFor(u)' => AskedFor(u)
    BY <1>1 DEF AskedFor, Busy
  <1>6. Alone'
    <2> SUFFICES ASSUME NEW f \in Fields, sure'[f], NEW u \in Threads, NEW v \in Threads,
                        AskedFor(u)', Busy(v)'
                 PROVE  u = v
      BY DEF Alone
    <2>1. sure[f] /\ AskedFor(u) /\ Busy(v)
      BY <1>2, <1>5 DEF AskedFor, Busy
    <2>2. QED
      BY <2>1 DEF Alone
  <1>7. QED
    BY <1>1, <1>2, <1>3, <1>4, <1>6

(* A setter that ends without having done what it was to: its preference   *)
(* is no longer sure, and the other one is as it was.                      *)
LEMMA GiveUpInv ==
  ASSUME AutostartInv, NEW t \in Threads, Busy(t), Done(t), Unsure(t),
         UNCHANGED <<platform, file, entry, running, wish, moves>>, box' \in Settings
  PROVE  AutostartInv'
  <1> USE DEF AutostartInv
  <1>1. /\ AutostartTypeOK' /\ NothingWhenDown' /\ Alone'
        /\ \A f \in Fields : sure'[f] => sure[f]
        /\ task'[t] = NoTask /\ \A u \in Threads : u # t => task'[u] = task[u]
    <2>1. NoTask \in Tasks /\ NoTask.pc = "none"
      BY TaskTypes DEF NoTask
    <2>2. task' = [task EXCEPT ![t] = NoTask]
      BY DEF Done
    <2>3. /\ file' \in Settings \cup {Broken}
          /\ entry' \in {"absent", "enabled", "hidden", "gone", "requires_approval"}
      BY DEF AutostartTypeOK
    <2>4. QED
      BY <2>1, <2>2, <2>3, SetterStep
  <1>2. WishKept'
    <2> SUFFICES ASSUME NEW f \in Fields, sure'[f]
                 PROVE  /\ \A u \in Threads : OnTheWay(f, u)'
                        /\ (\A u \in Threads : AskedFor(u)' => task'[u].field # f)
                             => InForce(f)'
      BY DEF WishKept
    <2>1. task[t].field # f /\ sure[f]
      BY <1>1 DEF Unsure, AutostartTypeOK, Settings
    <2>2. \A u \in Threads : OnTheWay(f, u)'
      BY <1>1, <2>1 DEF WishKept, OnTheWay, Busy, NoTask, Preference
    <2>3. ASSUME \A u \in Threads : AskedFor(u)' => task'[u].field # f
          PROVE  InForce(f)'
      <3>1. \A u \in Threads : AskedFor(u) => task[u].field # f
        BY <1>1, <2>1, <2>3 DEF AskedFor, Busy
      <3>2. InForce(f)
        BY <2>1, <3>1 DEF WishKept
      <3>3. QED
        BY <3>2 DEF InForce, Preference, IsEnabled
    <2>4. QED
      BY <2>2, <2>3
  <1>3. QED
    BY <1>1, <1>2

(* A failed popover setter puts its checkbox back. *)
LEMMA RolledBack ==
  ASSUME AutostartTypeOK, NEW t \in Threads, RollBack(t)
  PROVE  box' \in Settings
  <1>1. CASE ~InPopover(t)
    BY <1>1 DEF RollBack, AutostartTypeOK
  <1>2. CASE InPopover(t)
    <2>1. task[t].field \in Fields
      BY DEF AutostartTypeOK, Tasks
    <2>2. IsEnabled \in BOOLEAN /\ Preference["sound"] \in BOOLEAN
      BY PreferenceType, EnabledType DEF Settings, Fields
    <2>3. PICK b \in BOOLEAN : box' = [box EXCEPT ![task[t].field] = b]
      BY <1>2, <2>2 DEF RollBack
    <2>4. QED
      BY <2>1, <2>3 DEF AutostartTypeOK, Settings
  <1>3. QED
    BY <1>1, <1>2

(* What a setter goes on with once the file says what it wants. *)
LEMMA AfterType ==
  ASSUME AutostartTypeOK, NEW t \in Threads
  PROVE  /\ After(t) \in Tasks
         /\ \/ After(t) = NoTask /\ task[t].field = "sound"
            \/ /\ After(t).field = task[t].field /\ After(t).want = task[t].want
               /\ After(t).wished = task[t].wished /\ After(t).pc = "apply"
               /\ task[t].field = "autostart"
  <1>1. task[t] \in Tasks
    BY DEF AutostartTypeOK
  <1>2. CASE task[t].field = "autostart"
    <2>1. After(t) = [task[t] EXCEPT !.pc = "apply", !.copy = Default]
      BY <1>2 DEF After
    <2>2. QED
      BY <1>1, <1>2, <2>1, DefaultIsSettings DEF Tasks
  <1>3. CASE task[t].field # "autostart"
    BY <1>1, <1>3, TaskTypes DEF After, Tasks, Fields
  <1>4. QED
    BY <1>2, <1>3

(* A setter reads the file. *)
LEMMA LoadInv ==
  ASSUME AutostartInv, NEW t \in Threads, Load(t)
  PROVE  AutostartInv'
  <1> USE DEF AutostartInv
  <1> DEFINE field == task[t].field
             write == Preference[field] # task[t].want \/ (InPopover(t) /\ field = "sound")
             loaded == [task[t] EXCEPT !.pc = "store", !.copy = Preference]
  <1>1. /\ task[t].pc = "load" /\ Busy(t)
        /\ UNCHANGED <<platform, file, entry, running, box, wish, moves>>
    BY DEF Load, Busy
  <1>2. CASE file = Broken /\ ~InPopover(t)
    <2>1. Done(t) /\ Unsure(t)
      BY <1>2 DEF Load
    <2>2. box' \in Settings
      BY <1>1 DEF AutostartTypeOK
    <2>3. QED
      BY <1>1, <2>1, <2>2, GiveUpInv
  <1>3. CASE ~(file = Broken /\ ~InPopover(t))
    <2>1. /\ task' = [task EXCEPT ![t] = IF write THEN loaded ELSE After(t)]
          /\ sure' = sure
      BY <1>3 DEF Load
    <2>2. task[t] \in Tasks /\ Preference \in Settings /\ Preference' = Preference
      BY <1>1, PreferenceType DEF AutostartTypeOK, Preference
    <2>3. /\ file' \in Settings \cup {Broken} /\ box' \in Settings
          /\ entry' \in {"absent", "enabled", "hidden", "gone", "requires_approval"}
      BY <1>1 DEF AutostartTypeOK
    <2>4. \A f \in Fields : InForce(f)' <=> InForce(f)
      BY <1>1, <2>2 DEF InForce, IsEnabled
    <2>5. CASE write
      <3>1. /\ loaded \in Tasks /\ loaded.pc = "store" /\ loaded.copy = Preference
            /\ loaded.field = task[t].field /\ loaded.want = task[t].want
            /\ loaded.wished = task[t].wished
        BY <2>2 DEF Tasks
      <3>2. task' = [task EXCEPT ![t] = loaded]
        BY <2>1, <2>5
      <3> HIDE DEF loaded
      <3>3. /\ AutostartTypeOK' /\ NothingWhenDown' /\ Alone'
            /\ task'[t] = loaded /\ \A u \in Threads : u # t => task'[u] = task[u]
        BY <1>1, <2>1, <2>3, <3>1, <3>2, SetterStep
      <3>4. WishKept'
        <4> SUFFICES ASSUME NEW f \in Fields, sure[f]
                     PROVE  /\ \A u \in Threads : OnTheWay(f, u)'
                            /\ (\A u \in Threads : AskedFor(u)' => task'[u].field # f)
                                 => InForce(f)'
          BY <2>1 DEF WishKept
        <4>1. (\A u \in Threads : AskedFor(u) => task[u].field # f) => InForce(f)
          BY DEF WishKept
        <4>2. \A u \in Threads : /\ AskedFor(u)' <=> AskedFor(u)
                                /\ task'[u].field = task[u].field
          BY <1>1, <3>1, <3>3 DEF AskedFor, Busy
        <4>3. ASSUME NEW u \in Threads, u # t PROVE OnTheWay(f, u)'
          BY <1>1, <2>2, <3>3, <4>3 DEF WishKept, OnTheWay, Busy
        <4>4. task[t].field # f => Preference[f] = wish[f]
          <5> SUFFICES ASSUME task[t].field # f PROVE Preference[f] = wish[f]
            OBVIOUS
          <5>1. \A u \in Threads : AskedFor(u) => task[u].field # f
            <6> SUFFICES ASSUME NEW u \in Threads, AskedFor(u) PROVE task[u].field # f
              OBVIOUS
            <6>1. u = t
              BY <1>1 DEF Alone
            <6>2. QED
              BY <6>1
          <5>2. QED
            BY <4>1, <5>1 DEF InForce
        <4>5. OnTheWay(f, t)'
          <5>1. OnTheWay(f, t)
            BY DEF WishKept
          <5>2. QED
            BY <1>1, <3>1, <3>3, <4>4, <5>1 DEF OnTheWay, Busy
        <4>6. QED
          BY <2>4, <4>1, <4>2, <4>3, <4>5
      <3>5. QED
        BY <3>3, <3>4
    <2>6. CASE ~write
      <3>1. /\ After(t) \in Tasks
            /\ \/ After(t) = NoTask /\ task[t].field = "sound"
               \/ /\ After(t).field = task[t].field /\ After(t).want = task[t].want
                  /\ After(t).wished = task[t].wished /\ After(t).pc = "apply"
                  /\ task[t].field = "autostart"
        BY AfterType
      <3>2. task' = [task EXCEPT ![t] = After(t)] /\ NoTask.pc = "none"
        BY <2>1, <2>6 DEF NoTask
      <3>3. /\ AutostartTypeOK' /\ NothingWhenDown' /\ Alone'
            /\ task'[t] = After(t) /\ \A u \in Threads : u # t => task'[u] = task[u]
        <4> DEFINE new == After(t)
        <4>1. new \in Tasks /\ task' = [task EXCEPT ![t] = new]
          BY <3>1, <3>2
        <4>2. /\ \/ new.pc = "none"
                 \/ /\ new.field = task[t].field /\ new.want = task[t].want
                    /\ new.wished = task[t].wished
              /\ new.pc = "apply" => new.field = "autostart"
          BY <3>1, <3>2
        <4> HIDE DEF new
        <4>3. /\ AutostartTypeOK' /\ NothingWhenDown' /\ Alone'
              /\ task'[t] = new /\ \A u \in Threads : u # t => task'[u] = task[u]
          BY <1>1, <2>1, <2>3, <4>1, <4>2, SetterStep
        <4>4. QED
          BY <4>3 DEF new
      <3>4. Preference[task[t].field] = task[t].want
        BY <2>6
      <3>5. WishKept'
        <4> SUFFICES ASSUME NEW f \in Fields, sure[f]
                     PROVE  /\ \A u \in Threads : OnTheWay(f, u)'
                            /\ (\A u \in Threads : AskedFor(u)' => task'[u].field # f)
                                 => InForce(f)'
          BY <2>1 DEF WishKept
        <4>0. \A u \in Threads : OnTheWay(f, u)
          BY DEF WishKept
        <4>1. ASSUME NEW u \in Threads, u # t PROVE OnTheWay(f, u)'
          BY <1>1, <2>2, <3>3, <4>0, <4>1 DEF OnTheWay, Busy
        <4>2. OnTheWay(f, t)'
          BY <1>1, <2>2, <3>1, <3>2, <3>3, <3>4, <4>0 DEF OnTheWay, Busy
        <4>3. ASSUME \A u \in Threads : AskedFor(u)' => task'[u].field # f
              PROVE  InForce(f)
          <5>1. CASE AskedFor(t) /\ task[t].field = f
            <6>1. After(t) = NoTask /\ f = "sound"
              BY <3>1, <3>3, <4>3, <5>1 DEF AskedFor, Busy
            <6>2. Preference[f] = wish[f]
              BY <1>1, <3>4, <4>0, <5>1 DEF OnTheWay
            <6>3. QED
              BY <6>1, <6>2 DEF InForce
          <5>2. CASE ~(AskedFor(t) /\ task[t].field = f)
            <6>1. \A u \in Threads : AskedFor(u) => task[u].field # f
              BY <3>3, <4>3, <5>2 DEF AskedFor, Busy
            <6>2. QED
              BY <6>1 DEF WishKept
          <5>3. QED
            BY <5>1, <5>2
        <4>4. QED
          BY <2>4, <4>1, <4>2, <4>3
      <3>6. QED
        BY <3>3, <3>5
    <2>7. QED
      BY <2>5, <2>6
  <1>4. QED
    BY <1>2, <1>3

(* A file that is written holds the wish in every preference that is sure. *)
LEMMA StoreInv ==
  ASSUME AutostartInv, NEW t \in Threads, Store(t)
  PROVE  AutostartInv'
  <1> USE DEF AutostartInv
  <1> DEFINE field == task[t].field
             stored == [task[t].copy EXCEPT ![field] = task[t].want]
  <1>1. /\ task[t].pc = "store" /\ Busy(t)
        /\ UNCHANGED <<platform, entry, running, wish, moves>>
    BY DEF Store, Busy
  <1>2. CASE /\ UNCHANGED file
             /\ Done(t) /\ Unsure(t) /\ RollBack(t)
    BY <1>1, <1>2, RolledBack, GiveUpInv
  <1>3. CASE /\ file' = stored
             /\ task' = [task EXCEPT ![t] = After(t)]
             /\ UNCHANGED <<box, sure>>
    <2>1. /\ task[t] \in Tasks /\ field \in Fields /\ task[t].want \in BOOLEAN
          /\ task[t].copy \in Settings
      BY DEF AutostartTypeOK, Tasks
    <2>2. /\ stored \in Settings
          /\ \A f \in Fields : stored[f] = IF f = field THEN task[t].want ELSE task[t].copy[f]
      BY <2>1 DEF Settings
    <2>3. Preference' = stored
      BY <1>3, <2>2, BrokenIsNone DEF Preference
    <2>4. /\ After(t) \in Tasks
          /\ \/ After(t) = NoTask /\ task[t].field = "sound"
             \/ /\ After(t).field = task[t].field /\ After(t).want = task[t].want
                /\ After(t).wished = task[t].wished /\ After(t).pc = "apply"
                /\ task[t].field = "autostart"
      BY AfterType
    <2>5. NoTask.pc = "none"
      BY DEF NoTask
    <2>6. /\ AutostartTypeOK' /\ NothingWhenDown' /\ Alone'
          /\ task'[t] = After(t) /\ \A u \in Threads : u # t => task'[u] = task[u]
      <3> DEFINE new == After(t)
      <3>1. new \in Tasks /\ task' = [task EXCEPT ![t] = new]
        BY <1>3, <2>4
      <3>2. /\ \/ new.pc = "none"
               \/ /\ new.field = task[t].field /\ new.want = task[t].want
                  /\ new.wished = task[t].wished
            /\ new.pc = "apply" => new.field = "autostart"
        BY <2>4, <2>5
      <3>3. /\ file' \in Settings \cup {Broken} /\ box' \in Settings
            /\ entry' \in {"absent", "enabled", "hidden", "gone", "requires_approval"}
        BY <1>1, <1>3, <2>2 DEF AutostartTypeOK
      <3> HIDE DEF new
      <3>4. /\ AutostartTypeOK' /\ NothingWhenDown' /\ Alone'
            /\ task'[t] = new /\ \A u \in Threads : u # t => task'[u] = task[u]
        BY <1>1, <1>3, <3>1, <3>2, <3>3, SetterStep
      <3>5. QED
        BY <3>4 DEF new
    <2>7. WishKept'
      <3> SUFFICES ASSUME NEW f \in Fields, sure[f]
                   PROVE  /\ \A u \in Threads : OnTheWay(f, u)'
                          /\ (\A u \in Threads : AskedFor(u)' => task'[u].field # f)
                               => InForce(f)'
        BY <1>3 DEF WishKept
      <3>1. \A u \in Threads : OnTheWay(f, u)
        BY DEF WishKept
      <3>2. stored[f] = wish[f]
        BY <1>1, <2>2, <3>1 DEF OnTheWay
      <3>3. Preference'[f] = wish'[f]
        BY <1>1, <2>3, <3>2
      <3> HIDE DEF stored
      <3>4. ASSUME NEW u \in Threads, u # t PROVE OnTheWay(f, u)'
        BY <1>1, <2>6, <3>1, <3>3, <3>4 DEF OnTheWay, Busy
      <3>5. OnTheWay(f, t)'
        BY <1>1, <2>4, <2>5, <2>6, <3>1, <3>3 DEF OnTheWay, Busy
      <3>6. ASSUME \A u \in Threads : AskedFor(u)' => task'[u].field # f, f = "autostart"
            PROVE  IsEnabled' = wish'[f]
        <4>1. \A u \in Threads : AskedFor(u) => task[u].field # f
          BY <1>1, <2>4, <2>6, <3>6 DEF AskedFor, Busy
        <4>2. InForce(f)
          BY <4>1 DEF WishKept
        <4>3. QED
          BY <1>1, <3>6, <4>2 DEF InForce, IsEnabled
      <3>7. QED
        BY <3>3, <3>4, <3>5, <3>6 DEF InForce
    <2>8. QED
      BY <2>6, <2>7
  <1>4. QED
    BY <1>2, <1>3 DEF Store

(* A setter writes or removes the entry. *)
LEMMA ApplyInv ==
  ASSUME AutostartInv, NEW t \in Threads, Apply(t)
  PROVE  AutostartInv'
  <1> USE DEF AutostartInv
  <1>1. /\ task[t].pc = "apply" /\ Busy(t) /\ Done(t)
        /\ UNCHANGED <<platform, file, running, wish, moves>>
    BY DEF Apply, Busy
  <1>2. CASE UNCHANGED entry /\ Unsure(t) /\ RollBack(t)
    BY <1>1, <1>2, RolledBack, GiveUpInv
  <1>3. CASE /\ entry' \in Applied(task[t].want)
             /\ box' = IF InPopover(t) THEN [box EXCEPT !["autostart"] = task[t].want] ELSE box
             /\ UNCHANGED sure
    <2>1. task[t].want \in BOOLEAN /\ task[t].field = "autostart"
      BY <1>1 DEF AutostartTypeOK, Tasks
    <2>2. /\ entry' \in {"absent", "enabled", "hidden", "gone", "requires_approval"}
          /\ IsEnabled' = task[t].want
      BY <1>3, <2>1, AppliedIsWanted
    <2>3. box' \in Settings /\ file' \in Settings \cup {Broken}
      BY <1>1, <1>3, <2>1 DEF AutostartTypeOK, Settings, Fields
    <2>4. task' = [task EXCEPT ![t] = NoTask] /\ NoTask \in Tasks /\ NoTask.pc = "none"
      BY <1>1, TaskTypes DEF Done, NoTask
    <2>5. /\ AutostartTypeOK' /\ NothingWhenDown' /\ Alone'
          /\ task'[t] = NoTask /\ \A u \in Threads : u # t => task'[u] = task[u]
      BY <1>1, <1>3, <2>2, <2>3, <2>4, SetterStep
    <2>6. Preference' = Preference
      BY <1>1 DEF Preference
    <2>7. WishKept'
      <3> SUFFICES ASSUME NEW f \in Fields, sure[f]
                   PROVE  /\ \A u \in Threads : OnTheWay(f, u)'
                          /\ (\A u \in Threads : AskedFor(u)' => task'[u].field # f)
                               => InForce(f)'
        BY <1>3 DEF WishKept
      <3>1. \A u \in Threads : OnTheWay(f, u)
        BY DEF WishKept
      <3>2. ASSUME NEW u \in Threads PROVE OnTheWay(f, u)'
        BY <1>1, <2>4, <2>5, <2>6, <3>1 DEF OnTheWay, Busy
      <3>3. ASSUME \A u \in Threads : AskedFor(u)' => task'[u].field # f PROVE InForce(f)'
        <4>1. CASE f = "autostart"
          <5>1. Preference[f] = wish[f] /\ task[t].want = wish[f]
            BY <1>1, <2>1, <3>1, <4>1 DEF OnTheWay
          <5>2. QED
            BY <1>1, <2>2, <2>6, <5>1 DEF InForce
        <4>2. CASE f # "autostart"
          <5>1. \A u \in Threads : AskedFor(u) => task[u].field # f
            BY <2>1, <2>5, <3>3, <4>2 DEF AskedFor, Busy
          <5>2. InForce(f)
            BY <5>1 DEF WishKept
          <5>3. QED
            BY <1>1, <2>6, <4>2, <5>2 DEF InForce
        <4>3. QED
          BY <4>1, <4>2
      <3>4. QED
        BY <3>2, <3>3
    <2>8. QED
      BY <2>5, <2>7
  <1>4. QED
    BY <1>2, <1>3 DEF Apply

-----------------------------------------------------------------------------
(* Somebody else changes the entry or the file. *)
LEMMA EditedInv ==
  ASSUME AutostartInv, EntryEdited \/ FileEdited
  PROVE  AutostartInv'
  <1> USE DEF AutostartInv
  <1>0. moves' \in Nat
    BY MoveType DEF EntryEdited, FileEdited
  <1>1. CASE FileEdited
    <2>1. /\ file' \in Settings \cup {Broken} /\ sure' = [f \in Fields |-> FALSE]
          /\ UNCHANGED <<platform, entry, running, box, task, wish>>
      BY <1>1 DEF FileEdited
    <2>2. AutostartTypeOK'
      BY <1>0, <2>1 DEF AutostartTypeOK, Settings
    <2>3. NothingWhenDown' /\ Alone' /\ WishKept'
      BY <2>1 DEF NothingWhenDown, Quiet, Busy, Alone, WishKept
    <2>4. QED
      BY <2>2, <2>3
  <1>2. CASE EntryEdited
    <2>1. /\ entry' \in EntryStates /\ sure' = [sure EXCEPT !["autostart"] = FALSE]
          /\ UNCHANGED <<platform, file, running, box, task, wish>>
      BY <1>2 DEF EntryEdited
    <2>2. /\ entry' \in {"absent", "enabled", "hidden", "gone", "requires_approval"}
          /\ sure' \in Settings
      BY <2>1 DEF EntryStates, AutostartTypeOK, Settings, Fields
    <2>3. AutostartTypeOK'
      BY <1>0, <2>1, <2>2 DEF AutostartTypeOK
    <2>4. \A f \in Fields : sure'[f] => sure[f] /\ f # "autostart"
      BY <2>1 DEF AutostartTypeOK, Settings, Fields
    <2>5. NothingWhenDown' /\ Alone'
      BY <2>1, <2>4 DEF NothingWhenDown, Quiet, Busy, Alone, AskedFor
    <2>6. WishKept'
      <3> SUFFICES ASSUME NEW f \in Fields, sure'[f]
                   PROVE  /\ \A u \in Threads : OnTheWay(f, u)'
                          /\ (\A u \in Threads : AskedFor(u)' => task'[u].field # f)
                               => InForce(f)'
        BY DEF WishKept
      <3>1. sure[f] /\ f # "autostart"
        BY <2>4
      <3>2. QED
        BY <2>1, <3>1 DEF WishKept, OnTheWay, AskedFor, Busy, InForce, Preference
    <2>7. QED
      BY <2>3, <2>5, <2>6
  <1>3. QED
    BY <1>1, <1>2

(* A show may start setters nobody asked for.  They want what is there,    *)
(* and what is there is what was wished, or somebody is at work and then   *)
(* nothing is sure any more.                                               *)
LEMMA ShowInv ==
  ASSUME AutostartInv, Show
  PROVE  AutostartInv'
  <1> USE DEF AutostartInv
  <1> DEFINE seen    == [f \in Fields |-> IF f = "autostart" THEN IsEnabled ELSE Preference[f]]
             changed == {f \in Fields : box[f] # seen[f]}
  <1>0. moves' \in Nat
    BY MoveType DEF Show
  <1>1. running /\ box' = seen /\ UNCHANGED <<platform, file, entry, running, wish>>
    BY DEF Show
  <1>2. /\ seen \in Settings
        /\ \A f \in Fields : seen[f] = IF f = "autostart" THEN IsEnabled ELSE Preference[f]
    BY PreferenceType, EnabledType DEF Settings, Fields
  <1>3. Preference' = Preference /\ IsEnabled' = IsEnabled
    BY <1>1 DEF Preference, IsEnabled
  <1>4. NothingWhenDown'
    BY <1>1 DEF NothingWhenDown
  <1>5. CASE UNCHANGED <<task, sure>>
    <2>1. AutostartTypeOK'
      BY <1>0, <1>1, <1>2, <1>5 DEF AutostartTypeOK
    <2>2. Alone' /\ WishKept'
      BY <1>1, <1>3, <1>5 DEF Alone, WishKept, OnTheWay, InForce, AskedFor, Busy
    <2>3. QED
      BY <1>4, <2>1, <2>2
  <1>6. CASE platform # "mac"
    <2>1. PICK start \in [changed -> {t \in WindowThreads : ~Busy(t)}] :
          task' = [t \in Threads |->
                    IF \E f \in changed : start[f] = t
                    THEN LET f == CHOOSE f \in changed : start[f] = t
                         IN  Setter(f, seen[f], FALSE)
                    ELSE task[t]]
      BY <1>6 DEF Show
    <2>2. sure' = [f \in Fields |-> sure[f] /\ (changed = {} \/ ~Wished)]
      BY <1>6 DEF Show
    <2>3. ASSUME NEW t \in Threads
          PROVE  \/ task'[t] = task[t]
                 \/ /\ changed # {} /\ ~Busy(t)
                    /\ \E f \in Fields : task'[t] = Setter(f, seen[f], FALSE)
      <3>1. CASE \E f \in changed : start[f] = t
        <4> DEFINE g == CHOOSE f \in changed : start[f] = t
        <4>1. g \in changed /\ start[g] = t
          BY <3>1
        <4>2. task'[t] = Setter(g, seen[g], FALSE)
          BY <2>1, <3>1
        <4>3. ~Busy(t) /\ changed # {} /\ g \in Fields
          BY <2>1, <4>1
        <4>4. QED
          BY <4>2, <4>3
      <3>2. CASE ~\E f \in changed : start[f] = t
        BY <2>1, <3>2
      <3>3. QED
        BY <3>1, <3>2
    <2>4. sure' \in Settings /\ \A f \in Fields : sure'[f] => sure[f] /\ (changed = {} \/ ~Wished)
      BY <2>2 DEF Settings
    <2>5. task' \in [Threads -> Tasks]
      <3>1. \A t \in Threads : task'[t] \in Tasks
        <4> SUFFICES ASSUME NEW t \in Threads PROVE task'[t] \in Tasks
          OBVIOUS
        <4>1. CASE task'[t] = task[t]
          BY <4>1 DEF AutostartTypeOK
        <4>2. CASE \E f \in Fields : task'[t] = Setter(f, seen[f], FALSE)
          <5>1. PICK f \in Fields : task'[t] = Setter(f, seen[f], FALSE)
            BY <4>2
          <5>2. seen[f] \in BOOLEAN
            BY <1>2 DEF Settings
          <5> HIDE DEF seen
          <5>3. QED
            BY <5>1, <5>2, TaskTypes
        <4>3. QED
          BY <2>3, <4>1, <4>2
      <3>2. QED
        BY <2>1, <3>1
    <2> HIDE DEF seen, changed
    <2>6. \A t \in Threads : task'[t].pc = "apply" => task'[t].field = "autostart"
      <3> SUFFICES ASSUME NEW t \in Threads, task'[t].pc = "apply"
                   PROVE  task'[t].field = "autostart"
        OBVIOUS
      <3>1. CASE task'[t] = task[t]
        BY <3>1 DEF AutostartTypeOK
      <3>2. CASE task'[t] # task[t]
        <4>1. PICK f \in Fields : task'[t] = Setter(f, seen[f], FALSE)
          BY <2>3, <3>2
        <4>2. task'[t].pc = "load"
          BY <4>1 DEF Setter
        <4>3. QED
          BY <4>2
      <3>3. QED
        BY <3>1, <3>2
    <2>7. AutostartTypeOK'
      BY <1>0, <1>1, <1>2, <2>4, <2>5, <2>6 DEF AutostartTypeOK
    <2>8. CASE changed = {}
      <3>1. \A t \in Threads : task'[t] = task[t]
        BY <2>3, <2>8
      <3>2. Alone'
        BY <2>4, <3>1 DEF Alone, AskedFor, Busy
      <3>3. WishKept'
        BY <1>1, <1>3, <2>4, <3>1 DEF WishKept, OnTheWay, InForce, AskedFor, Busy
      <3>4. QED
        BY <1>4, <2>7, <3>2, <3>3
    <2>9. CASE ~Wished
      <3>1. \A t \in Threads : ~AskedFor(t) /\ ~AskedFor(t)'
        <4> SUFFICES ASSUME NEW t \in Threads PROVE ~AskedFor(t) /\ ~AskedFor(t)'
          OBVIOUS
        <4>1. ~AskedFor(t)
          BY <2>9 DEF Wished, AskedFor
        <4>2. CASE task'[t] = task[t]
          BY <4>1, <4>2 DEF AskedFor, Busy
        <4>3. CASE \E f \in Fields : task'[t] = Setter(f, seen[f], FALSE)
          <5>1. PICK f \in Fields : task'[t] = Setter(f, seen[f], FALSE)
            BY <4>3
          <5>2. ~task'[t].wished
            BY <5>1 DEF Setter
          <5>3. QED
            BY <4>1, <5>2 DEF AskedFor
        <4>4. QED
          BY <2>3, <4>1, <4>2, <4>3
      <3>2. Alone'
        BY <3>1 DEF Alone
      <3>3. WishKept'
        <4> SUFFICES ASSUME NEW f \in Fields, sure[f]
                     PROVE  (\A u \in Threads : OnTheWay(f, u)') /\ InForce(f)'
          BY <2>4 DEF WishKept
        <4>1. (\A u \in Threads : OnTheWay(f, u)) /\ InForce(f)
          BY <3>1 DEF WishKept
        <4>2. seen[f] = wish[f]
          BY <1>2, <4>1 DEF InForce
        <4>3. ASSUME NEW u \in Threads PROVE OnTheWay(f, u)'
          <5>1. CASE task'[u] = task[u]
            BY <1>1, <1>3, <4>1, <5>1 DEF OnTheWay, Busy
          <5>2. CASE \E g \in Fields : task'[u] = Setter(g, seen[g], FALSE)
            BY <1>1, <4>2, <5>2 DEF OnTheWay, Setter
          <5>3. QED
            BY <2>3, <5>1, <5>2
        <4>4. QED
          BY <1>1, <1>3, <4>1, <4>3 DEF InForce
      <3>4. QED
        BY <1>4, <2>7, <3>2, <3>3
    <2>10. CASE changed # {} /\ Wished
      <3>1. \A f \in Fields : ~sure'[f]
        BY <2>4, <2>10
      <3>2. QED
        BY <1>4, <2>7, <3>1 DEF Alone, WishKept
    <2>11. QED
      BY <2>8, <2>9, <2>10
  <1>7. QED
    BY <1>5, <1>6 DEF Show

-----------------------------------------------------------------------------
(* A setter that nothing disturbs carries the last wish until file and *)
(* entry say it (vetterd/src/autostart.rs). *)
THEOREM AutostartInvariant == AutostartSpec => []AutostartInv
  <1>1. AutostartInv /\ [AutostartNext]_autostartVars => AutostartInv'
    <2> SUFFICES ASSUME AutostartInv, [AutostartNext]_autostartVars PROVE AutostartInv'
      OBVIOUS
    <2>1. CASE UNCHANGED autostartVars
      BY <2>1 DEF autostartVars, AutostartInv, AutostartTypeOK, NothingWhenDown, Quiet, Busy,
                  Alone, AskedFor, WishKept, OnTheWay, InForce, Preference, IsEnabled
    <2>2. QED
      BY <2>1, LaunchInv, DownInv, ShowInv, AskedInv, LoadInv, StoreInv, ApplyInv, EditedInv
      DEF AutostartNext
  <1>2. QED
    BY InitSettings, <1>1, PTL DEF AutostartSpec

(* Once the setters are done, settings.yaml and the login entry say what   *)
(* was last asked for, however many setters, shows, restarts and failures  *)
(* there were (vetterd/src/autostart.rs, vetter-core/src/settings.rs);     *)
(* but for an entry that the desktop had switched off before a launch.     *)
THEOREM LastWishIsKept == AutostartSpec => []LastWishStands
  <1>1. AutostartInv => LastWishStands
    <2> SUFFICES ASSUME AutostartInv, running, Quiet, NEW f \in Fields, sure[f]
                 PROVE  Preference[f] = wish[f] /\ (f = "autostart" => IsEnabled = wish[f])
      BY DEF LastWishStands
    <2>1. \A t \in Threads : ~AskedFor(t)
      BY DEF Quiet, AskedFor
    <2>2. QED
      BY <2>1 DEF AutostartInv, WishKept, InForce
  <1>2. QED
    BY AutostartInvariant, <1>1, PTL
=============================================================================
