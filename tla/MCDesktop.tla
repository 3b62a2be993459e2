----------------------------- MODULE MCDesktop -----------------------------
(***************************************************************************)
(* Small instance of Desktop: two requests, in the order of their names,   *)
(* and the kinds of Linux session there are.                               *)
(***************************************************************************)
EXTENDS Desktop, TLC

CONSTANTS r1, r2

MCRequests == {r1, r2}
MCIdOf == [r \in MCRequests |-> r]
MCRank == (r1 :> 1) @@ (r2 :> 2)

Both == {r1, r2}

Bare ==
  [server |-> FALSE, up |-> {FALSE}, moves |-> 0, gestures |-> {}, tray |-> FALSE,
   display |-> FALSE, live |-> Both, asks |-> 0, sections |-> {}, quits |-> FALSE]

(* A notification server, and what can be done on its banners. *)
Served(gestures) ==
  [Bare EXCEPT !.server = TRUE, !.up = {TRUE}, !.gestures = gestures]

MCSetups ==
  {(* banners and their user *)
   Served({"approve", "dismiss"}),
   (* banners of a server that is late, and may leave again *)
   [Served({"approve"}) EXCEPT !.up = {FALSE}, !.moves = 2, !.live = {r1}],
   (* banners, and a server that is replaced *)
   [Served({}) EXCEPT !.moves = 2],
   (* banners that open a picker in the window, one request *)
   [Served({"approve", "trust_host", "touch", "dismiss"}) EXCEPT !.display = TRUE, !.live = {r1}],
   (* banners that are touched and left alone *)
   Served({"touch"}),
   (* a tray alone; a window with its sections; `vet daemon open`, again *)
   [Bare EXCEPT !.tray = TRUE],
   [Bare EXCEPT !.display = TRUE, !.live = {r1}, !.sections = {"raw"}, !.asks = 1],
   [Bare EXCEPT !.display = TRUE, !.live = {r1}, !.asks = MaxAsks],
   (* the end of a session, with a tray and a server or a window *)
   [Served({}) EXCEPT !.tray = TRUE, !.live = {r1}, !.quits = TRUE],
   [Bare EXCEPT !.display = TRUE, !.tray = TRUE, !.live = {r1}, !.quits = TRUE]}
=============================================================================
