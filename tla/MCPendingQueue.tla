--------------------------- MODULE MCPendingQueue ---------------------------
(* Small instances of the queue, alone or with the macOS surfaces on it,   *)
(* one of the two in each behaviour.  Alone: three requests, two of which  *)
(* carry the same id (the defensive duplicate-id path), one past row, a    *)
(* ring of two.  With surfaces: two requests for a human under ids of      *)
(* their own, the third one ruled by the store, one picker.                *)
EXTENDS Popover, TLC

CONSTANTS r1, r2, r3, p1, i1, i2

MCRequests == {r1, r2, r3}
MCPast == {p1}
MCIds == {i1, i2}
MCIdOf == (r1 :> i1) @@ (r2 :> i1) @@ (r3 :> i2)

(* Who does what: one session per question, so that each stays small. *)
Session(prompted, ruled, buttons, most, doing) ==
  [prompted |-> prompted, ruled |-> ruled, buttons |-> buttons, gestures |-> most,
   warm |-> "warm" \in doing, elsewhere |-> "elsewhere" \in doing,
   banners |-> "banners" \in doing, quits |-> "quits" \in doing]

MCSessions ==
  {Session({r1, r3}, {}, {"approve", "reject"}, 1, {}),
   Session({r1, r3}, {}, {}, 1, {"banners", "elsewhere"}),
   Session({r1}, {r2, r3}, {"allowlist", "trust", "revoke"}, 1, {}),
   Session({r1}, {r2}, {"reject", "allowlist"}, 2, {}),
   Session({r1}, {r2}, {"approve", "allowlist", "revoke"}, 1, {"warm", "banners"}),
   Session({r1}, {r2}, {"reject", "revoke"}, 1, {"quits", "elsewhere"})}

VARIABLE part

Init ==
  /\ part \in {"queue", "popover"}
  /\ QueueInit
  /\ PopoverInit
  /\ part = "queue" => session = CHOOSE s \in Sessions : TRUE

Next ==
  /\ UNCHANGED part
  /\ \/ part = "queue"   /\ QueueNext /\ UNCHANGED popoverVars
     \/ part = "popover" /\ PopoverNext

Spec == Init /\ [][Next]_<<part, queueVars, popoverVars>>
=============================================================================
