----------------------------- MODULE Autostart ------------------------------
(***************************************************************************)
(* The two preferences of ~/.vet/settings.yaml, `autostart` and            *)
(* `notification_sound`, and the login entry that `autostart` stands for   *)
(* (vetter-core/src/settings.rs, vetterd/src/autostart.rs).                *)
(*                                                                         *)
(* A setter reads the whole file, changes one field, renames a new file    *)
(* over the old one and then writes or removes the entry; nothing locks    *)
(* the file.  Setters are the admin thread (`vet daemon autostart`), one   *)
(* short thread per toggled checkbox of the Linux window, and the main     *)
(* thread of the macOS popover.  Showing the Linux window sets the two     *)
(* checkboxes from what it reads, and a checkbox that changes fires        *)
(* `toggled`: a show may start setters nobody asked for.  The desktop may  *)
(* switch the entry off, and an editor may rewrite either file.            *)
(***************************************************************************)
EXTENDS Naturals, FiniteSets

CONSTANTS
  MaxMoves,   \* toggles, shows and outside edits of a behaviour
  Broken      \* a settings.yaml that does not parse

ASSUME AutostartAssumption ==
  MaxMoves \in Nat /\ Broken \notin [{"autostart", "sound"} -> BOOLEAN]

VARIABLES
  platform,   \* "linux" or "mac"
  file,       \* settings.yaml: its two fields, or Broken
  entry,      \* the XDG entry, or the status SMAppService reports
  running,    \* a daemon is up
  box,        \* the two checkboxes
  task,       \* the setter of each thread that has one
  wish,       \* what was last asked for: the file as launched, then toggles
  sure,       \* ... in circumstances where it ought to be in force
  moves

autostartVars == <<platform, file, entry, running, box, task, wish, sure, moves>>

Fields   == {"autostart", "sound"}
Settings == [Fields -> BOOLEAN]
Default  == [f \in Fields |-> f = "sound"]

Preference == IF file = Broken THEN Default ELSE file

(* current, current_at: an entry the desktop switched off counts as not    *)
(* registered; one whose program is gone is there but not enabled; macOS   *)
(* counts an entry that waits for the user's approval as enabled.          *)
EntryStates == IF platform = "linux" THEN {"absent", "enabled", "hidden", "gone"}
                                     ELSE {"absent", "enabled", "requires_approval"}
IsEnabled == entry \in {"enabled", "requires_approval"}

Threads == {"admin", "w1", "w2"}
NoTask  ==
  [pc |-> "none", field |-> "sound", want |-> FALSE, wished |-> FALSE, copy |-> Default]
Setter(field, want, wished) ==
  [pc |-> "load", field |-> field, want |-> want, wished |-> wished, copy |-> Default]

Busy(t)  == task[t].pc # "none"
Quiet    == \A t \in Threads : ~Busy(t)
Wished   == \E t \in Threads : Busy(t) /\ task[t].wished

(* The threads the window may start setters on; AppKit has its main one.   *)
WindowThreads == IF platform = "linux" THEN {"w1", "w2"} ELSE {"w1"}

Move == moves < MaxMoves /\ moves' = moves + 1

AutostartInit ==
  /\ platform \in {"linux", "mac"}
  /\ file     \in Settings \cup {Broken}
  /\ entry    \in EntryStates
  /\ running  = FALSE
  /\ box      = [f \in Fields |-> FALSE]
  /\ task     = [t \in Threads |-> NoTask]
  /\ wish     = Default
  /\ sure     = [f \in Fields |-> FALSE]
  /\ moves    = 0

(* enable writes an entry for this executable over any other, or registers *)
(* the bundle; disable removes it and does not mind that there is none.    *)
Applied(want) ==
  IF ~want THEN {"absent"}
  ELSE IF platform = "linux" THEN {"enabled"} ELSE {"enabled", "requires_approval"}

(* reconcile_with_settings: enable or disable when the two disagree. *)
Reconcile(desired) ==
  IF desired = IsEnabled THEN UNCHANGED entry ELSE entry' \in Applied(desired)

(* run: load the settings (defaults when they do not parse) and reconcile; *)
(* an entry that cannot be written is logged.  Then the window is built,   *)
(* its boxes unticked; the macOS popover ticks the sound's.  When the      *)
(* desktop has switched the entry off and the file still asks for it, the  *)
(* two wishes disagree and neither is counted on.                          *)
Launch ==
  /\ ~running
  /\ running' = TRUE
  /\ wish' = Preference
  /\ \/ /\ Reconcile(Preference["autostart"])
        /\ sure' = [f \in Fields |-> f = "autostart" /\ entry = "hidden" => ~Preference[f]]
     \/ /\ Preference["autostart"] # IsEnabled
        /\ UNCHANGED entry
        /\ sure' = [f \in Fields |-> f = "sound"]
  /\ box' = [f \in Fields |-> platform = "mac" /\ f = "sound"]
  /\ UNCHANGED <<platform, file, task, moves>>

(* The process ends, by a quit or a kill: its threads end where they are.  *)
Down ==
  /\ running
  /\ running' = FALSE
  /\ task'    = [t \in Threads |-> NoTask]
  /\ sure'    = [f \in Fields |-> FALSE]
  /\ UNCHANGED <<platform, file, entry, box, wish, moves>>

(* The user asks for want, and thread t sets out to bring it about.  Two   *)
(* setters at work on one file may undo each other.                        *)
Ask(t, field, want) ==
  /\ running
  /\ ~Busy(t)
  /\ task' = [task EXCEPT ![t] = Setter(field, want, TRUE)]
  /\ wish' = [wish EXCEPT ![field] = want]
  /\ sure' = IF Quiet THEN [sure EXCEPT ![field] = TRUE] ELSE [f \in Fields |-> FALSE]

(* `vet daemon autostart enable | disable`. *)
SetAutostart(want) ==
  /\ Move
  /\ Ask("admin", "autostart", want)
  /\ UNCHANGED <<platform, file, entry, running, box>>

(* A click on a checkbox. *)
Toggle(field) ==
  /\ Move
  /\ \E t \in WindowThreads : Ask(t, field, ~box[field])
  /\ box' = [box EXCEPT ![field] = ~@]
  /\ UNCHANGED <<platform, file, entry, running>>

(* sync_sound_checkbox, sync_autostart_checkbox when the window is built   *)
(* or raised; refresh_*_checkbox when the popover opens.  A GTK box that   *)
(* changes starts a setter for what it now shows, which no one wished.     *)
Show ==
  /\ running
  /\ Move
  /\ LET seen    == [f \in Fields |-> IF f = "autostart" THEN IsEnabled ELSE Preference[f]]
         changed == {f \in Fields : box[f] # seen[f]}
     IN  /\ box' = seen
         /\ IF platform = "mac" THEN ~Busy("w1") /\ UNCHANGED <<task, sure>>
            ELSE /\ \E start \in [changed -> {t \in WindowThreads : ~Busy(t)}] :
                      /\ \A f, g \in changed : f # g => start[f] # start[g]
                      /\ task' = [t \in Threads |->
                           IF \E f \in changed : start[f] = t
                           THEN LET f == CHOOSE f \in changed : start[f] = t
                                IN  Setter(f, seen[f], FALSE)
                           ELSE task[t]]
                 /\ sure' = [f \in Fields |-> sure[f] /\ (changed = {} \/ ~Wished)]
  /\ UNCHANGED <<platform, file, entry, running, wish>>

-----------------------------------------------------------------------------
(* The steps of a setter. *)
Done(t)      == task' = [task EXCEPT ![t] = NoTask]
Unsure(t)    == sure' = [sure EXCEPT ![task[t].field] = FALSE]
InPopover(t) == platform = "mac" /\ t # "admin"

(* A popover whose setter failed shows what the system has. *)
RollBack(t) ==
  box' = IF ~InPopover(t) THEN box
         ELSE [box EXCEPT ![task[t].field] =
                IF task[t].field = "autostart" THEN IsEnabled ELSE Preference["sound"]]

After(t) == IF task[t].field = "autostart"
            THEN [task[t] EXCEPT !.pc = "apply", !.copy = Default] ELSE NoTask

(* Fault: a preference that is already in the file is not applied either.  *)
LoadEqualIsDone(t) ==
  /\ task[t].pc = "load" /\ file # Broken
  /\ task' = [task EXCEPT ![t] =
       IF file[@.field] = @.want THEN NoTask
       ELSE [@ EXCEPT !.pc = "store", !.copy = file]]
  /\ UNCHANGED <<platform, file, entry, running, box, wish, sure, moves>>

(* load: a file that does not parse ends the setter, but for the popover,  *)
(* which starts from the defaults.  A field that already has the value is  *)
(* not written; the popover always writes the sound.                       *)
Load(t) ==
  /\ task[t].pc = "load"
  /\ LET field == task[t].field
         write == Preference[field] # task[t].want \/ (InPopover(t) /\ field = "sound")
     IN  IF file = Broken /\ ~InPopover(t)
         THEN Done(t) /\ Unsure(t)
         ELSE /\ task' = [task EXCEPT ![t] =
                   IF write THEN [@ EXCEPT !.pc = "store", !.copy = Preference]
                   ELSE After(t)]
              /\ UNCHANGED sure
  /\ UNCHANGED <<platform, file, entry, running, box, wish, moves>>

(* store, write_to: a temporary file renamed over the old one, or an error *)
(* that leaves the old one and ends the setter.                            *)
Store(t) ==
  /\ task[t].pc = "store"
  /\ \/ /\ file' = [task[t].copy EXCEPT ![task[t].field] = task[t].want]
        /\ task' = [task EXCEPT ![t] = After(t)]
        /\ UNCHANGED <<box, sure>>
     \/ /\ UNCHANGED file
        /\ Done(t) /\ Unsure(t) /\ RollBack(t)
  /\ UNCHANGED <<platform, entry, running, wish, moves>>

(* enable or disable; it may fail, and then the file keeps the preference. *)
Apply(t) ==
  /\ task[t].pc = "apply"
  /\ Done(t)
  /\ \/ /\ entry' \in Applied(task[t].want)
        /\ box' = IF InPopover(t) THEN [box EXCEPT !["autostart"] = task[t].want] ELSE box
        /\ UNCHANGED sure
     \/ /\ UNCHANGED entry
        /\ Unsure(t) /\ RollBack(t)
  /\ UNCHANGED <<platform, file, running, wish, moves>>

-----------------------------------------------------------------------------
(* Someone else: the desktop's own autostart settings, an upgrade that     *)
(* moves the program, an editor.                                           *)
EntryEdited ==
  /\ Move
  /\ entry' \in EntryStates \ {entry}
  /\ sure'  = [sure EXCEPT !["autostart"] = FALSE]
  /\ UNCHANGED <<platform, file, running, box, task, wish>>

FileEdited ==
  /\ Move
  /\ file' \in (Settings \cup {Broken}) \ {file}
  /\ sure' = [f \in Fields |-> FALSE]
  /\ UNCHANGED <<platform, entry, running, box, task, wish>>

AutostartNext ==
  \/ Launch \/ Down \/ Show
  \/ \E want \in BOOLEAN : SetAutostart(want)
  \/ \E field \in Fields : Toggle(field)
  \/ \E t \in Threads : Load(t) \/ Store(t) \/ Apply(t)
  \/ EntryEdited \/ FileEdited

AutostartSpec == AutostartInit /\ [][AutostartNext]_autostartVars

-----------------------------------------------------------------------------
(* Once the setters are done, what was last asked for (or was in the file  *)
(* at launch) is what the file says, and the login entry says the same:    *)
(* through restarts, switched-off entries, failures of earlier setters and *)
(* any number of shows of the window.  Not so, until it is asked for       *)
(* again, after an outside edit, a launch that finds the entry switched    *)
(* off, a failure of the asking setter itself, or two setters at work at   *)
(* once (`sure` is then FALSE).                                            *)
LastWishStands ==
  (running /\ Quiet) =>
    \A f \in Fields : sure[f] =>
      /\ Preference[f] = wish[f]
      /\ f = "autostart" => IsEnabled = wish[f]
=============================================================================
