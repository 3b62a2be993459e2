------------------------------ MODULE AuditLog ------------------------------
(***************************************************************************)
(* The append-only audit log of vetterd (vetterd/src/audit.rs) and the     *)
(* tail of it that the daemon reads at start-up to refill its history.     *)
(*                                                                         *)
(* The file is a sequence of pieces, each what one `append` left behind:   *)
(* a JSON row and its newline, or a prefix of that when the disk filled up *)
(* or the machine died.  A row counts as bytes only as far as the tail's   *)
(* read window needs it.  Rows are opaque; Ui says which of them carry the *)
(* rendered card that makes the tail keep them.                            *)
(***************************************************************************)
EXTENDS Lists

CONSTANTS
  AuditRows,    \* rows the workers can append
  Ui(_),        \* the row has a rendered card (every row but parse failures)
  SizeOf(_),    \* bytes of the row, its newline included
  WindowStart   \* TAIL_WINDOW_START: bytes the tail reads first

ASSUME AuditAssumption ==
  /\ \A row \in AuditRows : Ui(row) \in BOOLEAN /\ SizeOf(row) \in Nat \ {0, 1}
  /\ WindowStart \in Nat \ {0}

VARIABLES
  log,      \* the pieces of the file, oldest first
  synced,   \* how many of them sync_data has made durable
  tried,    \* rows given to append
  acked     \* rows whose append returned Ok

auditVars == <<log, synced, tried, acked>>

Piece(row, n) == [row |-> row, bytes |-> n]
Pieces == {p \in [row : AuditRows, bytes : Nat \ {0}] : p.bytes <= SizeOf(p.row)}

Whole(p) == p.bytes = SizeOf(p.row)

AuditInit ==
  /\ log    = <<>>
  /\ synced = 0
  /\ tried  = {}
  /\ acked  = {}

(* Fault: no sync_data. *)
AppendNoSync(row) ==
  /\ log'   = Append(log, Piece(row, SizeOf(row)))
  /\ tried' = tried \cup {row}
  /\ acked' = acked \cup {row}
  /\ UNCHANGED synced

(* Fault: the file is opened for writing from its start, not for append. *)
AppendOverwrites(row) ==
  /\ log'    = <<Piece(row, SizeOf(row))>>
  /\ synced' = Len(log')
  /\ tried'  = tried \cup {row}
  /\ acked'  = acked \cup {row}

(* append: write the line, then sync_data, all under the file mutex. *)
AppendOk(row) ==
  /\ log'    = Append(log, Piece(row, SizeOf(row)))
  /\ synced' = Len(log')
  /\ tried'  = tried \cup {row}
  /\ acked'  = acked \cup {row}

(* append fails: after n bytes of the line, n = 0 and all of them (then it *)
(* is the sync that failed) included.  The caller logs it and goes on.     *)
AppendFails(row, n) ==
  /\ n \in 0 .. SizeOf(row)
  /\ log'   = IF n = 0 THEN log ELSE Append(log, Piece(row, n))
  /\ tried' = tried \cup {row}
  /\ UNCHANGED <<synced, acked>>

(* The machine dies: anything not yet synced may be gone or cut short.     *)
(* `open` appends to what is left without looking at it.                   *)
PowerLoss ==
  \E kept \in synced .. Len(log) :
    \E cut \in {<<>>} \cup
               (IF kept = Len(log) THEN {}
                ELSE {<<Piece(log[kept + 1].row, n)>> : n \in 1 .. log[kept + 1].bytes}) :
      /\ log'    = SubSeq(log, 1, kept) \o cut
      /\ synced' = Len(log')
      /\ UNCHANGED <<tried, acked>>

AuditNext ==
  \/ \E row \in AuditRows \ tried :
       AppendOk(row) \/ \E n \in 0 .. SizeOf(row) : AppendFails(row, n)
  \/ PowerLoss

AuditSpec == AuditInit /\ [][AuditNext]_auditVars

-----------------------------------------------------------------------------
(* Reading it back.  A line is what lies between two newlines, so a piece  *)
(* that follows a torn one is glued to it and the line does not parse.  A  *)
(* last row that lacks only its newline still parses.                      *)
Parses(i) ==
  /\ i = 1 \/ Whole(log[i - 1])
  /\ \/ Whole(log[i])
     \/ i = Len(log) /\ log[i].bytes = SizeOf(log[i].row) - 1

EndOf[i \in 0 .. Len(log)] == IF i = 0 THEN 0 ELSE EndOf[i - 1] + log[i].bytes
FileSize == EndOf[Len(log)]

(* The first line the tail looks at when it starts to read at pos: every   *)
(* line for pos = 0, else those that follow the first newline from pos on. *)
FirstPiece(pos) ==
  LET broken == {i \in DOMAIN log : Whole(log[i]) /\ EndOf[i] > pos}
  IN  IF pos = 0 THEN 1
      ELSE IF broken = {} THEN Len(log) + 1
      ELSE 1 + (CHOOSE i \in broken : \A j \in broken : i <= j)

RowsFrom(first) ==
  LET kept == Kept([k \in 1 .. Len(log) |-> k],
                   {i \in first .. Len(log) : Parses(i) /\ Ui(log[i].row)})
  IN  [k \in DOMAIN kept |-> log[kept[k]].row]

(* The newest cap rows of a list that is oldest first, newest first. *)
NewestFirst(rows, cap) ==
  LET n == IF Len(rows) < cap THEN Len(rows) ELSE cap
  IN  [k \in 1 .. n |-> rows[Len(rows) + 1 - k]]

(* Fault: the window is never doubled. *)
TailOneWindow(cap) ==
  LET pos == IF WindowStart < FileSize THEN FileSize - WindowStart ELSE 0
  IN  NewestFirst(RowsFrom(FirstPiece(pos)), cap)

(* tail_resolved_entries: read a window at the end of the file; double it  *)
(* until it holds cap rows or is the whole file.                           *)
TailResolved(cap) ==
  LET WithWindow[w \in Nat] ==
        LET pos  == IF w < FileSize THEN FileSize - w ELSE 0
            rows == RowsFrom(FirstPiece(pos))
        IN  IF Len(rows) >= cap \/ pos = 0
            THEN NewestFirst(rows, cap)
            ELSE WithWindow[2 * w]
  IN  IF cap = 0 \/ FileSize = 0 THEN <<>> ELSE WithWindow[WindowStart]

-----------------------------------------------------------------------------
AuditTypeOK ==
  /\ log    \in Seq(Pieces)
  /\ synced \in 0 .. Len(log)
  /\ tried  \subseteq AuditRows
  /\ acked  \subseteq tried

(* An append that reported Ok is durable: its whole row is in the file,    *)
(* whatever other appends tear and however often the machine dies.         *)
AckedRowsSurvive ==
  \A row \in acked : \E i \in DOMAIN log : log[i] = Piece(row, SizeOf(row))

(* Doubling the window never skips, repeats or reorders: the tail is the   *)
(* newest readable card rows of the whole file, also when the window cuts  *)
(* a line in two or starts inside a torn one.                              *)
TailIsNewest ==
  \A cap \in 0 .. Len(log) + 1 :
    TailResolved(cap) = NewestFirst(RowsFrom(1), cap)

(* What has been synced is never rewritten. *)
SyncedPrefixKept ==
  [][/\ synced <= synced'
     /\ SubSeq(log', 1, synced) = SubSeq(log, 1, synced)]_auditVars

(* "the log entry is durable" read as the operator reads it: a row whose   *)
(* append reported Ok can be read back.                                    *)
AckedRowsReadable ==
  \A row \in acked : \E i \in DOMAIN log : log[i].row = row /\ Parses(i)
=============================================================================
