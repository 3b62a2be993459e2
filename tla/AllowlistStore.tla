--------------------------- MODULE AllowlistStore ---------------------------
(***************************************************************************)
(* The user allowlist: the YAML file on disk, the copy every connection    *)
(* worker matches against, and the threads and processes that rewrite both *)
(* (vetterd/src/suggestions.rs, vetter-core/src/matcher/{loader,decide}.rs,*)
(* vet/src/allow.rs).                                                      *)
(*                                                                         *)
(* A write is a read-modify-write of the file with no lock around it; a    *)
(* daemon thread then reloads the file and only after that takes the write *)
(* lock to replace the in-memory store.  Each of those is a step here.     *)
(*                                                                         *)
(* Covers says which requests the clauses of a rule match, and IdOf what   *)
(* its id is; rules that differ in duration alone can share one.           *)
(* The file is the sequence of its rules.  The denylist is constant.       *)
(***************************************************************************)
EXTENDS Lists

CONSTANTS
  Requests,   \* requests a rule can match
  Rules,      \* rules that can be added and removed
  NoRule,     \* no rule matched
  Session,    \* rules with expires_at or sid: the tier searched first
  Covers,     \* rule -> the requests all its clauses match
  IdOf,       \* rule -> its id
  Denied,     \* requests a denylist rule matches
  Writers,    \* daemon threads that write: the admin thread, window threads
  Clis        \* `vet allow add|rm` processes, which only touch the file

ASSUME StoreAssumption ==
  /\ NoRule \notin Rules
  /\ Rules # {}
  /\ Session \subseteq Rules
  /\ Covers \in [Rules -> SUBSET Requests]
  /\ DOMAIN IdOf = Rules
  /\ Denied \subseteq Requests
  /\ Writers \cap Clis = {}

VARIABLES
  disk,      \* the rules of allowlist.yaml, in file order
  live,      \* the rules of Context::allowlist, in file order
  expired,   \* rules whose expires_at has passed
  wpc,       \* what each writer does next
  wjob,      \* the add or remove it is performing, or performed last
  wbuf       \* the rule list it holds: to write, to install, or a snapshot

storeVars == <<disk, live, expired, wpc, wjob, wbuf>>

AllWriters == Writers \cup Clis

Jobs == [kind : {"add", "remove"}, rule : Rules]

Elems(s) == {s[i] : i \in DOMAIN s}

-----------------------------------------------------------------------------
(* decide: the denylist wins; else the first rule of the highest tier. *)
Matches(k, r) == k \notin expired /\ r \in Covers[k]

InTierOrder(s) == Kept(s, Session) \o Kept(s, Rules \ Session)

FirstMatch(s, r) ==
  LET hits == Kept(InTierOrder(s), {k \in Elems(s) : Matches(k, r)})
  IN  IF hits = <<>> THEN NoRule ELSE Head(hits)

Decide(s, r) ==
  IF r \in Denied THEN "deny"
  ELSE IF FirstMatch(s, r) = NoRule THEN "prompt" ELSE "allow"

(* prune_expired, then push, or remove by id. *)
Pruned(s) == Kept(s, Rules \ expired)

Edited(s, job) ==
  IF job.kind = "add" THEN Append(Pruned(s), job.rule)
  ELSE Kept(Pruned(s), {k \in Elems(s) : IdOf[k] # IdOf[job.rule]})

(* Fault: the file is edited without looking for the id. *)
AcceptsAlways(s, job) == TRUE

(* add_rule rejects an id that is already present, remove_rule an absent one. *)
Accepted(s, job) ==
  (job.kind = "remove") = (\E k \in Elems(Pruned(s)) : IdOf[k] = IdOf[job.rule])

-----------------------------------------------------------------------------
(* The daemon loads the file before anything else runs. *)
StoreInit ==
  /\ disk    = <<>>
  /\ live    = disk
  /\ expired = {}
  /\ wpc     = [w \in AllWriters |-> "idle"]
  /\ wjob    \in [AllWriters -> {[kind |-> "remove", rule |-> CHOOSE k \in Rules : TRUE]}]
  /\ wbuf    = [w \in AllWriters |-> <<>>]

AtRest(w) == wpc[w] \in {"idle", "failed"}

(* The list a writer holds goes out of scope, or is moved. *)
Drop(w) == wbuf' = [wbuf EXCEPT ![w] = <<>>]

(* Fault: the edit starts from the store in memory. *)
ReadStore(w, job) ==
  /\ AtRest(w)
  /\ Accepted(disk, job)
  /\ wjob' = [wjob EXCEPT ![w] = job]
  /\ wbuf' = [wbuf EXCEPT ![w] = Edited(live, job)]
  /\ wpc'  = [wpc EXCEPT ![w] = "write"]
  /\ UNCHANGED <<disk, live, expired>>

(* load_file and the edit of the loaded copy. *)
ReadFile(w, job) ==
  /\ AtRest(w)
  /\ Accepted(disk, job)
  /\ wjob' = [wjob EXCEPT ![w] = job]
  /\ wbuf' = [wbuf EXCEPT ![w] = Edited(disk, job)]
  /\ wpc'  = [wpc EXCEPT ![w] = "write"]
  /\ UNCHANGED <<disk, live, expired>>

(* Fault: a remove reports success without reloading. *)
WriteFileNoReload(w) ==
  /\ wpc[w] = "write"
  /\ disk' = wbuf[w]
  /\ wpc'  = [wpc EXCEPT ![w] = IF w \in Writers /\ wjob[w].kind = "add" THEN "load" ELSE "idle"]
  /\ Drop(w)
  /\ UNCHANGED <<live, expired, wjob>>

(* write_file: the rename replaces whatever is there now.  A CLI is done. *)
WriteFile(w) ==
  /\ wpc[w] = "write"
  /\ disk' = wbuf[w]
  /\ wpc'  = [wpc EXCEPT ![w] = IF w \in Writers THEN "load" ELSE "idle"]
  /\ Drop(w)
  /\ UNCHANGED <<live, expired, wjob>>

(* load_default, with no lock held. *)
LoadStore(w) ==
  /\ wpc[w] = "load"
  /\ wbuf' = [wbuf EXCEPT ![w] = disk]
  /\ wpc'  = [wpc EXCEPT ![w] = "install"]
  /\ UNCHANGED <<disk, live, expired, wjob>>

(* The write or the reload fails: the caller gets an error and what was    *)
(* already done stays done.                                                *)
FailStep(w) ==
  /\ wpc[w] \in {"write", "load"}
  /\ wpc' = [wpc EXCEPT ![w] = "failed"]
  /\ Drop(w)
  /\ UNCHANGED <<disk, live, expired, wjob>>

(* `*g = new_store` under the write lock.  A remove is done. *)
InstallStore(w) ==
  /\ wpc[w] = "install"
  /\ live' = wbuf[w]
  /\ wpc'  = [wpc EXCEPT ![w] = IF wjob[w].kind = "add" THEN "snapshot" ELSE "idle"]
  /\ Drop(w)
  /\ UNCHANGED <<disk, expired, wjob>>

(* An add clones the store for its sweep over the pending queue. *)
SnapshotStore(w) ==
  /\ wpc[w] = "snapshot"
  /\ wbuf' = [wbuf EXCEPT ![w] = live]
  /\ wpc'  = [wpc EXCEPT ![w] = "sweep"]
  /\ UNCHANGED <<disk, live, expired, wjob>>

(* The sweep is over and the add reports success. *)
FinishAdd(w) ==
  /\ wpc[w] = "sweep"
  /\ wpc' = [wpc EXCEPT ![w] = "idle"]
  /\ Drop(w)
  /\ UNCHANGED <<disk, live, expired, wjob>>

(* Fault: rules without expires_at expire too. *)
ExpireAny(k) ==
  /\ expired' = expired \cup {k}
  /\ UNCHANGED <<disk, live, wpc, wjob, wbuf>>

(* Wall-clock time passes a session rule's expires_at. *)
Expire(k) ==
  /\ k \in Session \ expired
  /\ expired' = expired \cup {k}
  /\ UNCHANGED <<disk, live, wpc, wjob, wbuf>>

(* Every step of a writer but the sweep over the pending queue. *)
WriterStep(w) ==
  \/ WriteFile(w)
  \/ LoadStore(w)
  \/ FailStep(w)
  \/ InstallStore(w)
  \/ SnapshotStore(w)

(* A step of the store while writers are asked for these jobs only. *)
StoreStep(jobs) ==
  \/ \E w \in AllWriters, job \in jobs : ReadFile(w, job)
  \/ \E w \in AllWriters : WriterStep(w)
  \/ \E w \in AllWriters : FinishAdd(w)
  \/ \E job \in jobs : Expire(job.rule)

StoreNext == StoreStep(Jobs)

StoreSpec == StoreInit /\ [][StoreNext]_storeVars

-----------------------------------------------------------------------------
StoreTypeOK ==
  /\ disk    \in Seq(Rules)
  /\ live    \in Seq(Rules)
  /\ expired \subseteq Session
  /\ wpc     \in [AllWriters -> {"idle", "failed", "write", "load", "install", "snapshot", "sweep"}]
  /\ wjob    \in [AllWriters -> Jobs]
  /\ wbuf    \in [AllWriters -> Seq(Rules)]

Distinct(s) == \A i, j \in DOMAIN s : IdOf[s[i]] = IdOf[s[j]] => i = j

(* enforce_unique_ids protects every file the writers produce: neither the *)
(* file nor the store ever holds an id twice, whichever writers overlap,   *)
(* so a file one writer leaves can always be loaded by the next.           *)
RulesUnique == Distinct(disk) /\ Distinct(live)

(* Once every daemon writer has reported success, workers match against    *)
(* exactly what the file says.  A reload that failed is an error to its    *)
(* caller, and the next successful write repairs it.                       *)
StoreFresh == (\A w \in AllWriters : wpc[w] = "idle") => live = disk

(* Rewriting the file adds or removes the rule the writer was asked about  *)
(* (and drops expired ones), and loses no other rule.                      *)
OnlyItsRule ==
  \A k \in Rules :
    (k \in Elems(disk)) # (k \in Elems(disk')) =>
      \/ k \in expired
      \/ \E w \in AllWriters :
           /\ wpc[w] = "write" /\ wpc'[w] # "write"
           /\ IdOf[wjob[w].rule] = IdOf[k]
=============================================================================
