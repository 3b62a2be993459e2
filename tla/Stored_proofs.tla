---------------------------- MODULE Stored_proofs -----------------------------
(***************************************************************************)
(* What vetterd keeps on disk: the user allowlist, for every set of rules, *)
(* requests, writers and ids, and the audit log, for every set of rows and *)
(* every length of file.                                                   *)
(*                                                                         *)
(* RulesUnique is not inductive alone: a writer overwrites the file with   *)
(* the list in its hand, whatever became of the file meanwhile, so that    *)
(* list must hold no id twice either (HeldUnique).                         *)
(*                                                                         *)
(* That serial writes keep the store fresh and lose no rule needs what a   *)
(* writer has in hand: an edit of the file as it still is (EditsFile), and *)
(* later the file itself (HoldsFile); and that the store is behind the     *)
(* file only while some daemon writer has yet to repair it (FreshOrOwed).  *)
(*                                                                         *)
(* That an acknowledged row survives is not inductive either.  One that    *)
(* was written and acknowledged but sat beyond the synced prefix would go  *)
(* with the next loss of power; so the invariant puts every acknowledged   *)
(* row inside that prefix (AckedRowsSynced), which only grows.             *)
(***************************************************************************)
EXTENDS SerialStore, AuditLog, Lists_proofs

(* The user allowlist. *)
HeldUnique == \A w \in AllWriters : Distinct(wbuf[w])

StoreInv == StoreTypeOK /\ RulesUnique /\ HeldUnique

-----------------------------------------------------------------------------
(* Filtering a list keeps the elements asked for, and no others.           *)
LEMMA KeptElems ==
  ASSUME NEW T, NEW s \in Seq(T), NEW K
  PROVE  Kept(s, K) \in Seq(T) /\ Elems(Kept(s, K)) = Elems(s) \cap K
  <1> DEFINE t == Kept(s, K)
  <1>1. t \in Seq(T)
    BY KeptPicks
  <1>2. PICK h : Picks(h, s, t, K)
    BY KeptPicks
  <1> HIDE DEF t
  <1>3. DOMAIN s = 1 .. Len(s) /\ DOMAIN t = 1 .. Len(t)
    BY <1>1
  <1>4. Elems(t) \subseteq Elems(s) \cap K
    BY <1>2, <1>3 DEF Picks, Elems
  <1>5. Elems(s) \cap K \subseteq Elems(t)
    <2>1. SUFFICES ASSUME NEW k \in 1 .. Len(s), s[k] \in K PROVE s[k] \in Elems(t)
      BY <1>3 DEF Elems
    <2>2. PICK i \in 1 .. Len(t) : h[i] = k
      BY <1>2, <2>1 DEF Picks
    <2>3. t[i] = s[k]
      BY <1>2, <2>2 DEF Picks
    <2>4. QED
      BY <1>3, <2>3 DEF Elems
  <1>6. QED
    BY <1>1, <1>4, <1>5 DEF t

(* Filtering makes no duplicates. *)
LEMMA KeptDistinct ==
  ASSUME NEW s \in Seq(Rules), NEW K, Distinct(s)
  PROVE  Distinct(Kept(s, K))
  <1> DEFINE t == Kept(s, K)
  <1>1. t \in Seq(Rules)
    BY KeptPicks
  <1>2. PICK h : Picks(h, s, t, K)
    BY KeptPicks
  <1> HIDE DEF t
  <1>3. DOMAIN s = 1 .. Len(s) /\ DOMAIN t = 1 .. Len(t)
    BY <1>1
  <1>4. ASSUME NEW i \in 1 .. Len(t), NEW j \in 1 .. Len(t), IdOf[t[i]] = IdOf[t[j]]
        PROVE  i = j
    <2>1. t[i] = s[h[i]] /\ t[j] = s[h[j]] /\ h[i] \in 1 .. Len(s) /\ h[j] \in 1 .. Len(s)
      BY <1>2 DEF Picks
    <2>2. h[i] = h[j]
      BY <1>3, <1>4, <2>1 DEF Distinct
    <2>3. (i < j => h[i] < h[j]) /\ (j < i => h[j] < h[i])
      BY <1>2 DEF Picks
    <2>4. QED
      BY <2>1, <2>2, <2>3
  <1>5. QED
    BY <1>3, <1>4 DEF Distinct, t

(* What is left of a list once the expired rules are dropped. *)
LEMMA PrunedFacts ==
  ASSUME NEW s \in Seq(Rules)
  PROVE  /\ Pruned(s) \in Seq(Rules)
         /\ Elems(Pruned(s)) = Elems(s) \ expired
         /\ Distinct(s) => Distinct(Pruned(s))
  <1>1. Pruned(s) = Kept(s, Rules \ expired)
    BY DEF Pruned
  <1>2. Elems(s) \subseteq Rules
    BY DEF Elems
  <1>3. QED
    BY <1>1, <1>2, KeptElems, KeptDistinct

(* An accepted edit of a list without duplicates leaves one without        *)
(* duplicates, and changes the rule of the job and expired ones only.      *)
LEMMA EditedFacts ==
  ASSUME NEW s \in Seq(Rules), NEW job \in Jobs
  PROVE  /\ Edited(s, job) \in Seq(Rules)
         /\ Distinct(s) /\ Accepted(s, job) => Distinct(Edited(s, job))
         /\ \A k \in Rules : (k \in Elems(s)) # (k \in Elems(Edited(s, job))) =>
              k \in expired \/ IdOf[job.rule] = IdOf[k]
  <1> DEFINE u == Pruned(s)
  <1>1. /\ u \in Seq(Rules)
        /\ Elems(u) = Elems(s) \ expired
        /\ Distinct(s) => Distinct(u)
    BY PrunedFacts
  <1>2. job.rule \in Rules /\ job.kind \in {"add", "remove"}
    BY DEF Jobs
  <1> HIDE DEF u
  <1>3. CASE job.kind = "add"
    <2> DEFINE t == Append(u, job.rule)
    <2>1. Edited(s, job) = t
      BY <1>3 DEF Edited, u
    <2>2. /\ t \in Seq(Rules) /\ Len(t) = Len(u) + 1 /\ t[Len(u) + 1] = job.rule
          /\ \A i \in 1 .. Len(u) : t[i] = u[i]
          /\ DOMAIN t = 1 .. Len(u) + 1 /\ DOMAIN u = 1 .. Len(u) /\ Len(u) \in Nat
      BY <1>1, <1>2
    <2> HIDE DEF t
    <2>3. Elems(t) = Elems(u) \cup {job.rule}
      <3>1. Elems(t) \subseteq Elems(u) \cup {job.rule}
        BY <2>2 DEF Elems
      <3>2. \A i \in DOMAIN u : u[i] \in Elems(t)
        BY <2>2 DEF Elems
      <3>3. job.rule \in Elems(t)
        <4>1. Len(u) + 1 \in DOMAIN t
          BY <2>2
        <4>2. QED
          BY <2>2, <4>1 DEF Elems
      <3>4. QED
        BY <3>1, <3>2, <3>3 DEF Elems
    <2>4. ASSUME Distinct(s), Accepted(s, job) PROVE Distinct(t)
      <3>1. \A i \in 1 .. Len(u) : IdOf[u[i]] # IdOf[job.rule]
        BY <1>3, <2>2, <2>4 DEF Accepted, Elems, u
      <3>2. \A i, j \in 1 .. Len(u) : IdOf[u[i]] = IdOf[u[j]] => i = j
        BY <1>1, <2>2, <2>4 DEF Distinct
      <3>3. \A i \in 1 .. Len(u) + 1 : i \in 1 .. Len(u) \/ i = Len(u) + 1
        BY <2>2
      <3>4. QED
        BY <2>2, <3>1, <3>2, <3>3 DEF Distinct
    <2>5. QED
      BY <1>1, <2>1, <2>2, <2>3, <2>4
  <1>4. CASE job.kind = "remove"
    <2> DEFINE K == {k \in Elems(s) : IdOf[k] # IdOf[job.rule]}
    <2>1. Edited(s, job) = Kept(u, K)
      BY <1>4 DEF Edited, u
    <2>2. Kept(u, K) \in Seq(Rules) /\ Elems(Kept(u, K)) = Elems(u) \cap K
      BY <1>1, KeptElems
    <2>3. Distinct(s) => Distinct(Kept(u, K))
      BY <1>1, KeptDistinct
    <2>4. QED
      BY <1>1, <2>1, <2>2, <2>3
  <1>5. QED
    BY <1>2, <1>3, <1>4

-----------------------------------------------------------------------------
(* The daemon starts with nothing in hand. *)
LEMMA StoreInitInv == StoreInit => StoreInv
  <1> SUFFICES ASSUME StoreInit PROVE StoreInv
    OBVIOUS
  <1>1. (CHOOSE k \in Rules : TRUE) \in Rules
    BY StoreAssumption
  <1>2. wjob \in [AllWriters -> Jobs]
    BY <1>1 DEF StoreInit, Jobs
  <1>3. disk = <<>> /\ live = <<>> /\ expired = {}
        /\ wpc = [w \in AllWriters |-> "idle"] /\ wbuf = [w \in AllWriters |-> <<>>]
    BY DEF StoreInit
  <1>4. Distinct(<<>>) /\ <<>> \in Seq(Rules)
    BY DEF Distinct
  <1>5. StoreTypeOK
    BY <1>2, <1>3, <1>4 DEF StoreTypeOK
  <1>6. QED
    BY <1>3, <1>4, <1>5 DEF StoreInv, RulesUnique, HeldUnique

(* A list in hand is a list of rules without duplicates. *)
LEMMA HoldInv ==
  ASSUME StoreInv, NEW w \in AllWriters, NEW list \in Seq(Rules), Distinct(list),
         wbuf' = [wbuf EXCEPT ![w] = list]
  PROVE  wbuf' \in [AllWriters -> Seq(Rules)] /\ HeldUnique'
  BY DEF StoreInv, StoreTypeOK, HeldUnique

(* A writer that is done lets go of its job and its copy. *)
LEMMA DropInv ==
  ASSUME StoreInv, NEW w \in AllWriters, Drop(w)
  PROVE  wbuf' \in [AllWriters -> Seq(Rules)] /\ HeldUnique'
  <1>1. <<>> \in Seq(Rules) /\ Distinct(<<>>)
    BY DEF Distinct
  <1>2. QED
    BY <1>1, HoldInv DEF Drop

(* A load and an edit of what was loaded. *)
LEMMA ReadFileInv ==
  ASSUME StoreInv, NEW w \in AllWriters, NEW job \in Jobs, ReadFile(w, job)
  PROVE  StoreInv'
  <1>1. Edited(disk, job) \in Seq(Rules) /\ Distinct(Edited(disk, job))
    BY EditedFacts DEF StoreInv, StoreTypeOK, RulesUnique, ReadFile
  <1>2. wbuf' = [wbuf EXCEPT ![w] = Edited(disk, job)]
    BY DEF ReadFile
  <1>3. wbuf' \in [AllWriters -> Seq(Rules)] /\ HeldUnique'
    BY <1>1, <1>2, HoldInv
  <1>4. QED
    BY <1>3 DEF ReadFile, StoreInv, StoreTypeOK, RulesUnique

(* The other steps of a writer. *)
LEMMA WriterInv ==
  ASSUME StoreInv, NEW w \in AllWriters, WriterStep(w) \/ FinishAdd(w)
  PROVE  StoreInv'
  <1>1. wbuf[w] \in Seq(Rules) /\ Distinct(wbuf[w])
    BY DEF StoreInv, StoreTypeOK, HeldUnique
  <1>2. wpc \in [AllWriters -> {"idle", "failed", "write", "load", "install", "snapshot", "sweep"}]
    BY DEF StoreInv, StoreTypeOK
  <1>3. CASE WriteFile(w)
    <2>1. Drop(w) /\ disk' = wbuf[w] /\ UNCHANGED <<live, expired, wjob>>
      BY <1>3 DEF WriteFile
    <2>2. wpc' = [wpc EXCEPT ![w] = IF w \in Writers THEN "load" ELSE "idle"]
      BY <1>3 DEF WriteFile
    <2>3. QED
      BY <1>1, <1>2, <2>1, <2>2, DropInv DEF StoreInv, StoreTypeOK, RulesUnique
  <1>4. CASE LoadStore(w)
    <2>1. disk \in Seq(Rules) /\ Distinct(disk)
      BY DEF StoreInv, StoreTypeOK, RulesUnique
    <2>2. wbuf' = [wbuf EXCEPT ![w] = disk] /\ UNCHANGED <<disk, live, expired, wjob>>
          /\ wpc' = [wpc EXCEPT ![w] = "install"]
      BY <1>4 DEF LoadStore
    <2>3. QED
      BY <1>2, <2>1, <2>2, HoldInv DEF StoreInv, StoreTypeOK, RulesUnique
  <1>5. CASE FailStep(w)
    <2>1. Drop(w) /\ UNCHANGED <<disk, live, expired, wjob>> /\ wpc' = [wpc EXCEPT ![w] = "failed"]
      BY <1>5 DEF FailStep
    <2>2. QED
      BY <1>2, <2>1, DropInv DEF StoreInv, StoreTypeOK, RulesUnique
  <1>6. CASE InstallStore(w)
    <2>1. Drop(w) /\ live' = wbuf[w] /\ UNCHANGED <<disk, expired, wjob>>
      BY <1>6 DEF InstallStore
    <2>2. wpc' = [wpc EXCEPT ![w] = IF wjob[w].kind = "add" THEN "snapshot" ELSE "idle"]
      BY <1>6 DEF InstallStore
    <2>3. QED
      BY <1>1, <1>2, <2>1, <2>2, DropInv DEF StoreInv, StoreTypeOK, RulesUnique
  <1>7. CASE SnapshotStore(w)
    <2>1. live \in Seq(Rules) /\ Distinct(live)
      BY DEF StoreInv, StoreTypeOK, RulesUnique
    <2>2. wbuf' = [wbuf EXCEPT ![w] = live] /\ UNCHANGED <<disk, live, expired, wjob>>
          /\ wpc' = [wpc EXCEPT ![w] = "sweep"]
      BY <1>7 DEF SnapshotStore
    <2>3. QED
      BY <1>2, <2>1, <2>2, HoldInv DEF StoreInv, StoreTypeOK, RulesUnique
  <1>8. CASE FinishAdd(w)
    <2>1. Drop(w) /\ UNCHANGED <<disk, live, expired, wjob>> /\ wpc' = [wpc EXCEPT ![w] = "idle"]
      BY <1>8 DEF FinishAdd
    <2>2. QED
      BY <1>2, <2>1, DropInv DEF StoreInv, StoreTypeOK, RulesUnique
  <1>9. QED
    BY <1>3, <1>4, <1>5, <1>6, <1>7, <1>8 DEF WriterStep

(* A rule runs out. *)
LEMMA ExpireInv ==
  ASSUME StoreInv, NEW k \in Rules, Expire(k)
  PROVE  StoreInv'
  BY DEF Expire, StoreInv, StoreTypeOK, RulesUnique, HeldUnique, Distinct

(* Steps that leave the store alone. *)
LEMMA StoreAside ==
  ASSUME StoreInv, UNCHANGED storeVars
  PROVE  StoreInv'
  BY DEF storeVars, StoreInv, StoreTypeOK, RulesUnique, HeldUnique, Distinct

(* Every step of the store, whichever jobs the writers are asked for. *)
LEMMA StoreStepInv ==
  ASSUME StoreInv, NEW jobs \in SUBSET Jobs, StoreStep(jobs)
  PROVE  StoreInv'
  <1>1. CASE \E w \in AllWriters, job \in jobs : ReadFile(w, job)
    BY <1>1, ReadFileInv
  <1>2. CASE \E w \in AllWriters : WriterStep(w)
    BY <1>2, WriterInv
  <1>3. CASE \E w \in AllWriters : FinishAdd(w)
    BY <1>3, WriterInv
  <1>4. CASE \E job \in jobs : Expire(job.rule)
    BY <1>4, ExpireInv DEF Jobs
  <1>5. QED
    BY <1>1, <1>2, <1>3, <1>4 DEF StoreStep

(* However the writers of a daemon and `vet allow` overlap, what they read *)
(* and write are lists of rules without duplicates                         *)
(* (vetterd/src/suggestions.rs, vet/src/allow.rs).                         *)
THEOREM StoreInvariant == StoreSpec => []StoreInv
  <1>1. StoreInv /\ [StoreNext]_storeVars => StoreInv'
    BY StoreStepInv, StoreAside DEF StoreNext
  <1>2. QED
    BY StoreInitInv, <1>1, PTL DEF StoreSpec

(* The file, the store and every list in a writer's hand keep their shape. *)
THEOREM StoreTypes == StoreSpec => []StoreTypeOK
  BY StoreInvariant, PTL DEF StoreInv

(* Neither the file nor the store ever holds an id twice, so a file one    *)
(* writer leaves is never refused by the loader of the next                *)
(* (vetter-core/src/matcher/loader.rs, enforce_unique_ids).                *)
THEOREM IdsStayUnique == StoreSpec => []RulesUnique
  BY StoreInvariant, PTL DEF StoreInv

-----------------------------------------------------------------------------
(* Serial writes *)

OneAtATime == \A v, w \in Busy : v = w

EditsFile(w) ==
  wpc[w] = "write" =>
    \A k \in Rules : (k \in Elems(disk)) # (k \in Elems(wbuf[w])) =>
      k \in expired \/ IdOf[wjob[w].rule] = IdOf[k]

HoldsFile(w) == wpc[w] = "install" => wbuf[w] = disk

FreshOrOwed ==
  live = disk \/ \E w \in Writers : wpc[w] \in {"failed", "write", "load", "install"}

SerialInv ==
  /\ StoreInv
  /\ muddied \in BOOLEAN
  /\ ~muddied => /\ OneAtATime
                 /\ \A w \in AllWriters : EditsFile(w) /\ HoldsFile(w)
                 /\ FreshOrOwed

(* Before the first write the store is the file. *)
LEMMA SerialInitInv == SerialInit => SerialInv
  BY StoreInitInv DEF SerialInit, StoreInit, SerialInv, OneAtATime, Busy, AtRest, EditsFile,
     HoldsFile, FreshOrOwed

(* What a step of one writer leaves of the others, while they are at rest. *)
LEMMA OthersKept ==
  ASSUME SerialInv, NEW w \in AllWriters, ~muddied, ~muddied', Watch,
         w \in Busy \/ w \in Busy',
         \A v \in AllWriters : v # w => wpc'[v] = wpc[v],
         FreshOrOwed', EditsFile(w)', HoldsFile(w)', StoreInv'
  PROVE  SerialInv'
  <1>1. \A u, v \in Busy' : u = v
    BY DEF Watch
  <1>2. \A u, v \in Busy : u = v
    BY DEF SerialInv, OneAtATime
  <1>3. ASSUME NEW v \in AllWriters, v # w PROVE AtRest(v)'
    BY <1>1, <1>2, <1>3 DEF Busy, AtRest
  <1>4. ASSUME NEW v \in AllWriters, v # w PROVE EditsFile(v)' /\ HoldsFile(v)'
    BY <1>3, <1>4 DEF AtRest, EditsFile, HoldsFile
  <1>5. QED
    BY <1>1, <1>4 DEF SerialInv, OneAtATime, Watch

(* A read leaves in the writer's hand an edit of the file. *)
LEMMA SerialRead ==
  ASSUME SerialInv, ~muddied, ~muddied', Watch, StoreInv',
         NEW w \in AllWriters, NEW job \in Jobs, ReadFile(w, job)
  PROVE  SerialInv'
  <1>1. /\ wpc' = [wpc EXCEPT ![w] = "write"]
        /\ wjob' = [wjob EXCEPT ![w] = job]
        /\ wbuf' = [wbuf EXCEPT ![w] = Edited(disk, job)]
        /\ UNCHANGED <<disk, live, expired>>
    BY DEF ReadFile
  <1>2. StoreTypeOK
    BY DEF SerialInv, StoreInv
  <1>3. \A v \in AllWriters : v # w => wpc'[v] = wpc[v]
    BY <1>1, <1>2 DEF StoreTypeOK
  <1>4. wpc'[w] = "write" /\ wjob'[w] = job /\ wbuf'[w] = Edited(disk, job)
    BY <1>1, <1>2 DEF StoreTypeOK
  <1>5. \A k \in Rules : (k \in Elems(disk)) # (k \in Elems(Edited(disk, job))) =>
          k \in expired \/ IdOf[job.rule] = IdOf[k]
    BY <1>2, EditedFacts DEF StoreTypeOK
  <1>6. EditsFile(w)' /\ HoldsFile(w)' /\ w \in Busy'
    BY <1>1, <1>4, <1>5 DEF EditsFile, HoldsFile, Busy, AtRest, Elems
  <1>7. FreshOrOwed'
    <2>1. FreshOrOwed
      BY DEF SerialInv
    <2>2. CASE live = disk
      BY <1>1, <2>2 DEF FreshOrOwed
    <2>3. CASE \E v \in Writers : wpc[v] \in {"failed", "write", "load", "install"}
      BY <1>1, <1>3, <1>4, <2>3 DEF FreshOrOwed, AllWriters
    <2>4. QED
      BY <2>1, <2>2, <2>3 DEF FreshOrOwed
  <1>8. QED
    BY <1>3, <1>6, <1>7, OthersKept

(* The later steps of a write. *)
LEMMA SerialWriter ==
  ASSUME SerialInv, ~muddied, ~muddied', Watch, StoreInv',
         NEW w \in AllWriters, WriterStep(w) \/ FinishAdd(w)
  PROVE  SerialInv'
  <1>1. StoreTypeOK /\ FreshOrOwed /\ EditsFile(w) /\ HoldsFile(w)
    BY DEF SerialInv, StoreInv
  <1>2. w \in Busy
    BY DEF WriterStep, WriteFile, LoadStore, FailStep, InstallStore, SnapshotStore, FinishAdd,
           Busy, AtRest
  <1>3. PICK to : wpc' = [wpc EXCEPT ![w] = to]
    BY DEF WriterStep, WriteFile, LoadStore, FailStep, InstallStore, SnapshotStore, FinishAdd
  <1>4. wpc'[w] = to /\ \A v \in AllWriters : v # w => wpc'[v] = wpc[v]
    BY <1>1, <1>3 DEF StoreTypeOK
  <1>5. CASE WriteFile(w)
    <2>1. disk' = wbuf[w] /\ live' = live /\ to = IF w \in Writers THEN "load" ELSE "idle"
      BY <1>1, <1>4, <1>5 DEF WriteFile, StoreTypeOK
    <2>2. EditsFile(w)' /\ HoldsFile(w)'
      BY <1>4, <2>1 DEF EditsFile, HoldsFile
    <2>3. FreshOrOwed'
      <3>1. CASE w \in Writers
        BY <1>4, <2>1, <3>1 DEF FreshOrOwed
      <3>2. CASE w \notin Writers
        <4>1. w \in Clis /\ disk' = disk
          BY <1>2, <3>2 DEF AllWriters, Watch
        <4>2. \A v \in Writers : v # w /\ v \in AllWriters
          BY <3>2 DEF AllWriters
        <4>3. QED
          BY <1>1, <1>4, <2>1, <4>1, <4>2 DEF FreshOrOwed
      <3>3. QED
        BY <3>1, <3>2
    <2>4. QED
      BY <1>2, <1>4, <2>2, <2>3, OthersKept
  <1>6. CASE LoadStore(w)
    <2>1. UNCHANGED <<disk, live>> /\ to = "install" /\ wbuf'[w] = disk
      BY <1>1, <1>4, <1>6 DEF LoadStore, StoreTypeOK
    <2>2. EditsFile(w)' /\ HoldsFile(w)'
      BY <1>4, <2>1 DEF EditsFile, HoldsFile
    <2>3. FreshOrOwed'
      BY <1>1, <1>4, <2>1 DEF FreshOrOwed, AllWriters
    <2>4. QED
      BY <1>2, <1>4, <2>2, <2>3, OthersKept
  <1>7. CASE FailStep(w)
    <2>1. UNCHANGED <<disk, live>> /\ to = "failed"
      BY <1>1, <1>4, <1>7 DEF FailStep, StoreTypeOK
    <2>2. EditsFile(w)' /\ HoldsFile(w)'
      BY <1>4, <2>1 DEF EditsFile, HoldsFile
    <2>3. FreshOrOwed'
      BY <1>1, <1>4, <2>1 DEF FreshOrOwed, AllWriters
    <2>4. QED
      BY <1>2, <1>4, <2>2, <2>3, OthersKept
  <1>8. CASE InstallStore(w)
    <2>1. live' = wbuf[w] /\ disk' = disk /\ to \in {"snapshot", "idle"} /\ wpc[w] = "install"
      BY <1>1, <1>4, <1>8 DEF InstallStore, StoreTypeOK
    <2>2. EditsFile(w)' /\ HoldsFile(w)'
      BY <1>4, <2>1 DEF EditsFile, HoldsFile
    <2>3. FreshOrOwed'
      BY <1>1, <2>1 DEF FreshOrOwed, HoldsFile
    <2>4. QED
      BY <1>2, <1>4, <2>2, <2>3, OthersKept
  <1>9. CASE SnapshotStore(w) \/ FinishAdd(w)
    <2>1. UNCHANGED <<disk, live>> /\ to \in {"sweep", "idle"} /\ wpc[w] \in {"snapshot", "sweep"}
      BY <1>1, <1>4, <1>9 DEF SnapshotStore, FinishAdd, StoreTypeOK
    <2>2. EditsFile(w)' /\ HoldsFile(w)'
      BY <1>4, <2>1 DEF EditsFile, HoldsFile
    <2>3. FreshOrOwed'
      BY <1>1, <1>4, <2>1 DEF FreshOrOwed, AllWriters
    <2>4. QED
      BY <1>2, <1>4, <2>2, <2>3, OthersKept
  <1>10. QED
    BY <1>5, <1>6, <1>7, <1>8, <1>9 DEF WriterStep

(* Every step, watched. *)
LEMMA SerialStepInv ==
  ASSUME SerialInv, [SerialNext]_serialVars
  PROVE  SerialInv'
  <1>1. CASE UNCHANGED serialVars
    BY <1>1, StoreAside DEF serialVars, storeVars, SerialInv, OneAtATime, Busy, AtRest, EditsFile,
       HoldsFile, FreshOrOwed, Elems
  <1>2. CASE SerialNext
    <2>1. StoreInv' /\ Watch /\ muddied' \in BOOLEAN
      BY <1>2, StoreStepInv DEF SerialNext, StoreNext, SerialInv, Watch
    <2>2. CASE muddied'
      BY <2>1, <2>2 DEF SerialInv
    <2>3. CASE ~muddied'
      <3>1. ~muddied
        BY <2>1, <2>3 DEF Watch
      <3>2. CASE \E w \in AllWriters, job \in Jobs : ReadFile(w, job)
        BY <2>1, <2>3, <3>1, <3>2, SerialRead
      <3>3. CASE \E w \in AllWriters : WriterStep(w) \/ FinishAdd(w)
        BY <2>1, <2>3, <3>1, <3>3, SerialWriter
      <3>4. CASE \E job \in Jobs : Expire(job.rule)
        <4>1. UNCHANGED <<disk, live, wpc, wjob, wbuf>> /\ expired \subseteq expired'
          BY <3>4 DEF Expire
        <4>2. QED
          BY <2>1, <2>3, <3>1, <4>1 DEF SerialInv, OneAtATime, Busy, AtRest, EditsFile, HoldsFile,
             FreshOrOwed, Elems
      <3>5. QED
        BY <1>2, <3>2, <3>3, <3>4 DEF SerialNext, StoreNext, StoreStep
    <2>4. QED
      BY <2>2, <2>3
  <1>3. QED
    BY <1>1, <1>2

(* What serial writes rest on (vetterd/src/suggestions.rs). *)
THEOREM SerialInvariant == SerialSpec => []SerialInv
  BY SerialInitInv, SerialStepInv, PTL DEF SerialSpec

(* Serial writes keep what workers match against equal to the file, also   *)
(* when an earlier write failed half way and a later one repairs it.       *)
THEOREM SerialFresh == SerialSpec => []SerialStoreFresh
  <1>1. SerialInv => SerialStoreFresh
    <2> SUFFICES ASSUME SerialInv, ~muddied, \A w \in AllWriters : wpc[w] = "idle"
                 PROVE  live = disk
      BY DEF SerialStoreFresh, StoreFresh
    <2>1. FreshOrOwed
      BY DEF SerialInv
    <2>2. \A w \in Writers : wpc[w] = "idle"
      BY DEF AllWriters
    <2>3. QED
      BY <2>1, <2>2 DEF FreshOrOwed
  <1>2. QED
    BY SerialInvariant, <1>1, PTL

(* A serial write changes its own rule and drops expired ones: no rule a   *)
(* user added is lost by rewriting the file.                               *)
THEOREM SerialLosesNothing == SerialSpec => SerialNoLostRule
  <1>1. ASSUME SerialInv, SerialNext, ~muddied' PROVE OnlyItsRule
    <2>1. ~muddied
      BY <1>1 DEF SerialNext, Watch
    <2>2. SUFFICES ASSUME NEW k \in Rules, (k \in Elems(disk)) # (k \in Elems(disk'))
                   PROVE  \/ k \in expired
                          \/ \E w \in AllWriters :
                               /\ wpc[w] = "write" /\ wpc'[w] # "write"
                               /\ IdOf[wjob[w].rule] = IdOf[k]
      BY DEF OnlyItsRule
    <2>3. PICK w \in AllWriters : WriteFile(w)
      <3>1. disk' # disk
        BY <2>2
      <3>2. QED
        BY <1>1, <3>1 DEF SerialNext, StoreNext, StoreStep, WriterStep, ReadFile, LoadStore,
           FailStep, InstallStore, SnapshotStore, FinishAdd, Expire
    <2>4. EditsFile(w) /\ StoreTypeOK
      BY <1>1, <2>1 DEF SerialInv, StoreInv
    <2>5. disk' = wbuf[w] /\ wpc[w] = "write" /\ wpc'[w] # "write"
      BY <2>3, <2>4 DEF WriteFile, StoreTypeOK
    <2>6. k \in expired \/ IdOf[wjob[w].rule] = IdOf[k]
      BY <2>2, <2>4, <2>5 DEF EditsFile
    <2>7. QED
      BY <2>5, <2>6
  <1>2. SerialInv /\ [SerialNext]_serialVars => [~muddied' => OnlyItsRule]_serialVars
    BY <1>1
  <1>3. QED
    BY SerialInvariant, <1>2, PTL DEF SerialSpec, SerialNoLostRule

-----------------------------------------------------------------------------
(* The audit log. *)
AckedRowsSynced ==
  \A row \in acked : \E i \in 1 .. synced : log[i] = Piece(row, SizeOf(row))

AuditInv == AuditTypeOK /\ AckedRowsSynced

(* A step keeps the first n pieces of the file. *)
Keeps(n) == n <= Len(log') /\ \A i \in 1 .. n : log'[i] = log[i]

-----------------------------------------------------------------------------
(* What a successful append leaves in the file is a piece. *)
LEMMA WholePiece ==
  ASSUME NEW row \in AuditRows
  PROVE  Piece(row, SizeOf(row)) \in Pieces
  BY AuditAssumption DEF Piece, Pieces

(* So is what a torn one leaves. *)
LEMMA TornPiece ==
  ASSUME NEW row \in AuditRows, NEW n \in 0 .. SizeOf(row), n # 0
  PROVE  Piece(row, n) \in Pieces
  BY AuditAssumption DEF Piece, Pieces

(* Cutting a sequence and adding a short one to it. *)
LEMMA CutAndAdded ==
  ASSUME NEW S, NEW s \in Seq(S), NEW k \in 0 .. Len(s), NEW t \in Seq(S)
  PROVE  LET r == SubSeq(s, 1, k) \o t IN
           /\ r \in Seq(S) /\ Len(r) = k + Len(t)
           /\ \A i \in 1 .. k : r[i] = s[i]
  <1>1. SubSeq(s, 1, k) \in Seq(S)
    BY SubSeqProperties
  <1>2. Len(SubSeq(s, 1, k)) = k /\ \A i \in 1 .. k : SubSeq(s, 1, k)[i] = s[i]
    BY SubSeqProperties
  <1>3. PICK head \in Seq(S) :
          /\ head = SubSeq(s, 1, k) /\ Len(head) = k
          /\ \A i \in 1 .. k : head[i] = s[i]
    BY <1>1, <1>2
  <1>4. /\ head \o t \in Seq(S) /\ Len(head \o t) = k + Len(t)
        /\ \A i \in 1 .. k : (head \o t)[i] = s[i]
    BY <1>3, ConcatProperties
  <1>5. QED
    BY <1>3, <1>4

(* What a loss of power leaves. *)
LEMMA PowerLossStep ==
  ASSUME AuditTypeOK, PowerLoss
  PROVE  /\ log' \in Seq(Pieces) /\ synced' = Len(log')
         /\ synced <= synced' /\ Keeps(synced)
         /\ UNCHANGED <<tried, acked>>
  <1>1. PICK kept \in synced .. Len(log) :
        \E cut \in {<<>>} \cup
               (IF kept = Len(log) THEN {}
                ELSE {<<Piece(log[kept + 1].row, n)>> : n \in 1 .. log[kept + 1].bytes}) :
          /\ log' = SubSeq(log, 1, kept) \o cut
          /\ synced' = Len(log')
          /\ UNCHANGED <<tried, acked>>
    BY DEF PowerLoss
  <1>2. PICK cut \in {<<>>} \cup
               (IF kept = Len(log) THEN {}
                ELSE {<<Piece(log[kept + 1].row, n)>> : n \in 1 .. log[kept + 1].bytes}) :
          /\ log' = SubSeq(log, 1, kept) \o cut
          /\ synced' = Len(log')
          /\ UNCHANGED <<tried, acked>>
    BY <1>1
  <1>3. log \in Seq(Pieces) /\ kept \in 0 .. Len(log) /\ synced \in Nat /\ synced <= kept
    BY DEF AuditTypeOK
  <1>4. cut \in Seq(Pieces)
    <2>1. CASE cut = <<>>
      BY <2>1
    <2>2. CASE cut # <<>>
      <3>1. kept # Len(log)
        BY <1>2, <2>2
      <3>2. PICK n \in 1 .. log[kept + 1].bytes : cut = <<Piece(log[kept + 1].row, n)>>
        BY <1>2, <2>2, <3>1
      <3>3. log[kept + 1] \in Pieces
        BY <1>3, <3>1
      <3>4. Piece(log[kept + 1].row, n) \in Pieces
        BY <3>3, AuditAssumption DEF Piece, Pieces
      <3>5. QED
        BY <3>2, <3>4
    <2>3. QED
      BY <2>1, <2>2
  <1>5. /\ log' \in Seq(Pieces) /\ Len(log') = kept + Len(cut)
        /\ \A i \in 1 .. kept : log'[i] = log[i]
    BY <1>2, <1>3, <1>4, CutAndAdded
  <1>6. Len(cut) \in Nat
    BY <1>4
  <1>7. QED
    BY <1>2, <1>3, <1>5, <1>6 DEF Keeps

(* What an append leaves that succeeds, and one that fails. *)
LEMMA AppendOkStep ==
  ASSUME AuditTypeOK, NEW row \in AuditRows, AppendOk(row)
  PROVE  /\ log' \in Seq(Pieces) /\ synced' = Len(log')
         /\ synced <= synced' /\ Keeps(synced)
         /\ tried' = tried \cup {row} /\ acked' = acked \cup {row}
         /\ log'[synced'] = Piece(row, SizeOf(row)) /\ synced' \in Nat \ {0}
  <1>1. log' = Append(log, Piece(row, SizeOf(row))) /\ synced' = Len(log')
    BY DEF AppendOk
  <1>2. log \in Seq(Pieces) /\ synced \in 0 .. Len(log)
    BY DEF AuditTypeOK
  <1>3. /\ log' \in Seq(Pieces) /\ Len(log') = Len(log) + 1
        /\ \A i \in 1 .. Len(log) : log'[i] = log[i]
        /\ log'[Len(log) + 1] = Piece(row, SizeOf(row))
    BY <1>1, <1>2, WholePiece
  <1>4. QED
    BY <1>1, <1>2, <1>3 DEF AppendOk, Keeps

(* A failed append adds at most one piece behind the synced prefix. *)
LEMMA AppendFailsStep ==
  ASSUME AuditTypeOK, NEW row \in AuditRows, NEW n \in 0 .. SizeOf(row), AppendFails(row, n)
  PROVE  /\ log' \in Seq(Pieces) /\ synced' \in 0 .. Len(log')
         /\ synced' = synced /\ Keeps(synced)
         /\ tried' = tried \cup {row} /\ acked' = acked
  <1>1. log \in Seq(Pieces) /\ synced \in 0 .. Len(log)
    BY DEF AuditTypeOK
  <1>2. CASE n = 0
    BY <1>1, <1>2 DEF AppendFails, Keeps
  <1>3. CASE n # 0
    <2>1. log' = Append(log, Piece(row, n))
      BY <1>3 DEF AppendFails
    <2>2. /\ log' \in Seq(Pieces) /\ Len(log') = Len(log) + 1
          /\ \A i \in 1 .. Len(log) : log'[i] = log[i]
      BY <1>1, <1>3, <2>1, TornPiece
    <2>3. QED
      BY <1>1, <2>2 DEF AppendFails, Keeps
  <1>4. QED
    BY <1>2, <1>3

-----------------------------------------------------------------------------
(* The empty log. *)
LEMMA AuditInitInv == AuditInit => AuditInv
  BY DEF AuditInit, AuditInv, AuditTypeOK, AckedRowsSynced

(* No step shortens or rewrites the synced prefix. *)
LEMMA AuditStepInv ==
  ASSUME AuditInv, [AuditNext]_auditVars
  PROVE  AuditInv' /\ synced <= synced' /\ Keeps(synced)
  <1> USE DEF AuditInv
  <1>0. synced \in Nat /\ log \in Seq(Pieces) /\ synced <= Len(log)
    BY DEF AuditTypeOK
  <1>a. ASSUME synced' \in Nat, synced <= synced', Keeps(synced), acked' = acked
        PROVE  AckedRowsSynced'
    <2> SUFFICES ASSUME NEW row \in acked
                 PROVE  \E i \in 1 .. synced' : log'[i] = Piece(row, SizeOf(row))
      BY <1>a DEF AckedRowsSynced
    <2>1. PICK i \in 1 .. synced : log[i] = Piece(row, SizeOf(row))
      BY DEF AckedRowsSynced
    <2>2. QED
      BY <1>0, <1>a, <2>1 DEF Keeps
  <1>1. ASSUME NEW row \in AuditRows, AppendOk(row)
        PROVE  AuditInv' /\ synced <= synced' /\ Keeps(synced)
    <2>1. /\ log' \in Seq(Pieces) /\ synced' = Len(log')
          /\ synced <= synced' /\ Keeps(synced)
          /\ tried' = tried \cup {row} /\ acked' = acked \cup {row}
          /\ log'[synced'] = Piece(row, SizeOf(row)) /\ synced' \in Nat \ {0}
      BY <1>1, AppendOkStep
    <2>2. AuditTypeOK'
      BY <2>1 DEF AuditTypeOK
    <2>3. AckedRowsSynced'
      <3> SUFFICES ASSUME NEW r \in acked'
                   PROVE  \E i \in 1 .. synced' : log'[i] = Piece(r, SizeOf(r))
        BY DEF AckedRowsSynced
      <3>1. CASE r = row
        <4>1. synced' \in 1 .. synced'
          BY <2>1
        <4>2. QED
          BY <2>1, <3>1, <4>1
      <3>2. CASE r \in acked
        <4>1. PICK i \in 1 .. synced : log[i] = Piece(r, SizeOf(r))
          BY <3>2 DEF AckedRowsSynced
        <4>2. i \in 1 .. synced' /\ log'[i] = log[i]
          BY <1>0, <2>1, <4>1 DEF Keeps
        <4>3. QED
          BY <4>1, <4>2
      <3>3. QED
        BY <2>1, <3>1, <3>2
    <2>4. QED
      BY <2>1, <2>2, <2>3
  <1>2. ASSUME NEW row \in AuditRows, NEW n \in 0 .. SizeOf(row), AppendFails(row, n)
        PROVE  AuditInv' /\ synced <= synced' /\ Keeps(synced)
    <2>1. /\ log' \in Seq(Pieces) /\ synced' \in 0 .. Len(log')
          /\ synced' = synced /\ Keeps(synced)
          /\ tried' = tried \cup {row} /\ acked' = acked
      BY <1>2, AppendFailsStep
    <2>2. AuditTypeOK'
      BY <2>1 DEF AuditTypeOK
    <2>3. QED
      BY <1>0, <1>a, <2>1, <2>2
  <1>3. CASE PowerLoss
    <2>1. /\ log' \in Seq(Pieces) /\ synced' = Len(log')
          /\ synced <= synced' /\ Keeps(synced)
          /\ UNCHANGED <<tried, acked>>
      BY <1>3, PowerLossStep
    <2>2. AuditTypeOK'
      BY <2>1 DEF AuditTypeOK
    <2>3. QED
      BY <1>a, <2>1, <2>2
  <1>4. CASE UNCHANGED auditVars
    <2>1. UNCHANGED <<log, synced, tried, acked>>
      BY <1>4 DEF auditVars
    <2>2. AuditTypeOK' /\ AckedRowsSynced'
      BY <2>1 DEF AuditTypeOK, AckedRowsSynced
    <2>3. QED
      BY <1>0, <2>1, <2>2 DEF Keeps
  <1>5. QED
    BY <1>1, <1>2, <1>3, <1>4 DEF AuditNext

(* Every acknowledged row lies in the synced prefix, whatever fails *)
(* (vetterd/src/audit.rs, append). *)
THEOREM AuditInvariant == AuditSpec => []AuditInv
  <1>1. AuditInv /\ [AuditNext]_auditVars => AuditInv'
    BY AuditStepInv
  <1>2. QED
    BY AuditInitInv, <1>1, PTL DEF AuditSpec

(* The types of the audit log, for any rows (vetterd/src/audit.rs). *)
THEOREM AuditTypes == AuditSpec => []AuditTypeOK
  BY AuditInvariant, PTL DEF AuditInv

(* A row whose append returned Ok is whole in the file for good, whatever  *)
(* is torn around it and however often the machine dies.                   *)
THEOREM AckedSurvive == AuditSpec => []AckedRowsSurvive
  <1>1. AuditInv => AckedRowsSurvive
    <2> SUFFICES ASSUME AuditInv, NEW row \in acked
                 PROVE  \E i \in DOMAIN log : log[i] = Piece(row, SizeOf(row))
      BY DEF AckedRowsSurvive
    <2>1. PICK i \in 1 .. synced : log[i] = Piece(row, SizeOf(row))
      BY DEF AuditInv, AckedRowsSynced
    <2>2. i \in DOMAIN log
      BY DEF AuditInv, AuditTypeOK
    <2>3. QED
      BY <2>1, <2>2
  <1>2. QED
    BY AuditInvariant, <1>1, PTL

(* The synced prefix of the file is never shortened and never rewritten. *)
THEOREM SyncedKept == AuditSpec => SyncedPrefixKept
  <1>1. AuditInv /\ [AuditNext]_auditVars =>
          [/\ synced <= synced'
           /\ SubSeq(log', 1, synced) = SubSeq(log, 1, synced)]_auditVars
    <2> SUFFICES ASSUME AuditInv, [AuditNext]_auditVars
                 PROVE  /\ synced <= synced'
                        /\ SubSeq(log', 1, synced) = SubSeq(log, 1, synced)
      OBVIOUS
    <2>1. AuditInv' /\ synced <= synced' /\ Keeps(synced)
      BY AuditStepInv
    <2>2. /\ log \in Seq(Pieces) /\ log' \in Seq(Pieces)
          /\ synced \in 0 .. Len(log) /\ synced \in 0 .. Len(log')
      BY <2>1 DEF AuditInv, AuditTypeOK, Keeps
    <2>3. SubSeq(log', 1, synced) = SubSeq(log, 1, synced)
      BY <2>1, <2>2 DEF Keeps
    <2>4. QED
      BY <2>1, <2>3
  <1>2. QED
    BY AuditInvariant, <1>1, PTL DEF AuditSpec, SyncedPrefixKept
-----------------------------------------------------------------------------
(* The tail.  The window only decides where reading starts.  Rows read     *)
(* from a later line are an end of the rows of the whole file              *)
(* (RowsFromLater), so once there are cap of them the newest cap are the   *)
(* same (NewestAgree); and the window, which is not empty, doubles until   *)
(* it has cap rows or the whole file (TailResolvedIs).                     *)
Places == [k \in 1 .. Len(log) |-> k]
Readable(first) == {i \in first .. Len(log) : Parses(i) /\ Ui(log[i].row)}

(* RowsFrom is the rows at the readable places. *)
LEMMA RowsFromPlaces ==
  ASSUME log \in Seq(Pieces), NEW first \in Nat
  PROVE  \E kept \in Seq(1 .. Len(log)) :
           /\ kept = Kept(Places, Readable(first))
           /\ RowsFrom(first) = [k \in 1 .. Len(kept) |-> log[kept[k]].row]
           /\ RowsFrom(first) \in Seq(AuditRows)
           /\ Len(RowsFrom(first)) = Len(kept)
  <1> DEFINE kept == Kept(Places, Readable(first))
  <1>1. Places \in Seq(1 .. Len(log))
    BY DEF Places
  <1>2. kept \in Seq(1 .. Len(log))
    BY <1>1, KeptPicks
  <1>3. RowsFrom(first) = [k \in DOMAIN kept |-> log[kept[k]].row]
    BY DEF RowsFrom, Places, Readable
  <1> HIDE DEF kept
  <1>4. DOMAIN kept = 1 .. Len(kept) /\ Len(kept) \in Nat
    BY <1>2
  <1>5. \A k \in 1 .. Len(kept) : log[kept[k]].row \in AuditRows
    BY <1>2 DEF Pieces
  <1>6. QED
    BY <1>2, <1>3, <1>4, <1>5 DEF kept

(* Reading from a later line gives an end of what the whole file gives. *)
LEMMA RowsFromLater ==
  ASSUME log \in Seq(Pieces), NEW first \in 1 .. Len(log) + 1
  PROVE  \E skipped \in Nat :
           /\ Len(RowsFrom(1)) = skipped + Len(RowsFrom(first))
           /\ \A k \in 1 .. Len(RowsFrom(first)) :
                RowsFrom(1)[skipped + k] = RowsFrom(first)[k]
  <1>1. PICK all \in Seq(1 .. Len(log)) :
           /\ all = Kept(Places, Readable(1))
           /\ RowsFrom(1) = [k \in 1 .. Len(all) |-> log[all[k]].row]
           /\ RowsFrom(1) \in Seq(AuditRows)
           /\ Len(RowsFrom(1)) = Len(all)
    BY RowsFromPlaces
  <1>2. PICK end \in Seq(1 .. Len(log)) :
           /\ end = Kept(Places, Readable(first))
           /\ RowsFrom(first) = [k \in 1 .. Len(end) |-> log[end[k]].row]
           /\ RowsFrom(first) \in Seq(AuditRows)
           /\ Len(RowsFrom(first)) = Len(end)
    <2>1. first \in Nat
      OBVIOUS
    <2>2. QED
      BY <2>1, RowsFromPlaces
  <1>3. IsEnd(all, end)
    <2>1. Places \in Seq(1 .. Len(log)) /\ Len(Places) = Len(log)
      BY DEF Places
    <2>2. PICK p \in Nat : p = first - 1
      OBVIOUS
    <2>3. EndsAlike(Places, Readable(1), Readable(first), p)
      BY <2>1, <2>2 DEF EndsAlike, Places, Readable
    <2>4. IsEnd(Kept(Places, Readable(1)), Kept(Places, Readable(first)))
      BY <2>1, <2>3, KeptEnd
    <2>5. QED
      BY <1>1, <1>2, <2>4
  <1>4. PICK skipped \in Nat :
          /\ Len(all) = skipped + Len(end)
          /\ \A k \in 1 .. Len(end) : all[skipped + k] = end[k]
    BY <1>3 DEF IsEnd
  <1>5. ASSUME NEW k \in 1 .. Len(end)
        PROVE  RowsFrom(1)[skipped + k] = RowsFrom(first)[k]
    <2>1. skipped + k \in 1 .. Len(all) /\ all[skipped + k] = end[k]
      <3>1. Len(end) \in Nat
        OBVIOUS
      <3>2. skipped + k \in 1 .. skipped + Len(end)
        BY <3>1
      <3>3. QED
        BY <1>4, <3>2
    <2>2. RowsFrom(1)[skipped + k] = log[all[skipped + k]].row
      BY <1>1, <2>1
    <2>3. RowsFrom(first)[k] = log[end[k]].row
      BY <1>2
    <2>4. QED
      BY <2>1, <2>2, <2>3
  <1>6. QED
    BY <1>1, <1>2, <1>4, <1>5

(* The newest cap rows of an end that has as many are those of the whole. *)
LEMMA NewestAgree ==
  ASSUME log \in Seq(Pieces), NEW first \in 1 .. Len(log) + 1, NEW cap \in Nat,
         cap <= Len(RowsFrom(first))
  PROVE  NewestFirst(RowsFrom(first), cap) = NewestFirst(RowsFrom(1), cap)
  <1>1. PICK skipped \in Nat :
           /\ Len(RowsFrom(1)) = skipped + Len(RowsFrom(first))
           /\ \A k \in 1 .. Len(RowsFrom(first)) :
                RowsFrom(1)[skipped + k] = RowsFrom(first)[k]
    BY RowsFromLater
  <1>2. PICK n \in Nat : n = Len(RowsFrom(first))
    BY RowsFromPlaces
  <1>3. cap <= n /\ Len(RowsFrom(1)) = skipped + n
    BY <1>1, <1>2
  <1>4. NewestFirst(RowsFrom(first), cap) = [k \in 1 .. cap |-> RowsFrom(first)[n + 1 - k]]
    BY <1>2, <1>3 DEF NewestFirst
  <1>5. NewestFirst(RowsFrom(1), cap) = [k \in 1 .. cap |-> RowsFrom(1)[skipped + n + 1 - k]]
    BY <1>3 DEF NewestFirst
  <1>6. ASSUME NEW k \in 1 .. cap
        PROVE  RowsFrom(first)[n + 1 - k] = RowsFrom(1)[skipped + n + 1 - k]
    <2>1. n + 1 - k \in 1 .. n /\ skipped + (n + 1 - k) = skipped + n + 1 - k
      BY <1>3
    <2>2. QED
      BY <1>1, <1>2, <2>1
  <1>7. QED
    BY <1>4, <1>5, <1>6

(* Where reading starts is a line of the file or just behind the last. *)
LEMMA FirstPieceIn ==
  ASSUME log \in Seq(Pieces), NEW pos
  PROVE  FirstPiece(pos) \in 1 .. Len(log) + 1
  <1> DEFINE broken == {i \in DOMAIN log : Whole(log[i]) /\ EndOf[i] > pos}
  <1>1. broken \subseteq 1 .. Len(log) /\ Len(log) \in Nat
    OBVIOUS
  <1>2. FirstPiece(pos) = IF pos = 0 THEN 1
                          ELSE IF broken = {} THEN Len(log) + 1
                          ELSE 1 + (CHOOSE i \in broken : \A j \in broken : i <= j)
    BY DEF FirstPiece
  <1> HIDE DEF broken
  <1>3. broken # {} => (CHOOSE i \in broken : \A j \in broken : i <= j) \in 1 .. Len(log)
    <2>1. SUFFICES ASSUME broken # {}
                   PROVE  (CHOOSE i \in broken : \A j \in broken : i <= j) \in 1 .. Len(log)
      OBVIOUS
    <2>2. broken \in SUBSET Nat
      BY <1>1
    <2>3. \E i \in broken : \A j \in broken : i <= j
      BY <2>1, <2>2, SmallestMember
    <2>4. (CHOOSE i \in broken : \A j \in broken : i <= j) \in broken
      BY <2>3
    <2>5. QED
      BY <1>1, <2>4
  <1>4. QED
    BY <1>1, <1>2, <1>3

(* The recursion of EndOf, as a property of a function. *)
Ends(f, n) == f = [i \in 0 .. n |-> IF i = 0 THEN 0 ELSE f[i - 1] + log[i].bytes]

(* A file has a size, which is not 0 once something was written. *)
LEMMA FileSizeNat ==
  ASSUME log \in Seq(Pieces)
  PROVE  FileSize \in Nat /\ (FileSize = 0 => Len(log) = 0)
  <1> DEFINE Good == {n \in Nat : n <= Len(log) => \E f \in [0 .. n -> Nat] : Ends(f, n)}
  <1>1. 0 \in Good
    <2>1. [i \in 0 .. 0 |-> 0] \in [0 .. 0 -> Nat] /\ Ends([i \in 0 .. 0 |-> 0], 0)
      BY DEF Ends
    <2>2. QED
      BY <2>1
  <1>2. ASSUME NEW n \in Nat, n \in Good PROVE n + 1 \in Good
    <2>1. SUFFICES ASSUME n + 1 <= Len(log)
                   PROVE  \E f \in [0 .. n + 1 -> Nat] : Ends(f, n + 1)
      OBVIOUS
    <2>2. PICK g \in [0 .. n -> Nat] : Ends(g, n)
      BY <1>2, <2>1
    <2>3. log[n + 1].bytes \in Nat
      BY <2>1 DEF Pieces
    <2> DEFINE last == g[n] + log[n + 1].bytes
               f == [i \in 0 .. n + 1 |-> IF i <= n THEN g[i] ELSE last]
    <2>4. f \in [0 .. n + 1 -> Nat]
      BY <2>3
    <2>5. ASSUME NEW i \in 0 .. n + 1
          PROVE  f[i] = IF i = 0 THEN 0 ELSE f[i - 1] + log[i].bytes
      <3>1. CASE i = 0
        <4>1. 0 \in 0 .. n
          OBVIOUS
        <4>2. g[0] = 0
          BY <2>2, <4>1 DEF Ends
        <4>3. QED
          BY <3>1, <4>2
      <3>2. CASE i \in 1 .. n
        <4>1. i \in 0 .. n /\ i - 1 \in 0 .. n /\ i # 0
          BY <3>2
        <4>2. g[i] = g[i - 1] + log[i].bytes
          BY <2>2, <4>1 DEF Ends
        <4>3. QED
          BY <4>1, <4>2
      <3>3. CASE i = n + 1
        BY <3>3
      <3>4. QED
        BY <3>1, <3>2, <3>3
    <2>6. Ends(f, n + 1)
      BY <2>5 DEF Ends
    <2>7. QED
      BY <2>4, <2>6
  <1>3. PICK f \in [0 .. Len(log) -> Nat] : Ends(f, Len(log))
    <2> HIDE DEF Good
    <2>1. Len(log) \in Nat /\ Nat \subseteq Good
      BY <1>1, <1>2, AllNaturals
    <2>2. QED
      BY <2>1 DEF Good
  <1>4. Ends(EndOf, Len(log))
    BY <1>3 DEF EndOf, Ends
  <1> DEFINE Sized == {n \in Nat : n <= Len(log) => EndOf[n] \in Nat}
  <1>5. 0 \in Sized
    BY <1>4 DEF Ends
  <1>6. ASSUME NEW n \in Nat, n \in Sized PROVE n + 1 \in Sized
    <2>1. SUFFICES ASSUME n + 1 <= Len(log) PROVE EndOf[n + 1] \in Nat
      OBVIOUS
    <2>2. EndOf[n + 1] = EndOf[n] + log[n + 1].bytes
      BY <1>4, <2>1 DEF Ends
    <2>3. log[n + 1].bytes \in Nat /\ EndOf[n] \in Nat
      BY <1>6, <2>1 DEF Pieces
    <2>4. QED
      BY <2>2, <2>3
  <1>7. Len(log) \in Nat /\ Nat \subseteq Sized
    <2> HIDE DEF Sized
    <2>1. QED
      BY <1>5, <1>6, AllNaturals
  <1>8. FileSize \in Nat
    BY <1>7 DEF FileSize
  <1>9. ASSUME Len(log) # 0 PROVE FileSize # 0
    <2>1. PICK n \in Nat : n + 1 = Len(log)
      <3>1. Len(log) - 1 \in Nat /\ (Len(log) - 1) + 1 = Len(log)
        BY <1>9
      <3>2. QED
        BY <3>1
    <2>2. EndOf[n + 1] = EndOf[n] + log[n + 1].bytes
      BY <1>4, <2>1 DEF Ends
    <2>3. log[n + 1].bytes \in Nat \ {0} /\ EndOf[n] \in Nat
      BY <1>7, <2>1 DEF Pieces
    <2>4. QED
      BY <2>1, <2>2, <2>3 DEF FileSize
  <1>10. QED
    BY <1>8, <1>9

(* What tail_resolved_entries reads with a window of w bytes. *)
StartOf(w) == IF w < FileSize THEN FileSize - w ELSE 0
RowsIn(w) == RowsFrom(FirstPiece(StartOf(w)))
Enough(w, cap) == Len(RowsIn(w)) >= cap \/ StartOf(w) = 0

(* When it stops it has the newest rows of the file. *)
LEMMA EnoughIsNewest ==
  ASSUME log \in Seq(Pieces), NEW cap \in Nat, NEW w \in Nat, Enough(w, cap)
  PROVE  NewestFirst(RowsIn(w), cap) = NewestFirst(RowsFrom(1), cap)
  <1>1. CASE StartOf(w) = 0
    BY <1>1 DEF RowsIn, FirstPiece
  <1>2. CASE Len(RowsIn(w)) >= cap
    <2>1. PICK first \in 1 .. Len(log) + 1 : first = FirstPiece(StartOf(w))
      BY FirstPieceIn
    <2>2. first \in Nat
      OBVIOUS
    <2>3. Len(RowsFrom(first)) \in Nat
      BY <2>2, RowsFromPlaces
    <2>4. cap <= Len(RowsFrom(first))
      BY <1>2, <2>1, <2>3 DEF RowsIn
    <2>5. NewestFirst(RowsFrom(first), cap) = NewestFirst(RowsFrom(1), cap)
      BY <2>4, NewestAgree
    <2>6. QED
      BY <2>1, <2>5 DEF RowsIn
  <1>3. QED
    BY <1>1, <1>2 DEF Enough

(* The doubling, as a property of a function. *)
Doubles(f, cap) ==
  f = [w \in Nat |-> IF Enough(w, cap) THEN NewestFirst(RowsIn(w), cap) ELSE f[2 * w]]

(* There is such a function. *)
LEMMA DoublesExists ==
  ASSUME log \in Seq(Pieces), NEW cap \in Nat
  PROVE  \E f : Doubles(f, cap)
  <1> DEFINE f == [w \in Nat |-> NewestFirst(RowsFrom(1), cap)]
  <1>1. ASSUME NEW w \in Nat
        PROVE  f[w] = IF Enough(w, cap) THEN NewestFirst(RowsIn(w), cap) ELSE f[2 * w]
    BY EnoughIsNewest
  <1>2. f = [w \in Nat |-> IF Enough(w, cap) THEN NewestFirst(RowsIn(w), cap) ELSE f[2 * w]]
    BY <1>1
  <1>3. Doubles(f, cap)
    BY <1>2 DEF Doubles
  <1>4. QED
    BY <1>3

(* Each such function has the newest rows of the file at every window that *)
(* is not empty: the window grows until it is the file.                    *)
LEMMA DoublesIsNewest ==
  ASSUME log \in Seq(Pieces), NEW cap \in Nat, NEW f, Doubles(f, cap),
         NEW w \in Nat \ {0}
  PROVE  f[w] = NewestFirst(RowsFrom(1), cap)
  <1> DEFINE newest == NewestFirst(RowsFrom(1), cap)
             Good == {n \in Nat : \A v \in Nat \ {0} : v + n >= FileSize => f[v] = newest}
  <1>1. \A v \in Nat : f[v] = IF Enough(v, cap) THEN newest ELSE f[2 * v]
    <2>1. \A v \in Nat :
            f[v] = IF Enough(v, cap) THEN NewestFirst(RowsIn(v), cap) ELSE f[2 * v]
      BY DEF Doubles
    <2>2. ASSUME NEW v \in Nat, Enough(v, cap) PROVE NewestFirst(RowsIn(v), cap) = newest
      BY <2>2, EnoughIsNewest
    <2>3. QED
      BY <2>1, <2>2
  <1> HIDE DEF newest
  <1>2. FileSize \in Nat
    BY FileSizeNat
  <1>3. 0 \in Good
    <2>1. SUFFICES ASSUME NEW v \in Nat \ {0}, v + 0 >= FileSize PROVE f[v] = newest
      OBVIOUS
    <2>2. Enough(v, cap)
      BY <1>2, <2>1 DEF Enough, StartOf
    <2>3. QED
      BY <1>1, <2>2
  <1>4. ASSUME NEW n \in Nat, n \in Good PROVE n + 1 \in Good
    <2>1. SUFFICES ASSUME NEW v \in Nat \ {0}, v + (n + 1) >= FileSize PROVE f[v] = newest
      OBVIOUS
    <2>2. PICK u \in Nat \ {0} : u = 2 * v /\ u + n >= FileSize
      BY <1>2, <2>1
    <2>3. f[u] = newest
      BY <1>4, <2>2
    <2>4. QED
      BY <1>1, <2>2, <2>3
  <1>5. FileSize \in Good
    <2> HIDE DEF Good
    <2>1. Nat \subseteq Good
      BY <1>3, <1>4, AllNaturals
    <2>2. QED
      BY <1>2, <2>1
  <1>6. w + FileSize >= FileSize
    BY <1>2
  <1>7. QED
    BY <1>5, <1>6 DEF newest

(* The tail of a file of any length, for any number of rows asked for. *)
LEMMA TailResolvedIs ==
  ASSUME log \in Seq(Pieces), NEW cap \in Nat
  PROVE  TailResolved(cap) = NewestFirst(RowsFrom(1), cap)
  <1> DEFINE WithWindow == CHOOSE f : Doubles(f, cap)
  <1>1. Doubles(WithWindow, cap)
    BY DoublesExists
  <1>2. WithWindow[WindowStart] = NewestFirst(RowsFrom(1), cap)
    <2> HIDE DEF WithWindow
    <2>1. WindowStart \in Nat \ {0}
      BY AuditAssumption
    <2>2. QED
      BY <1>1, <2>1, DoublesIsNewest
  <1>3. TailResolved(cap) = IF cap = 0 \/ FileSize = 0 THEN <<>> ELSE WithWindow[WindowStart]
    BY DEF TailResolved, Doubles, Enough, RowsIn, StartOf
  <1>4. CASE cap = 0
    <2>1. Len(RowsFrom(1)) \in Nat
      BY RowsFromPlaces
    <2>2. NewestFirst(RowsFrom(1), cap) = <<>>
      BY <1>4, <2>1 DEF NewestFirst
    <2>3. QED
      BY <1>3, <1>4, <2>2
  <1>5. CASE FileSize = 0
    <2>1. Len(log) = 0
      BY <1>5, FileSizeNat
    <2>2. PICK kept \in Seq(1 .. Len(log)) : Len(RowsFrom(1)) = Len(kept)
      BY RowsFromPlaces
    <2>3. Len(kept) = 0
      <3>1. \A k \in 1 .. Len(kept) : kept[k] \in 1 .. 0
        BY <2>1
      <3>2. Len(kept) \in Nat /\ (Len(kept) # 0 => 1 \in 1 .. Len(kept))
        OBVIOUS
      <3>3. QED
        BY <3>1, <3>2
    <2>4. NewestFirst(RowsFrom(1), cap) = <<>>
      BY <2>2, <2>3 DEF NewestFirst
    <2>5. QED
      BY <1>3, <1>5, <2>4
  <1>6. QED
    BY <1>2, <1>3, <1>4, <1>5

(* Every row of the tail is one of the file, and one with a card. *)
LEMMA TailRows ==
  ASSUME log \in Seq(Pieces), NEW cap \in Nat
  PROVE  /\ TailResolved(cap) \in Seq(AuditRows)
         /\ \A k \in 1 .. Len(TailResolved(cap)) :
              \E i \in 1 .. Len(log) : TailResolved(cap)[k] = log[i].row /\ Ui(log[i].row)
  <1>1. PICK kept \in Seq(1 .. Len(log)) :
           /\ kept = Kept(Places, Readable(1))
           /\ RowsFrom(1) = [k \in 1 .. Len(kept) |-> log[kept[k]].row]
           /\ RowsFrom(1) \in Seq(AuditRows)
           /\ Len(RowsFrom(1)) = Len(kept)
    BY RowsFromPlaces
  <1>2. Places \in Seq(1 .. Len(log))
    BY DEF Places
  <1>3. PICK h : Picks(h, Places, kept, Readable(1))
    BY <1>1, <1>2, KeptPicks
  <1>4. ASSUME NEW k \in 1 .. Len(kept)
        PROVE  kept[k] \in 1 .. Len(log) /\ Ui(log[kept[k]].row)
    <2>1. kept[k] \in Readable(1)
      BY <1>3 DEF Picks
    <2>2. QED
      BY <2>1 DEF Readable
  <1>5. PICK n \in Nat : n <= Len(kept) /\ n = (IF Len(kept) < cap THEN Len(kept) ELSE cap)
    <2>1. Len(kept) \in Nat
      OBVIOUS
    <2>2. QED
      BY <2>1
  <1>6. NewestFirst(RowsFrom(1), cap) = [k \in 1 .. n |-> RowsFrom(1)[Len(kept) + 1 - k]]
    BY <1>1, <1>5 DEF NewestFirst
  <1>7. ASSUME NEW k \in 1 .. n
        PROVE  \E i \in 1 .. Len(log) :
                 RowsFrom(1)[Len(kept) + 1 - k] = log[i].row /\ Ui(log[i].row)
                 /\ log[i].row \in AuditRows
    <2>1. Len(kept) + 1 - k \in 1 .. Len(kept)
      BY <1>5
    <2>2. PICK j \in 1 .. Len(kept) : j = Len(kept) + 1 - k
      BY <2>1
    <2>3. kept[j] \in 1 .. Len(log) /\ Ui(log[kept[j]].row) /\ RowsFrom(1)[j] = log[kept[j]].row
      BY <1>1, <1>4
    <2>4. log[kept[j]].row \in AuditRows
      BY <2>3 DEF Pieces
    <2>5. QED
      BY <2>2, <2>3, <2>4
  <1>8. TailResolved(cap) = [k \in 1 .. n |-> RowsFrom(1)[Len(kept) + 1 - k]]
    BY <1>6, TailResolvedIs
  <1>9. TailResolved(cap) \in [1 .. n -> AuditRows]
    BY <1>7, <1>8
  <1>10. TailResolved(cap) \in Seq(AuditRows) /\ Len(TailResolved(cap)) = n
    BY <1>9
  <1>11. QED
    BY <1>7, <1>8, <1>10

(* The history the daemon refills from the log is the newest card rows of  *)
(* the whole file, whatever is torn in it, wherever the window starts and  *)
(* however often it doubles (vetterd/src/audit.rs, tail_resolved_entries). *)
THEOREM TailNewest == AuditSpec => []TailIsNewest
  <1>1. AuditInv => TailIsNewest
    <2>1. SUFFICES ASSUME AuditInv, NEW cap \in 0 .. Len(log) + 1
                   PROVE  TailResolved(cap) = NewestFirst(RowsFrom(1), cap)
      BY DEF TailIsNewest
    <2>2. log \in Seq(Pieces) /\ cap \in Nat
      BY <2>1 DEF AuditInv, AuditTypeOK
    <2>3. QED
      BY <2>2, TailResolvedIs
  <1>2. QED
    BY AuditInvariant, <1>1, PTL
=============================================================================
