------------------------- MODULE PendingQueue_proofs ------------------------
(***************************************************************************)
(* Proofs that the pending queue keeps its promises for every set of       *)
(* requests, every assignment of ids (duplicates included), every set of   *)
(* verdicts and every length of the history ring.                          *)
(*                                                                         *)
(* SenderHeldOnce is not inductive alone: that resolving an id touches the *)
(* request whose id it is needs EntriesUnderOwnId; that a submit into an   *)
(* empty queue is the only banner needs RaisedWereParked.                  *)
(***************************************************************************)
EXTENDS PendingQueue, SequenceTheorems, TLAPS

(* Every entry of the map is stored under the id of its own request. *)
EntriesUnderOwnId ==
  \A i \in Ids : entries[i] # NoRequest => IdOf[entries[i]] = i

(* Only a request that was submitted can have raised a banner. *)
RaisedWereParked == \A r \in raised : calls[r] = "parked"

QueueInv ==
  /\ QueueTypeOK
  /\ EntriesUnderOwnId
  /\ SenderHeldOnce
  /\ RaisedWereParked
  /\ OneBannerPerBurst
  /\ HistoryMatchesAnswer

-----------------------------------------------------------------------------
(* The ring after a push: the new row, then the old ones, up to the cap. *)
LEMMA PushFrontRing ==
  ASSUME NEW row \in Rows, NEW ring \in Seq(Rows), Len(ring) <= ResolvedCap
  PROVE  /\ PushFront(row, ring) \in Seq(Rows)
         /\ Len(PushFront(row, ring)) <= ResolvedCap
         /\ \A k \in DOMAIN PushFront(row, ring) :
              \/ k = 1 /\ PushFront(row, ring)[k] = row
              \/ k - 1 \in DOMAIN ring /\ PushFront(row, ring)[k] = ring[k - 1]
  <1> DEFINE longer == <<row>> \o ring
  <1>1. longer \in Seq(Rows) /\ Len(longer) = Len(ring) + 1
    OBVIOUS
  <1>2. \A k \in 1 .. Len(longer) :
          \/ k = 1 /\ longer[k] = row
          \/ k - 1 \in DOMAIN ring /\ longer[k] = ring[k - 1]
    OBVIOUS
  <1>3. CASE Len(longer) > ResolvedCap
    <2>1. PushFront(row, ring) = SubSeq(longer, 1, ResolvedCap)
      BY <1>3 DEF PushFront
    <2>2. QED
      BY <1>1, <1>2, <1>3, <2>1, QueueAssumption
  <1>4. CASE ~(Len(longer) > ResolvedCap)
    <2>1. PushFront(row, ring) = longer
      BY <1>4 DEF PushFront
    <2>2. QED
      BY <1>1, <1>2, <1>4, <2>1, QueueAssumption
  <1>5. QED
    BY <1>3, <1>4

(* A function on 1 .. n is a sequence of length n. *)
LEMMA FunctionIsSeq ==
  ASSUME NEW T, NEW n \in Nat, NEW f \in [1 .. n -> T]
  PROVE  f \in Seq(T) /\ Len(f) = n
  <1>1. f \in Seq(T)
    BY SeqDef
  <1>2. DOMAIN f = 1 .. n /\ DOMAIN f = 1 .. Len(f) /\ Len(f) \in Nat
    BY <1>1, LenProperties
  <1>3. QED
    BY <1>1, <1>2

(* Warming a fresh ring with any rows keeps the first of them, up to the   *)
(* cap.                                                                    *)
LEMMA WarmedOf ==
  ASSUME NEW rows \in Seq(Rows)
  PROVE  /\ WarmedWith(rows, <<>>) \in Seq(Rows)
         /\ Len(WarmedWith(rows, <<>>)) <= ResolvedCap
         /\ \A k \in 1 .. Len(WarmedWith(rows, <<>>)) :
              k \in 1 .. Len(rows) /\ WarmedWith(rows, <<>>)[k] = rows[k]
  <1>1. <<>> \o rows = rows
    OBVIOUS
  <1>2. CASE Len(rows) > ResolvedCap
    <2>1. WarmedWith(rows, <<>>) = SubSeq(rows, 1, ResolvedCap)
      BY <1>1, <1>2 DEF WarmedWith
    <2>2. QED
      BY <1>2, <2>1, QueueAssumption
  <1>3. CASE ~(Len(rows) > ResolvedCap)
    <2>1. WarmedWith(rows, <<>>) = rows
      BY <1>1, <1>3 DEF WarmedWith
    <2>2. QED
      BY <1>3, <2>1, QueueAssumption
  <1>4. QED
    BY <1>2, <1>3

(* Warming a fresh ring keeps the rows as they are. *)
LEMMA WarmedRing ==
  ASSUME NEW rows \in PastTails
  PROVE  /\ WarmedWith(rows, <<>>) \in Seq(Rows)
         /\ Len(WarmedWith(rows, <<>>)) <= ResolvedCap
         /\ \A k \in DOMAIN WarmedWith(rows, <<>>) : WarmedWith(rows, <<>>)[k].req \in Past
         /\ \A j, k \in DOMAIN WarmedWith(rows, <<>>) :
              WarmedWith(rows, <<>>)[j].req = WarmedWith(rows, <<>>)[k].req => j = k
  <1>1. PICK n \in 0 .. ResolvedCap : rows \in [1 .. n -> [req : Past, verdict : Verdicts]]
    BY DEF PastTails
  <1>2. rows \in Seq([req : Past, verdict : Verdicts]) /\ Len(rows) = n
    <2>1. n \in Nat
      BY QueueAssumption
    <2>2. QED
      BY <1>1, <2>1, FunctionIsSeq
  <1>3. \A j, k \in DOMAIN rows : rows[j].req = rows[k].req => j = k
    BY DEF PastTails
  <1>4. <<>> \o rows = rows
    BY <1>2
  <1>5. WarmedWith(rows, <<>>) = rows
    BY <1>2, <1>4, QueueAssumption DEF WarmedWith
  <1>6. rows \in Seq(Rows)
    <2>1. [req : Past, verdict : Verdicts] \subseteq Rows
      BY DEF Rows
    <2>2. QED
      BY <1>2, <2>1, SeqMonotonic
  <1>7. QED
    BY <1>1, <1>2, <1>3, <1>5, <1>6, QueueAssumption

-----------------------------------------------------------------------------
(* A new queue satisfies the invariant. *)
LEMMA InitInv == QueueInit => QueueInv
  <1> SUFFICES ASSUME QueueInit PROVE QueueInv
    OBVIOUS
  <1> USE QueueAssumption
  <1>1. QueueTypeOK
    BY EmptySeq DEF QueueInit, QueueTypeOK
  <1>2. EntriesUnderOwnId /\ RaisedWereParked /\ OneBannerPerBurst
    BY DEF QueueInit, EntriesUnderOwnId, RaisedWereParked, OneBannerPerBurst
  <1>3. SenderHeldOnce
    BY DEF QueueInit, SenderHeldOnce, InMap, InHand, Delivered, HungUp
  <1>4. HistoryMatchesAnswer
    BY DEF QueueInit, HistoryMatchesAnswer
  <1>5. QED
    BY <1>1, <1>2, <1>3, <1>4 DEF QueueInv

(* Submitting keeps the invariant: the one request whose sender it can     *)
(* displace is the earlier one under the same id, which is hung up on.     *)
LEMMA SubmitInv ==
  ASSUME QueueInv, NEW r \in Requests, Submit(r)
  PROVE  QueueInv'
  <1> USE QueueAssumption DEF QueueInv, QueueTypeOK
  <1>1. QueueTypeOK'
    BY DEF Submit
  <1>2. EntriesUnderOwnId'
    BY DEF Submit, EntriesUnderOwnId
  <1>3. SenderHeldOnce'
    <2>1. ~InMap(r) /\ ~InHand(r) /\ ~Delivered(r) /\ ~HungUp(r) /\ calls[r] # "parked"
      BY DEF Submit, SenderHeldOnce
    <2>2. calls'[r] = "parked" /\ InMap(r)' /\ ~InHand(r)' /\ ~Delivered(r)' /\ ~HungUp(r)'
      BY <2>1 DEF Submit, InMap, InHand, Delivered, HungUp
    <2>3. ASSUME NEW q \in Requests, q # r, q # entries[IdOf[r]]
          PROVE  /\ calls'[q] = calls[q]
                 /\ InMap(q)' = InMap(q) /\ InHand(q)' = InHand(q)
                 /\ Delivered(q)' = Delivered(q) /\ HungUp(q)' = HungUp(q)
      BY <2>3 DEF Submit, InMap, InHand, Delivered, HungUp
    <2>4. ASSUME NEW q \in Requests, q = entries[IdOf[r]]
          PROVE  /\ calls'[q] = "parked"
                 /\ ~InMap(q)' /\ ~InHand(q)' /\ ~Delivered(q)' /\ HungUp(q)'
      <3>1. InMap(q) /\ IdOf[q] = IdOf[r] /\ q # r
        BY <2>1, <2>4 DEF EntriesUnderOwnId, InMap
      <3>2. calls[q] = "parked" /\ ~InHand(q) /\ ~Delivered(q)
        BY <3>1 DEF SenderHeldOnce
      <3>3. QED
        BY <2>4, <3>1, <3>2 DEF Submit, InMap, InHand, Delivered, HungUp
    <2>5. QED
      BY <2>2, <2>3, <2>4 DEF SenderHeldOnce
  <1>4. RaisedWereParked'
    BY DEF Submit, RaisedWereParked
  <1>5. OneBannerPerBurst'
    <2>1. CASE QueueEmpty
      <3>1. Pending' \subseteq {r}
        BY <2>1 DEF Submit, QueueEmpty, Pending
      <3>2. QED
        BY <3>1 DEF OneBannerPerBurst
    <2>2. CASE ~QueueEmpty
      <3>1. raised' = raised /\ r \notin raised
        BY <2>2 DEF Submit, RaisedWereParked
      <3>2. Pending' \subseteq Pending \cup {r}
        BY DEF Submit, Pending
      <3>3. QED
        BY <3>1, <3>2 DEF OneBannerPerBurst
    <2>3. QED
      BY <2>1, <2>2
  <1>6. HistoryMatchesAnswer'
    BY DEF Submit, HistoryMatchesAnswer, Answer
  <1>7. QED
    BY <1>1, <1>2, <1>3, <1>4, <1>5, <1>6

(* Resolving keeps the invariant: the request taken out of the map had no  *)
(* verdict and so no row in the history.                                   *)
LEMMA ResolveInv ==
  ASSUME QueueInv, NEW i \in Ids, NEW v \in Verdicts, Resolve(i, v)
  PROVE  QueueInv'
  <1> USE QueueAssumption DEF QueueInv, QueueTypeOK
  <1>1. PICK r \in Requests : r = entries[i] /\ IdOf[r] = i /\ InMap(r)
    BY DEF Resolve, EntriesUnderOwnId, InMap
  <1>2. calls[r] = "parked" /\ handoff[r] = NoVerdict /\ mail[r] = NoVerdict /\ r \notin hungup
    BY <1>1 DEF SenderHeldOnce, InHand, Delivered, HungUp
  <1>3. resolved' = PushFront(Row(r, v), resolved) /\ Row(r, v) \in Rows
    BY <1>1 DEF Resolve, Row, Rows
  <1>4. QueueTypeOK'
    BY <1>1, <1>3, PushFrontRing DEF Resolve
  <1>5. EntriesUnderOwnId'
    BY DEF Resolve, EntriesUnderOwnId
  <1>6. SenderHeldOnce'
    BY <1>1, <1>2 DEF Resolve, SenderHeldOnce, InMap, InHand, Delivered, HungUp
  <1>7. RaisedWereParked'
    BY DEF Resolve, RaisedWereParked
  <1>8. OneBannerPerBurst'
    <2>1. Pending' \subseteq Pending
      BY DEF Resolve, Pending
    <2>2. QED
      BY <2>1 DEF Resolve, OneBannerPerBurst
  <1>9. HistoryMatchesAnswer'
    <2>1. \A k \in DOMAIN resolved : resolved[k].req # r
      <3>1. \A k \in DOMAIN resolved : resolved[k] \in Rows
        BY LenProperties
      <3>2. \A k \in DOMAIN resolved : resolved[k].verdict # NoVerdict
        BY <3>1 DEF Rows
      <3>3. Answer(r) = NoVerdict
        BY <1>2 DEF Answer
      <3>4. QED
        BY <1>1, <1>2, <3>2, <3>3 DEF HistoryMatchesAnswer
    <2>2. \A k \in DOMAIN resolved' :
            \/ k = 1 /\ resolved'[k] = Row(r, v)
            \/ k - 1 \in DOMAIN resolved /\ resolved'[k] = resolved[k - 1]
      BY <1>3, PushFrontRing
    <2>3. \A q \in Requests : q # r => calls'[q] = calls[q] /\ Answer(q)' = Answer(q)
      BY <1>1 DEF Resolve, Answer
    <2>4. calls'[r] = "parked" /\ Answer(r)' = v
      <3>1. handoff'[r] = v /\ v # NoVerdict /\ calls' = calls
        BY <1>1 DEF Resolve
      <3>2. QED
        BY <1>2, <3>1 DEF Answer
    <2>5. ASSUME NEW k \in DOMAIN resolved', NEW q \in Requests, resolved'[k].req = q
          PROVE  /\ calls'[q] # "none"
                 /\ calls'[q] = "parked" => Answer(q)' = resolved'[k].verdict
      <3>1. CASE k = 1 /\ resolved'[k] = Row(r, v)
        BY <2>4, <2>5, <3>1 DEF Row
      <3>2. CASE k - 1 \in DOMAIN resolved /\ resolved'[k] = resolved[k - 1]
        BY <2>1, <2>3, <2>5, <3>2 DEF HistoryMatchesAnswer
      <3>3. QED
        BY <2>2, <3>1, <3>2
    <2>6. DOMAIN resolved \subseteq Nat /\ DOMAIN resolved' \subseteq Nat
      BY <1>4, LenProperties
    <2>7. ASSUME NEW j \in DOMAIN resolved', NEW k \in DOMAIN resolved',
                 resolved'[j].req = resolved'[k].req
          PROVE  j = k
      BY <2>1, <2>2, <2>6, <2>7 DEF HistoryMatchesAnswer, Row
    <2>8. QED
      BY <2>5, <2>7 DEF HistoryMatchesAnswer
  <1>10. QED
    BY <1>4, <1>5, <1>6, <1>7, <1>8, <1>9

(* Delivering keeps the invariant: a verdict moves, it does not change. *)
LEMMA DeliverInv ==
  ASSUME QueueInv, NEW r \in Requests, Deliver(r)
  PROVE  QueueInv'
  <1> USE QueueAssumption DEF QueueInv, QueueTypeOK
  <1>1. QueueTypeOK'
    BY DEF Deliver
  <1>2. EntriesUnderOwnId' /\ RaisedWereParked'
    BY DEF Deliver, EntriesUnderOwnId, RaisedWereParked
  <1>3. SenderHeldOnce'
    BY DEF Deliver, SenderHeldOnce, InMap, InHand, Delivered, HungUp
  <1>4. OneBannerPerBurst'
    <2>1. Pending' = Pending /\ raised' = raised
      BY DEF Deliver, Pending
    <2>2. QED
      BY <2>1 DEF OneBannerPerBurst
  <1>5. HistoryMatchesAnswer'
    <2>1. \A q \in Requests : Answer(q)' = Answer(q)
      BY DEF Deliver, Answer
    <2>2. QED
      BY <2>1 DEF Deliver, HistoryMatchesAnswer
  <1>6. QED
    BY <1>1, <1>2, <1>3, <1>4, <1>5

(* An automatic ruling keeps the invariant: its request had no row. *)
LEMMA RecordAutoInv ==
  ASSUME QueueInv, NEW r \in Requests, NEW v \in Verdicts, RecordAuto(r, v)
  PROVE  QueueInv'
  <1> USE QueueAssumption DEF QueueInv, QueueTypeOK
  <1>1. resolved' = PushFront(Row(r, v), resolved) /\ Row(r, v) \in Rows
    BY DEF RecordAuto, Row, Rows
  <1>2. QueueTypeOK'
    BY <1>1, PushFrontRing DEF RecordAuto
  <1>3. EntriesUnderOwnId' /\ RaisedWereParked'
    BY DEF RecordAuto, EntriesUnderOwnId, RaisedWereParked
  <1>4. SenderHeldOnce'
    BY DEF RecordAuto, SenderHeldOnce, InMap, InHand, Delivered, HungUp
  <1>5. OneBannerPerBurst'
    <2>1. Pending' = Pending /\ raised' = raised
      BY DEF RecordAuto, Pending
    <2>2. QED
      BY <2>1 DEF OneBannerPerBurst
  <1>6. HistoryMatchesAnswer'
    <2>1. \A k \in DOMAIN resolved : resolved[k].req # r
      BY DEF RecordAuto, HistoryMatchesAnswer
    <2>2. \A k \in DOMAIN resolved' :
            \/ k = 1 /\ resolved'[k] = Row(r, v)
            \/ k - 1 \in DOMAIN resolved /\ resolved'[k] = resolved[k - 1]
      BY <1>1, PushFrontRing
    <2>3. \A q \in Requests : q # r => calls'[q] = calls[q] /\ Answer(q)' = Answer(q)
      BY DEF RecordAuto, Answer
    <2>4. calls'[r] = "auto"
      BY DEF RecordAuto
    <2>5. ASSUME NEW k \in DOMAIN resolved', NEW q \in Requests, resolved'[k].req = q
          PROVE  /\ calls'[q] # "none"
                 /\ calls'[q] = "parked" => Answer(q)' = resolved'[k].verdict
      <3>1. CASE k = 1 /\ resolved'[k] = Row(r, v)
        BY <2>4, <2>5, <3>1 DEF Row
      <3>2. CASE k - 1 \in DOMAIN resolved /\ resolved'[k] = resolved[k - 1]
        BY <2>1, <2>3, <2>5, <3>2 DEF HistoryMatchesAnswer
      <3>3. QED
        BY <2>2, <3>1, <3>2
    <2>6. DOMAIN resolved \subseteq Nat /\ DOMAIN resolved' \subseteq Nat
      BY <1>2, LenProperties
    <2>7. ASSUME NEW j \in DOMAIN resolved', NEW k \in DOMAIN resolved',
                 resolved'[j].req = resolved'[k].req
          PROVE  j = k
      BY <2>1, <2>2, <2>6, <2>7 DEF HistoryMatchesAnswer, Row
    <2>8. QED
      BY <2>5, <2>7 DEF HistoryMatchesAnswer
  <1>7. QED
    BY <1>2, <1>3, <1>4, <1>5, <1>6

(* Cancelling keeps the invariant: whatever was in the map is hung up on. *)
LEMMA CancelAllInv ==
  ASSUME QueueInv, CancelAll
  PROVE  QueueInv'
  <1> USE QueueAssumption DEF QueueInv, QueueTypeOK
  <1>1. QueueTypeOK'
    BY EmptySeq DEF CancelAll, Pending
  <1>2. \A r \in Requests : ~InMap(r)'
    BY DEF CancelAll, InMap
  <1>3. EntriesUnderOwnId' /\ RaisedWereParked'
    BY DEF CancelAll, EntriesUnderOwnId, RaisedWereParked
  <1>4. SenderHeldOnce'
    BY <1>2 DEF CancelAll, SenderHeldOnce, InMap, InHand, Delivered, HungUp, Pending
  <1>5. OneBannerPerBurst'
    BY <1>2 DEF OneBannerPerBurst, Pending, InMap
  <1>6. HistoryMatchesAnswer'
    BY DEF CancelAll, HistoryMatchesAnswer
  <1>7. QED
    BY <1>1, <1>3, <1>4, <1>5, <1>6

(* Warming keeps the invariant: its rows are all of earlier runs. *)
LEMMA WarmInv ==
  ASSUME QueueInv, NEW rows \in PastTails, Warm(rows)
  PROVE  QueueInv'
  <1> USE QueueAssumption DEF QueueInv, QueueTypeOK
  <1>1. resolved' = WarmedWith(rows, <<>>)
    BY DEF Warm
  <1>2. QueueTypeOK'
    BY <1>1, WarmedRing DEF Warm
  <1>3. EntriesUnderOwnId' /\ RaisedWereParked'
    BY DEF Warm, EntriesUnderOwnId, RaisedWereParked
  <1>4. SenderHeldOnce'
    BY DEF Warm, SenderHeldOnce, InMap, InHand, Delivered, HungUp
  <1>5. OneBannerPerBurst'
    <2>1. Pending' = Pending /\ raised' = raised
      BY DEF Warm, Pending
    <2>2. QED
      BY <2>1 DEF OneBannerPerBurst
  <1>6. HistoryMatchesAnswer'
    BY <1>1, WarmedRing DEF HistoryMatchesAnswer
  <1>7. QED
    BY <1>2, <1>3, <1>4, <1>5, <1>6

(* The invariant reads nothing but the queue's variables. *)
LEMMA StutterInv ==
  ASSUME QueueInv, UNCHANGED queueVars
  PROVE  QueueInv'
  BY DEF queueVars, QueueInv, QueueTypeOK, EntriesUnderOwnId, SenderHeldOnce, RaisedWereParked,
         OneBannerPerBurst, HistoryMatchesAnswer, Pending, Answer, InMap, InHand, Delivered, HungUp

(* The invariant is inductive. *)
LEMMA StepInv == QueueInv /\ [QueueNext]_queueVars => QueueInv'
  <1> SUFFICES ASSUME QueueInv, [QueueNext]_queueVars PROVE QueueInv'
    OBVIOUS
  <1>1. ASSUME NEW r \in Requests, Submit(r) PROVE QueueInv'
    BY <1>1, SubmitInv
  <1>2. ASSUME NEW i \in Ids, NEW v \in Verdicts, Resolve(i, v) PROVE QueueInv'
    BY <1>2, ResolveInv
  <1>3. ASSUME NEW r \in Requests, Deliver(r) PROVE QueueInv'
    BY <1>3, DeliverInv
  <1>4. ASSUME NEW r \in Requests, NEW v \in Verdicts, RecordAuto(r, v) PROVE QueueInv'
    BY <1>4, RecordAutoInv
  <1>5. CASE CancelAll
    BY <1>5, CancelAllInv
  <1>6. ASSUME NEW rows \in PastTails, Warm(rows) PROVE QueueInv'
    BY <1>6, WarmInv
  <1>7. CASE UNCHANGED queueVars
    BY <1>7, StutterInv
  <1>8. QED
    BY <1>1, <1>2, <1>3, <1>4, <1>5, <1>6, <1>7 DEF QueueNext

(* The invariant that carries every theorem below. *)
THEOREM QueueInvariant == QueueSpec => []QueueInv
  <1>1. QED
    BY InitInv, StepInv, PTL DEF QueueSpec

-----------------------------------------------------------------------------
(* The map, the channels and the ring keep their shape, and the history    *)
(* never grows past its cap, whatever is submitted, resolved or warmed.    *)
THEOREM QueueTypeCorrect == QueueSpec => []QueueTypeOK
  <1>1. QueueInv => QueueTypeOK
    BY DEF QueueInv
  <1>2. QED
    BY <1>1, QueueInvariant, PTL

(* No worker is ever left on a channel nobody can write to, and none is    *)
(* answered twice: its sender is in exactly one place.                     *)
THEOREM SenderSafe == QueueSpec => []SenderHeldOnce
  <1>1. QueueInv => SenderHeldOnce
    BY DEF QueueInv
  <1>2. QED
    BY <1>1, QueueInvariant, PTL

(* The Recent list never shows a verdict other than the worker's, nor the  *)
(* same request twice.                                                     *)
THEOREM HistoryTruthful == QueueSpec => []HistoryMatchesAnswer
  <1>1. QueueInv => HistoryMatchesAnswer
    BY DEF QueueInv
  <1>2. QED
    BY <1>1, QueueInvariant, PTL

(* At most one of the requests pending together raised the banner. *)
THEOREM BannerOnce == QueueSpec => []OneBannerPerBurst
  <1>1. QueueInv => OneBannerPerBurst
    BY DEF QueueInv
  <1>2. QED
    BY <1>1, QueueInvariant, PTL

(* A verdict that left the map is final. *)
THEOREM FirstApproverWins == QueueSpec => FirstVerdictWins
  <1> DEFINE Final == \A r \in Requests : Answer(r) # NoVerdict => Answer(r)' = Answer(r)
  <1>1. QueueInv /\ [QueueNext]_queueVars => Final \/ UNCHANGED queueVars
    <2> SUFFICES ASSUME QueueInv, QueueNext, NEW r \in Requests, Answer(r) # NoVerdict
                 PROVE  Answer(r)' = Answer(r)
      OBVIOUS
    <2> USE QueueAssumption DEF QueueInv, QueueTypeOK
    <2>1. ASSUME NEW q \in Requests, Submit(q) PROVE Answer(r)' = Answer(r)
      BY <2>1 DEF Submit, Answer
    <2>2. ASSUME NEW i \in Ids, NEW v \in Verdicts, Resolve(i, v) PROVE Answer(r)' = Answer(r)
      <3>1. ~InMap(r)
        BY DEF SenderHeldOnce, InHand, Delivered, Answer
      <3>2. entries[i] # r
        BY <2>2, <3>1 DEF Resolve, EntriesUnderOwnId, InMap
      <3>3. QED
        BY <2>2, <3>2 DEF Resolve, Answer
    <2>3. ASSUME NEW q \in Requests, Deliver(q) PROVE Answer(r)' = Answer(r)
      BY <2>3 DEF Deliver, Answer
    <2>4. ASSUME NEW q \in Requests, NEW v \in Verdicts, RecordAuto(q, v)
          PROVE  Answer(r)' = Answer(r)
      BY <2>4 DEF RecordAuto, Answer
    <2>5. CASE CancelAll
      BY <2>5 DEF CancelAll, Answer
    <2>6. ASSUME NEW rows \in PastTails, Warm(rows) PROVE Answer(r)' = Answer(r)
      BY <2>6 DEF Warm, Answer
    <2>7. QED
      BY <2>1, <2>2, <2>3, <2>4, <2>5, <2>6 DEF QueueNext
  <1>2. QueueInv /\ [QueueNext]_queueVars => [Final]_queueVars
    BY <1>1
  <1>3. QED
    BY <1>2, QueueInvariant, PTL DEF QueueSpec, FirstVerdictWins
=============================================================================
