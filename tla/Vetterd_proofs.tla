--------------------------- MODULE Vetterd_proofs ---------------------------
(***************************************************************************)
(* The daemon implements the gate, for every set of requests, rules and    *)
(* writers, every cap and every number of restarts: no command runs unless *)
(* one ruling allowed it and was on record first, and a command the parser *)
(* or the denylist rejects never runs.                                     *)
(*                                                                         *)
(* The mapping needs an invariant of the connection workers.  A worker has *)
(* no verdict until it evaluates its request or is woken; the request it   *)
(* puts to a human is not a barred one, so no approver can allow such a    *)
(* request; and what is on the wire is the worker's own verdict, already   *)
(* on record (Sound).                                                      *)
(***************************************************************************)
EXTENDS Vetterd, FiniteSetTheorems, TLAPS

Places == {"none", "backlog", "read", "auto", "submit", "parked", "audit", "reply", "leave",
           "ended"}

Barred   == (Denied \ DryRun) \cup Unparseable
Recorded == {row.req : row \in tried}

GateTypeOK ==
  /\ entries \in [Requests -> Requests \cup {NoRequest}]
  /\ handoff \in [Requests -> Verdicts \cup {NoVerdict}]
  /\ mail    \in [Requests -> Verdicts \cup {NoVerdict}]
  /\ worker  \in [Requests -> Places]
  /\ said    \in [Requests -> Verdicts \cup {NoVerdict}]
  /\ wire    \in [Requests -> {"empty", "allow", "deny", "eof"}]
  /\ client  \in [Requests -> {"new", "asking", "ran", "denied", "failed", "gone"}]

Sound(r) ==
  /\ worker[r] \in {"none", "backlog", "read", "submit", "parked"} => said[r] = NoVerdict
  /\ worker[r] \in {"submit", "parked"} => r \notin Barred
  /\ worker[r] \in {"auto", "audit", "reply"} => said[r] \in Verdicts
  /\ said[r].decision = "allow" => r \notin Barred
  /\ worker[r] = "reply" => r \in Recorded
  /\ wire[r] = "allow" => said[r].decision = "allow" /\ r \in Recorded
  /\ client[r] = "new" => worker[r] = "none"

GateInv == GateTypeOK /\ \A r \in Requests : Sound(r)

-----------------------------------------------------------------------------
(* Verdicts allow or deny; the absence of one does neither. *)
LEMMA VerdictFacts ==
  /\ \A v \in Verdicts : v.decision \in {"allow", "deny"}
  /\ NoVerdict.decision = "none"
  /\ NoVerdict \notin Verdicts
  /\ \A d \in {"allow", "deny"} : Verdict(d, "approver") \in Verdicts
  /\ Verdict("allow", "newrule") \in Verdicts
  /\ Verdict("deny", "shutdown") \in Verdicts /\ Verdict("deny", "shutdown").decision = "deny"
  <1>1. \A v \in Verdicts : v.decision \in {"allow", "deny"}
    BY DEF Verdicts, Verdict
  <1>2. NoVerdict.decision = "none"
    BY DEF NoVerdict
  <1>3. NoVerdict \notin Verdicts
    BY <1>1, <1>2
  <1>4. \A d \in {"allow", "deny"} : Verdict(d, "approver") \in Verdicts
    BY DEF Verdicts
  <1>5. Verdict("allow", "newrule") \in Verdicts /\ Verdict("deny", "shutdown") \in Verdicts
    BY DEF Verdicts
  <1>6. Verdict("deny", "shutdown").decision = "deny"
    BY DEF Verdict
  <1>7. QED
    BY <1>1, <1>2, <1>3, <1>4, <1>5, <1>6

(* The matcher never allows a barred request, and asks about none. *)
LEMMA RulingFacts ==
  ASSUME NEW r \in Requests
  PROVE  /\ Ruling(r) \in Verdicts \cup {NoVerdict}
         /\ r \in Barred => Ruling(r) \in Verdicts /\ Ruling(r).decision = "deny"
         /\ r \in Unparseable => Ruling(r) \in Verdicts
  <1> DEFINE d == S!Decide(live, r)
  <1>1. d \in {"deny", "prompt", "allow"} /\ (r \in Denied => d = "deny")
    BY DEF S!Decide
  <1>2. CASE r \in Unparseable
    <2>1. Ruling(r) = Verdict("deny", "parse")
      BY <1>2 DEF Ruling
    <2>2. QED
      BY <2>1 DEF Verdicts, Verdict
  <1>3. CASE r \notin Unparseable /\ (r \in DryRun \/ d = "prompt")
    <2>1. Ruling(r) = NoVerdict
      BY <1>3 DEF Ruling
    <2>2. r \notin Barred
      BY <1>1, <1>3 DEF Barred
    <2>3. QED
      BY <1>3, <2>1, <2>2
  <1>4. CASE r \notin Unparseable \cup DryRun /\ d = "allow"
    <2>1. Ruling(r) = Verdict("allow", "rule")
      BY <1>4 DEF Ruling
    <2>2. r \notin Barred
      BY <1>1, <1>4 DEF Barred
    <2>3. QED
      BY <1>4, <2>1, <2>2 DEF Verdicts, Verdict
  <1>5. CASE r \notin Unparseable \cup DryRun /\ d = "deny"
    <2>1. Ruling(r) = Verdict("deny", "denylist")
      BY <1>5 DEF Ruling
    <2>2. QED
      BY <1>5, <2>1 DEF Verdicts, Verdict
  <1>6. QED
    BY <1>1, <1>2, <1>3, <1>4, <1>5

(* Before the first daemon. *)
LEMMA InitInv == VetterdInit => GateInv
  <1> SUFFICES ASSUME VetterdInit PROVE GateInv
    OBVIOUS
  <1>1. GateTypeOK
    BY DEF VetterdInit, Q!QueueInit, GateTypeOK, Places
  <1>2. ASSUME NEW r \in Requests PROVE Sound(r)
    <2>1. worker[r] = "none" /\ said[r] = NoVerdict /\ wire[r] = "empty"
      BY DEF VetterdInit
    <2>2. QED
      BY <2>1, VerdictFacts DEF Sound
  <1>3. QED
    BY <1>1, <1>2 DEF GateInv

(* A request nothing happens to. *)
LEMMA SoundKept ==
  ASSUME NEW r \in Requests, Sound(r), tried \subseteq tried',
         worker'[r] = worker[r], said'[r] = said[r], wire'[r] = wire[r],
         client'[r] = "new" => client[r] = "new"
  PROVE  Sound(r)'
  BY DEF Sound, Recorded

-----------------------------------------------------------------------------
(* Steps that leave the connections, the queue and the log alone. *)
LEMMA AsideInv ==
  ASSUME GateInv, UNCHANGED <<queueVars, auditVars, connVars>>
  PROVE  GateInv'
  <1>1. UNCHANGED <<entries, handoff, mail, tried, worker, said, wire, client>>
    BY DEF queueVars, auditVars, connVars
  <1>2. QED
    BY <1>1 DEF GateInv, GateTypeOK, Sound, Recorded

(* Steps of the queue: what a worker may be told is a verdict. *)
LEMMA QueueInv ==
  ASSUME GateInv, UNCHANGED <<auditVars, connVars>>,
         \/ \E r \in Requests, v \in Verdicts : Q!Resolve(r, v)
         \/ \E r \in Requests : Q!Deliver(r)
         \/ Q!CancelAll
  PROVE  GateInv'
  <1>1. UNCHANGED <<tried, worker, said, wire, client>>
    BY DEF auditVars, connVars
  <1>2. \A r \in Requests : Sound(r)'
    BY <1>1 DEF GateInv, Sound, Recorded
  <1>3. /\ entries' \in [Requests -> Requests \cup {NoRequest}]
        /\ handoff' \in [Requests -> Verdicts \cup {NoVerdict}]
        /\ mail'    \in [Requests -> Verdicts \cup {NoVerdict}]
    <2>1. ASSUME NEW r \in Requests, NEW v \in Verdicts, Q!Resolve(r, v)
          PROVE  <1>3!1 /\ <1>3!2 /\ <1>3!3
      <3>1. /\ entries' = [entries EXCEPT ![r] = NoRequest]
            /\ handoff' = [handoff EXCEPT ![entries[r]] = v] /\ mail' = mail
        BY <2>1 DEF Q!Resolve
      <3>2. QED
        BY <3>1 DEF GateInv, GateTypeOK
    <2>2. ASSUME NEW r \in Requests, Q!Deliver(r)
          PROVE  <1>3!1 /\ <1>3!2 /\ <1>3!3
      <3>1. /\ mail' = [mail EXCEPT ![r] = handoff[r]]
            /\ handoff' = [handoff EXCEPT ![r] = NoVerdict] /\ entries' = entries
        BY <2>2 DEF Q!Deliver
      <3>2. QED
        BY <3>1 DEF GateInv, GateTypeOK
    <2>3. CASE Q!CancelAll
      BY <2>3 DEF Q!CancelAll, GateInv, GateTypeOK
    <2>4. QED
      BY <2>1, <2>2, <2>3
  <1>4. QED
    BY <1>1, <1>2, <1>3 DEF GateInv, GateTypeOK

(* A step that moves one worker, and what it has to leave behind. *)
LEMMA WorkerInv ==
  ASSUME GateInv, NEW r \in Requests, NEW to \in Places,
         NEW v \in Verdicts \cup {NoVerdict}, NEW w \in {"empty", "allow", "deny", "eof"},
         worker' = [worker EXCEPT ![r] = to],
         said' = [said EXCEPT ![r] = v],
         wire' = [wire EXCEPT ![r] = w],
         tried \subseteq tried',
         entries' \in [Requests -> Requests \cup {NoRequest}],
         handoff' = handoff, mail' = mail, client' = client, worker[r] # "none",
         to \in {"none", "backlog", "read", "submit", "parked"} => v = NoVerdict,
         to \in {"submit", "parked"} => r \notin Barred,
         to \in {"auto", "audit", "reply"} => v \in Verdicts,
         v.decision = "allow" => r \notin Barred,
         to = "reply" => r \in Recorded',
         w = "allow" => v.decision = "allow" /\ r \in Recorded'
  PROVE  GateInv'
  <1>1. GateTypeOK'
    BY DEF GateInv, GateTypeOK
  <1>2. worker'[r] = to /\ said'[r] = v /\ wire'[r] = w /\ client'[r] # "new"
    BY DEF GateInv, GateTypeOK, Sound
  <1>3. Sound(r)'
    BY <1>2 DEF Sound
  <1>4. ASSUME NEW q \in Requests, q # r PROVE Sound(q)'
    <2>1. worker'[q] = worker[q] /\ said'[q] = said[q] /\ wire'[q] = wire[q]
      BY <1>4 DEF GateInv, GateTypeOK
    <2>2. QED
      BY <2>1, SoundKept DEF GateInv
  <1>5. QED
    BY <1>1, <1>3, <1>4 DEF GateInv

(* One that leaves the verdict, the wire, the queue and the log alone. *)
LEMMA PlaceInv ==
  ASSUME GateInv, NEW r \in Requests, NEW to \in Places,
         worker' = [worker EXCEPT ![r] = to],
         UNCHANGED <<said, wire, client, tried, entries, handoff, mail>>, worker[r] # "none",
         to \in {"none", "backlog", "read", "submit", "parked"} => said[r] = NoVerdict,
         to \in {"submit", "parked"} => r \notin Barred,
         to \in {"auto", "audit", "reply"} => said[r] \in Verdicts,
         to = "reply" => r \in Recorded
  PROVE  GateInv'
  <1>1. GateTypeOK'
    BY DEF GateInv, GateTypeOK
  <1>2. worker'[r] = to /\ client'[r] # "new"
    BY DEF GateInv, GateTypeOK, Sound
  <1>3. Sound(r)'
    BY <1>2 DEF Sound, GateInv, Recorded
  <1>4. ASSUME NEW q \in Requests, q # r PROVE Sound(q)'
    <2>1. worker'[q] = worker[q]
      BY <1>4 DEF GateInv, GateTypeOK
    <2>2. QED
      BY <2>1, SoundKept DEF GateInv
  <1>5. QED
    BY <1>1, <1>3, <1>4 DEF GateInv

-----------------------------------------------------------------------------
(* A client connects, reads its answer or leaves. *)
LEMMA ClientInv ==
  ASSUME GateInv, NEW r \in Requests, Connect(r) \/ ClientReads(r) \/ ClientLeaves(r)
  PROVE  GateInv'
  <1> DEFINE States == {"new", "asking", "ran", "denied", "failed", "gone"}
  <1>1. ASSUME NEW c \in States, c # "new", client' = [client EXCEPT ![r] = c],
               UNCHANGED <<worker, said, wire, tried, entries, handoff, mail>>
        PROVE  GateInv'
    <2>1. GateTypeOK'
      BY <1>1 DEF GateInv, GateTypeOK
    <2>2. ASSUME NEW q \in Requests PROVE Sound(q)'
      <3>1. client'[q] = "new" => client[q] = "new"
        BY <1>1 DEF GateInv, GateTypeOK
      <3>2. QED
        BY <1>1, <3>1, SoundKept DEF GateInv
    <2>3. QED
      BY <2>1, <2>2 DEF GateInv
  <1>2. CASE ClientReads(r)
    <2>1. UNCHANGED <<worker, said, wire, tried, entries, handoff, mail>>
      BY <1>2 DEF ClientReads, queueVars, auditVars
    <2>2. /\ wire[r] \in {"allow", "deny", "eof"}
          /\ client' = [client EXCEPT ![r] = CASE wire[r] = "allow" -> "ran"
                                               [] wire[r] = "deny"  -> "denied"
                                               [] wire[r] = "eof"   -> "failed"]
      BY <1>2 DEF ClientReads, GateInv, GateTypeOK
    <2>3. PICK c \in {"ran", "denied", "failed"} : client' = [client EXCEPT ![r] = c]
      BY <2>2
    <2>4. QED
      BY <1>1, <2>1, <2>3
  <1>3. CASE ClientLeaves(r)
    BY <1>1, <1>3 DEF ClientLeaves, queueVars, auditVars
  <1>4. CASE Connect(r)
    <2>1. client[r] = "new" /\ UNCHANGED <<said, wire, tried, entries, handoff, mail>>
      BY <1>4 DEF Connect, queueVars, auditVars
    <2>2. CASE ~(Running /\ acceptor # "stopped")
      <3>1. client' = [client EXCEPT ![r] = "failed"] /\ worker' = worker
        BY <1>4, <2>2 DEF Connect
      <3>2. QED
        BY <1>1, <2>1, <3>1
    <2>3. CASE Running /\ acceptor # "stopped"
      <3>1. /\ client' = [client EXCEPT ![r] = "asking"]
            /\ worker' = [worker EXCEPT ![r] = "backlog"]
        BY <1>4, <2>3 DEF Connect
      <3>2. GateTypeOK'
        BY <2>1, <3>1 DEF GateInv, GateTypeOK, Places
      <3>3. Sound(r) /\ worker[r] = "none"
        BY <2>1 DEF GateInv, Sound
      <3>4. worker'[r] = "backlog" /\ client'[r] = "asking"
        BY <3>1 DEF GateInv, GateTypeOK
      <3>5. Sound(r)'
        BY <2>1, <3>3, <3>4 DEF Sound, Recorded
      <3>6. ASSUME NEW q \in Requests, q # r PROVE Sound(q)'
        <4>1. worker'[q] = worker[q] /\ client'[q] = client[q]
          BY <3>1, <3>6 DEF GateInv, GateTypeOK
        <4>2. QED
          BY <2>1, <4>1, SoundKept DEF GateInv
      <3>7. QED
        BY <3>2, <3>5, <3>6 DEF GateInv
    <2>4. QED
      BY <2>2, <2>3
  <1>5. QED
    BY <1>2, <1>3, <1>4

(* With the listener goes what was queued on it, and nothing else. *)
LEMMA DropFacts ==
  ASSUME GateInv, DropListener
  PROVE  /\ UNCHANGED <<entries, handoff, mail, hungup, resolved, tried, log, said, client, inflight>>
         /\ worker' \in [Requests -> Places]
         /\ wire' \in [Requests -> {"empty", "allow", "deny", "eof"}]
         /\ \A q \in Requests :
              \/ worker[q] # "backlog" /\ worker'[q] = worker[q] /\ wire'[q] = wire[q]
              \/ worker[q] = "backlog" /\ worker'[q] = "ended" /\ wire'[q] = "eof"
  BY DEF DropListener, queueVars, auditVars, GateInv, GateTypeOK, Places

LEMMA DropInv ==
  ASSUME GateInv, DropListener
  PROVE  GateInv'
  <1>1. GateTypeOK'
    BY DropFacts DEF GateInv, GateTypeOK
  <1>2. ASSUME NEW q \in Requests PROVE Sound(q)'
    <2>1. Sound(q) /\ UNCHANGED <<said, client, tried>>
      BY DropFacts DEF GateInv
    <2>2. CASE worker'[q] = worker[q] /\ wire'[q] = wire[q]
      BY <2>1, <2>2, SoundKept
    <2>3. CASE worker[q] = "backlog" /\ worker'[q] = "ended" /\ wire'[q] = "eof"
      BY <2>1, <2>3, VerdictFacts DEF Sound
    <2>4. QED
      BY <2>2, <2>3, DropFacts
  <1>3. QED
    BY <1>1, <1>2 DEF GateInv

(* A connection gets a worker or is dropped at the cap. *)
LEMMA AcceptInv ==
  ASSUME GateInv, NEW r \in Requests, Accept(r)
  PROVE  GateInv'
  <1>1. worker[r] = "backlog" /\ UNCHANGED <<said, client, tried, entries, handoff, mail>>
    BY DEF Accept, queueVars, auditVars
  <1>2. said[r] = NoVerdict
    BY <1>1 DEF GateInv, Sound
  <1>3. said' = [said EXCEPT ![r] = NoVerdict] /\ entries' \in [Requests -> Requests \cup {NoRequest}]
    BY <1>1, <1>2 DEF GateInv, GateTypeOK
  <1>4. CASE inflight >= MaxInflight
    <2>1. wire' = [wire EXCEPT ![r] = "eof"] /\ worker' = [worker EXCEPT ![r] = "ended"]
      BY <1>4 DEF Accept
    <2>2. QED
      BY <1>1, <1>3, <2>1, VerdictFacts, WorkerInv DEF Places
  <1>5. CASE ~(inflight >= MaxInflight)
    <2>1. wire' = wire /\ worker' = [worker EXCEPT ![r] = "read"]
      BY <1>5 DEF Accept
    <2>2. QED
      BY <1>1, <1>2, <1>3, <2>1, PlaceInv DEF Places
  <1>6. QED
    BY <1>4, <1>5

(* A worker rules, or decides to ask. *)
LEMMA EvaluateInv ==
  ASSUME GateInv, NEW r \in Requests, Evaluate(r)
  PROVE  GateInv'
  <1> DEFINE to == IF r \in Unparseable THEN "audit"
                   ELSE IF Ruling(r) = NoVerdict THEN "submit" ELSE "auto"
             v  == Ruling(r)
  <1>1. /\ worker[r] = "read" /\ worker' = [worker EXCEPT ![r] = to]
        /\ said' = [said EXCEPT ![r] = v]
        /\ UNCHANGED <<wire, client, tried, entries, handoff, mail>>
    BY DEF Evaluate, Step, queueVars, auditVars
  <1>2. said[r] = NoVerdict /\ wire[r] # "allow"
    BY <1>1, VerdictFacts DEF GateInv, Sound
  <1>3. /\ wire' = [wire EXCEPT ![r] = wire[r]] /\ wire[r] \in {"empty", "deny", "eof"}
        /\ entries' \in [Requests -> Requests \cup {NoRequest}]
    BY <1>1, <1>2 DEF GateInv, GateTypeOK
  <1>4. /\ v \in Verdicts \cup {NoVerdict}
        /\ r \in Barred => v \in Verdicts /\ v.decision = "deny"
        /\ r \in Unparseable => v \in Verdicts
    BY RulingFacts
  <1>5. /\ to \in {"audit", "submit", "auto"}
        /\ to = "submit" => v = NoVerdict /\ r \notin Barred
        /\ to \in {"auto", "audit"} => v \in Verdicts
    BY <1>4, VerdictFacts
  <1> HIDE DEF to, v
  <1>6. v.decision = "allow" => r \notin Barred
    BY <1>4
  <1>7. QED
    BY <1>1, <1>3, <1>4, <1>5, <1>6, WorkerInv DEF Places

(* A parked worker gets its verdict, or a denial from a closed channel. *)
LEMMA WakeInv ==
  ASSUME GateInv, NEW r \in Requests, Wake(r)
  PROVE  GateInv'
  <1> DEFINE v == IF mail[r] # NoVerdict THEN mail[r] ELSE Verdict("deny", "shutdown")
  <1>1. /\ worker[r] = "parked" /\ worker' = [worker EXCEPT ![r] = "audit"]
        /\ said' = [said EXCEPT ![r] = v]
        /\ UNCHANGED <<wire, client, tried, entries, handoff, mail>>
    BY DEF Wake, Step, queueVars, auditVars
  <1>2. said[r] = NoVerdict /\ wire[r] # "allow" /\ r \notin Barred
    BY <1>1, VerdictFacts DEF GateInv, Sound
  <1>3. /\ wire' = [wire EXCEPT ![r] = wire[r]] /\ wire[r] \in {"empty", "deny", "eof"}
        /\ entries' \in [Requests -> Requests \cup {NoRequest}]
    BY <1>1, <1>2 DEF GateInv, GateTypeOK
  <1>4. v \in Verdicts
    BY VerdictFacts DEF GateInv, GateTypeOK
  <1> HIDE DEF v
  <1>5. QED
    BY <1>1, <1>2, <1>3, <1>4, WorkerInv DEF Places

(* A row is handed to the log. *)
LEMMA AppendInv ==
  ASSUME GateInv, NEW r \in Requests, AppendRow(r)
  PROVE  GateInv' /\ tried' = tried \cup {AuditRow(r)}
  <1>1. /\ worker[r] = "audit" /\ worker' = [worker EXCEPT ![r] = "reply"]
        /\ UNCHANGED <<said, wire, client, entries, handoff, mail>>
    BY DEF AppendRow, Step, queueVars
  <1>2. tried' = tried \cup {AuditRow(r)}
    BY DEF AppendRow, A!AppendOk, A!AppendFails
  <1>3. said[r] \in Verdicts
    BY <1>1 DEF GateInv, Sound
  <1>4. r \in Recorded'
    <2>1. AuditRow(r) \in tried' /\ AuditRow(r).req = r
      BY <1>2 DEF AuditRow
    <2>2. QED
      BY <2>1 DEF Recorded
  <1>5. /\ said' = [said EXCEPT ![r] = said[r]] /\ wire' = [wire EXCEPT ![r] = wire[r]]
        /\ wire[r] \in {"empty", "allow", "deny", "eof"}
        /\ entries' \in [Requests -> Requests \cup {NoRequest}]
    BY <1>1 DEF GateInv, GateTypeOK
  <1>6. said[r].decision = "allow" => r \notin Barred
    BY DEF GateInv, Sound
  <1>7. wire[r] = "allow" => said[r].decision = "allow"
    BY DEF GateInv, Sound
  <1> DEFINE v == said[r]
             w == wire[r]
  <1> HIDE DEF v, w
  <1>8. /\ v \in Verdicts /\ said' = [said EXCEPT ![r] = v] /\ wire' = [wire EXCEPT ![r] = w]
        /\ w \in {"empty", "allow", "deny", "eof"}
        /\ v.decision = "allow" => r \notin Barred
        /\ w = "allow" => v.decision = "allow" /\ r \in Recorded'
    BY <1>3, <1>4, <1>5, <1>6, <1>7 DEF v, w
  <1>9. QED
    BY <1>1, <1>2, <1>4, <1>5, <1>8, WorkerInv DEF Places

(* A decision goes out, after its row. *)
LEMMA ReplyInv ==
  ASSUME GateInv, NEW r \in Requests, Reply(r)
  PROVE  GateInv'
  <1> DEFINE w == said[r].decision
  <1>1. /\ worker[r] = "reply" /\ worker' = [worker EXCEPT ![r] = "leave"]
        /\ wire' = [wire EXCEPT ![r] = w]
        /\ UNCHANGED <<said, client, tried, entries, handoff, mail>>
    BY DEF Reply, Step, queueVars, auditVars
  <1>2. /\ said[r] \in Verdicts /\ r \in Recorded
        /\ said[r].decision = "allow" => r \notin Barred
    BY <1>1 DEF GateInv, Sound
  <1>3. w \in {"allow", "deny"}
    BY <1>2, VerdictFacts
  <1>4. /\ said' = [said EXCEPT ![r] = said[r]] /\ r \in Recorded'
        /\ entries' \in [Requests -> Requests \cup {NoRequest}]
    BY <1>1, <1>2 DEF GateInv, GateTypeOK, Recorded
  <1>5. QED
    BY <1>1, <1>2, <1>3, <1>4, WorkerInv DEF Places

(* The other steps of a worker. *)
LEMMA OtherWorkerInv ==
  ASSUME GateInv, NEW r \in Requests,
         ReadFails(r) \/ RecordRuling(r) \/ SubmitPrompt(r) \/ Leave(r)
  PROVE  GateInv'
  <1> USE DEF GateInv, GateTypeOK
  <1>0. Sound(r)
    OBVIOUS
  <1>1. CASE ReadFails(r)
    <2>1. /\ worker[r] = "read" /\ worker' = [worker EXCEPT ![r] = "leave"]
          /\ wire' = [wire EXCEPT ![r] = "eof"]
          /\ UNCHANGED <<said, client, tried, entries, handoff, mail>>
      BY <1>1 DEF ReadFails, Step, queueVars, auditVars
    <2>2. said' = [said EXCEPT ![r] = said[r]]
      BY <2>1
    <2>3. said[r].decision = "allow" => r \notin Barred
      BY <1>0 DEF Sound
    <2>4. QED
      BY <2>1, <2>2, <2>3, WorkerInv DEF Places
  <1>2. CASE RecordRuling(r)
    <2>1. /\ worker[r] = "auto" /\ worker' = [worker EXCEPT ![r] = "audit"]
          /\ UNCHANGED <<said, wire, client, tried, entries, handoff, mail>>
      BY <1>2 DEF RecordRuling, Step, Q!RecordAuto, auditVars
    <2>2. said[r] \in Verdicts
      BY <1>0, <2>1 DEF Sound
    <2>3. QED
      BY <2>1, <2>2, PlaceInv DEF Places
  <1>3. CASE SubmitPrompt(r)
    <2>1. /\ worker[r] = "submit" /\ worker' = [worker EXCEPT ![r] = "parked"]
          /\ entries' = [entries EXCEPT ![r] = r]
          /\ UNCHANGED <<said, wire, client, tried, handoff, mail>>
      BY <1>3 DEF SubmitPrompt, Step, Q!Submit, auditVars
    <2>2. said[r] = NoVerdict /\ r \notin Barred /\ wire[r] # "allow"
      BY <1>0, <2>1, VerdictFacts DEF Sound
    <2>3. said' = [said EXCEPT ![r] = NoVerdict] /\ wire' = [wire EXCEPT ![r] = wire[r]]
          /\ entries' \in [Requests -> Requests \cup {NoRequest}]
      BY <2>1, <2>2
    <2> DEFINE v == NoVerdict
               w == wire[r]
    <2> HIDE DEF v, w
    <2>4. /\ v = NoVerdict /\ v \notin Verdicts /\ v.decision # "allow"
          /\ said' = [said EXCEPT ![r] = v] /\ wire' = [wire EXCEPT ![r] = w]
          /\ w \in {"empty", "deny", "eof"}
      BY <2>2, <2>3, VerdictFacts DEF v, w
    <2>5. QED
      BY <2>1, <2>2, <2>3, <2>4, WorkerInv DEF Places
  <1>4. CASE Leave(r)
    <2>1. /\ worker[r] = "leave" /\ worker' = [worker EXCEPT ![r] = "ended"]
          /\ UNCHANGED <<said, wire, client, tried, entries, handoff, mail>>
      BY <1>4 DEF Leave, Step, queueVars, auditVars
    <2>2. QED
      BY <2>1, PlaceInv DEF Places
  <1>5. QED
    BY <1>1, <1>2, <1>3, <1>4

(* A daemon ends, by exit or kill, and another starts. *)
LEMMA ProcessInv ==
  ASSUME GateInv, ProcessEnds \/ Start
  PROVE  GateInv'
  <1> USE DEF GateInv, GateTypeOK
  <1>1. CASE ProcessEnds
    <2>1. /\ entries' = [r \in Requests |-> NoRequest]
          /\ handoff' = [r \in Requests |-> NoVerdict] /\ mail' = [r \in Requests |-> NoVerdict]
          /\ worker' = [r \in Requests |-> IF worker[r] = "none" THEN "none" ELSE "ended"]
          /\ wire' = [r \in Requests |-> IF worker[r] # "none" /\ wire[r] = "empty" THEN "eof"
                                         ELSE wire[r]]
          /\ UNCHANGED <<tried, said, client>>
      BY <1>1 DEF ProcessEnds, auditVars
    <2>2. GateTypeOK'
      BY <2>1 DEF Places
    <2>3. ASSUME NEW r \in Requests PROVE Sound(r)'
      <3>1. /\ worker'[r] \in {"none", "ended"} /\ (worker'[r] = "none" => worker[r] = "none")
            /\ said'[r] = said[r] /\ (wire'[r] = "allow" => wire[r] = "allow")
        BY <2>1
      <3>2. Sound(r)
        OBVIOUS
      <3>3. QED
        BY <2>1, <3>1, <3>2 DEF Sound, Recorded
    <2>4. QED
      BY <2>2, <2>3
  <1>2. CASE Start
    BY <1>2 DEF Start, auditVars, connVars, Sound, Recorded
  <1>3. QED
    BY <1>1, <1>2

(* Every step keeps the invariant. *)
LEMMA StepInv == GateInv /\ [VetterdNext]_vars => GateInv'
  <1> SUFFICES ASSUME GateInv, [VetterdNext]_vars PROVE GateInv'
    OBVIOUS
  <1>1. CASE ClientNext
    BY <1>1, ClientInv DEF ClientNext
  <1>2. CASE AcceptorNext
    <2>1. CASE \E r \in Requests : Accept(r)
      BY <2>1, AcceptInv
    <2>2. CASE AcceptorStarts \/ AcceptWouldBlock
      BY <2>2, AsideInv DEF AcceptorStarts, AcceptWouldBlock
    <2>3. CASE CloseListener \/ AcceptFails
      BY <2>3, DropInv DEF CloseListener, AcceptFails
    <2>4. QED
      BY <1>2, <2>1, <2>2, <2>3 DEF AcceptorNext
  <1>3. CASE WorkerNext
    BY <1>3, EvaluateInv, WakeInv, AppendInv, ReplyInv, OtherWorkerInv
    DEF WorkerNext, WorkerStep
  <1>4. CASE ApproverNext
    <2>1. ASSUME NEW r \in Requests, NEW d \in {"allow", "deny"}, Approve(r, d) PROVE GateInv'
      <3>1. Q!Resolve(r, Verdict(d, "approver")) /\ Verdict(d, "approver") \in Verdicts
        BY <2>1, VerdictFacts DEF Approve
      <3>2. UNCHANGED <<auditVars, connVars>>
        BY <2>1 DEF Approve
      <3>3. QED
        BY <3>1, <3>2, QueueInv
    <2>2. ASSUME NEW r \in Requests, DeliverVerdict(r) PROVE GateInv'
      BY <2>2, QueueInv DEF DeliverVerdict
    <2>3. QED
      BY <1>4, <2>1, <2>2 DEF ApproverNext
  <1>5. CASE WriterNext
    <2>1. ASSUME NEW w \in Writers \cup Clis,
                 ContinueWrite(w) \/ \E job \in RuleJobs : BeginWrite(w, job)
          PROVE  GateInv'
      BY <2>1, AsideInv DEF ContinueWrite, BeginWrite
    <2>2. ASSUME NEW w \in Writers, ListPending(w) \/ EndWrite(w) PROVE GateInv'
      BY <2>2, AsideInv DEF ListPending, EndWrite
    <2>3. ASSUME NEW w \in Writers, NEW r \in Requests, SweepOne(w, r) PROVE GateInv'
      <3>1. /\ UNCHANGED <<auditVars, connVars>>
            /\ UNCHANGED queueVars \/ Q!Resolve(r, Verdict("allow", "newrule"))
        BY <2>3 DEF SweepOne
      <3>2. Verdict("allow", "newrule") \in Verdicts
        BY VerdictFacts
      <3>3. QED
        BY <3>1, <3>2, AsideInv, QueueInv
    <2>4. QED
      BY <1>5, <2>1, <2>2, <2>3 DEF WriterNext, SweepStep
  <1>6. CASE \E k \in Rules : RuleExpires(k)
    BY <1>6, AsideInv DEF RuleExpires
  <1>7. CASE ProcessNext
    <2>1. CASE Signal
      BY <2>1, AsideInv DEF Signal
    <2>2. CASE MainCancels
      BY <2>2, QueueInv DEF MainCancels
    <2>3. CASE Exit \/ Crash \/ Start
      BY <2>3, ProcessInv DEF Exit, Crash
    <2>4. QED
      BY <1>7, <2>1, <2>2, <2>3 DEF ProcessNext
  <1>8. CASE UNCHANGED vars
    BY <1>8, AsideInv DEF vars
  <1>9. QED
    BY <1>1, <1>2, <1>3, <1>4, <1>5, <1>6, <1>7, <1>8 DEF VetterdNext

(* In every state of every run of the daemon, what a worker holds and what *)
(* is on its wire is a ruling made once, allowed to nobody who is barred   *)
(* and, once it is on the wire, on record.                                 *)
THEOREM GateInvariant == VetterdSpec => []GateInv
  BY InitInv, StepInv, PTL DEF VetterdSpec

-----------------------------------------------------------------------------
(* The refinement.  Shown(c) is the gate's view of a client.               *)
Shown(c) == CASE c \in {"new", "asking"} -> "waiting"
              [] c = "ran" -> "ran"
              [] c \in {"denied", "failed", "gone"} -> "stopped"

Ruled    == [r \in Requests |-> said[r].decision]
Commands == [r \in Requests |-> Shown(client[r])]

(* The gate's variables under the refinement mapping. *)
LEMMA Mapped ==
  /\ G!GateInit = (/\ Ruled = [r \in Requests |-> "none"]
                   /\ Recorded = {}
                   /\ Commands = [r \in Requests |-> "waiting"])
  /\ G!gateVars = <<Ruled, Recorded, Commands>>
  /\ G!gateVars' = <<Ruled', Recorded', Commands'>>
  BY DEF G!GateInit, G!gateVars, Ruled, Recorded, Commands, Shown

(* The daemon starts as the gate does. *)
LEMMA InitMaps == VetterdInit => G!GateInit
  <1> SUFFICES ASSUME VetterdInit PROVE G!GateInit
    OBVIOUS
  <1>1. \A r \in Requests : said[r].decision = "none" /\ client[r] = "new"
    BY VerdictFacts DEF VetterdInit
  <1>2. tried = {}
    BY DEF VetterdInit, A!AuditInit
  <1>3. /\ Ruled = [r \in Requests |-> "none"]
        /\ Recorded = {}
        /\ Commands = [r \in Requests |-> "waiting"]
    BY <1>1, <1>2 DEF Ruled, Recorded, Commands, Shown
  <1>4. QED
    BY <1>3, Mapped

(* What the gate does not see. *)
LEMMA Stutters ==
  ASSUME said' = said, tried' = tried, client' = client
  PROVE  [G!GateNext]_G!gateVars
  BY Mapped DEF Ruled, Recorded, Commands

(* A first ruling is the gate's Rule, or no step of the gate. *)
LEMMA RulingMaps ==
  ASSUME GateInv, NEW r \in Requests, NEW v \in Verdicts \cup {NoVerdict},
         said[r] = NoVerdict, said' = [said EXCEPT ![r] = v],
         v.decision = "allow" => r \notin Barred,
         tried' = tried, client' = client
  PROVE  [G!GateNext]_G!gateVars
  <1>1. Ruled' = [Ruled EXCEPT ![r] = v.decision] /\ Ruled[r] = "none"
    BY VerdictFacts DEF Ruled, GateInv, GateTypeOK
  <1>2. Recorded' = Recorded /\ Commands' = Commands
    BY DEF Recorded, Commands
  <1>3. CASE v = NoVerdict
    <2>1. said' = said
      BY <1>3 DEF GateInv, GateTypeOK
    <2>2. QED
      BY <2>1, Stutters
  <1>4. CASE v \in Verdicts
    <2>1. v.decision \in {"allow", "deny"}
      BY <1>4, VerdictFacts
    <2>2. G!Rule(r, v.decision)
      BY <1>1, <1>2 DEF G!Rule, Ruled, Recorded, Commands, Shown, Barred
    <2>3. G!GateNext
      BY <2>1, <2>2 DEF G!GateNext
    <2>4. QED
      BY <2>3
  <1>5. QED
    BY <1>3, <1>4

(* A row handed to the log is the gate's Record. *)
LEMMA RecordMaps ==
  ASSUME GateInv, NEW r \in Requests, said[r] \in Verdicts,
         tried' = tried \cup {AuditRow(r)}, said' = said, client' = client
  PROVE  [G!GateNext]_G!gateVars
  <1>1. Recorded' = Recorded \cup {r}
    <2>1. AuditRow(r).req = r
      BY DEF AuditRow
    <2>2. Recorded' = {row.req : row \in tried \cup {AuditRow(r)}}
      BY DEF Recorded
    <2>3. ASSUME NEW q PROVE q \in Recorded' <=> q \in Recorded \cup {r}
      BY <2>1, <2>2 DEF Recorded
    <2>4. QED
      BY <2>3
  <1>2. Ruled' = Ruled /\ Commands' = Commands /\ Ruled[r] # "none"
    BY VerdictFacts DEF Ruled, Commands
  <1>3. G!Record(r)
    BY <1>1, <1>2 DEF G!Record, Ruled, Recorded, Commands, Shown
  <1>4. QED
    BY <1>3 DEF G!GateNext

(* A client that ends: it ran because it read an allow, or was stopped. *)
LEMMA EndMaps ==
  ASSUME GateInv, NEW r \in Requests, NEW c \in {"ran", "denied", "failed", "gone"},
         client[r] \in {"new", "asking"}, client' = [client EXCEPT ![r] = c],
         c = "ran" => wire[r] = "allow",
         said' = said, tried' = tried
  PROVE  [G!GateNext]_G!gateVars
  <1>1. /\ Commands[r] = "waiting" /\ Ruled' = Ruled /\ Recorded' = Recorded
        /\ Commands' = [Commands EXCEPT ![r] = Shown(c)]
    BY DEF Ruled, Recorded, Commands, Shown, GateInv, GateTypeOK
  <1>2. CASE c = "ran"
    <2>1. Ruled[r] = "allow" /\ r \in Recorded /\ Shown(c) = "ran"
      BY <1>2 DEF Ruled, GateInv, Sound, Shown
    <2>2. G!Run(r)
      BY <1>1, <2>1 DEF G!Run, Ruled, Recorded, Commands, Shown
    <2>3. QED
      BY <2>2 DEF G!GateNext
  <1>3. CASE c # "ran"
    <2>1. Shown(c) = "stopped"
      BY <1>3 DEF Shown
    <2>2. G!Stop(r)
      BY <1>1, <2>1 DEF G!Stop, Ruled, Recorded, Commands, Shown
    <2>3. QED
      BY <2>2 DEF G!GateNext
  <1>4. QED
    BY <1>2, <1>3

(* What a client does is Run, Stop or nothing. *)
LEMMA ClientMaps ==
  ASSUME GateInv, NEW r \in Requests, Connect(r) \/ ClientReads(r) \/ ClientLeaves(r)
  PROVE  [G!GateNext]_G!gateVars
  <1>1. CASE Connect(r)
    <2>1. client[r] = "new" /\ UNCHANGED <<said, tried>>
      BY <1>1 DEF Connect, auditVars
    <2>2. CASE Running /\ acceptor # "stopped"
      <3>1. client' = [client EXCEPT ![r] = "asking"]
        BY <1>1, <2>2 DEF Connect
      <3>2. Ruled' = Ruled /\ Recorded' = Recorded /\ Commands' = Commands
        BY <2>1, <3>1 DEF Ruled, Recorded, Commands, Shown, GateInv, GateTypeOK
      <3>3. QED
        BY <3>2, Mapped
    <2>3. CASE ~(Running /\ acceptor # "stopped")
      <3>1. client' = [client EXCEPT ![r] = "failed"]
        BY <1>1, <2>3 DEF Connect
      <3>2. QED
        BY <2>1, <3>1, EndMaps
    <2>4. QED
      BY <2>2, <2>3
  <1>2. CASE ClientReads(r)
    <2>1. /\ client[r] = "asking" /\ UNCHANGED <<said, tried>>
          /\ wire[r] \in {"allow", "deny", "eof"}
          /\ client' = [client EXCEPT ![r] = CASE wire[r] = "allow" -> "ran"
                                               [] wire[r] = "deny"  -> "denied"
                                               [] wire[r] = "eof"   -> "failed"]
      BY <1>2 DEF ClientReads, auditVars, GateInv, GateTypeOK
    <2>2. PICK c \in {"ran", "denied", "failed"} :
            client' = [client EXCEPT ![r] = c] /\ (c = "ran" => wire[r] = "allow")
      BY <2>1
    <2>3. QED
      BY <2>1, <2>2, EndMaps
  <1>3. CASE ClientLeaves(r)
    BY <1>3, EndMaps DEF ClientLeaves, auditVars
  <1>4. QED
    BY <1>1, <1>2, <1>3

(* What a worker does is Rule, Record or nothing. *)
LEMMA WorkerMaps ==
  ASSUME GateInv, NEW r \in Requests, WorkerStep(r)
  PROVE  [G!GateNext]_G!gateVars
  <1>1. CASE Evaluate(r)
    <2> DEFINE v == Ruling(r)
    <2>1. /\ worker[r] = "read" /\ said' = [said EXCEPT ![r] = v] /\ UNCHANGED <<client, tried>>
      BY <1>1 DEF Evaluate, Step, auditVars
    <2>2. said[r] = NoVerdict
      BY <2>1 DEF GateInv, Sound
    <2>3. v \in Verdicts \cup {NoVerdict} /\ (v.decision = "allow" => r \notin Barred)
      BY RulingFacts
    <2> HIDE DEF v
    <2>4. QED
      BY <2>1, <2>2, <2>3, RulingMaps
  <1>2. CASE Wake(r)
    <2> DEFINE v == IF mail[r] # NoVerdict THEN mail[r] ELSE Verdict("deny", "shutdown")
    <2>1. /\ worker[r] = "parked" /\ said' = [said EXCEPT ![r] = v] /\ UNCHANGED <<client, tried>>
      BY <1>2 DEF Wake, Step, auditVars
    <2>2. said[r] = NoVerdict /\ r \notin Barred
      BY <2>1 DEF GateInv, Sound
    <2>3. v \in Verdicts
      BY VerdictFacts DEF GateInv, GateTypeOK
    <2> HIDE DEF v
    <2>4. QED
      BY <2>1, <2>2, <2>3, RulingMaps
  <1>3. CASE AppendRow(r)
    <2>1. worker[r] = "audit" /\ UNCHANGED <<said, client>>
      BY <1>3 DEF AppendRow, Step
    <2>2. said[r] \in Verdicts
      BY <2>1 DEF GateInv, Sound
    <2>3. tried' = tried \cup {AuditRow(r)}
      BY <1>3, AppendInv
    <2>4. QED
      BY <2>1, <2>2, <2>3, RecordMaps
  <1>4. CASE ReadFails(r) \/ RecordRuling(r) \/ SubmitPrompt(r) \/ Reply(r) \/ Leave(r)
    BY <1>4, Stutters
    DEF ReadFails, RecordRuling, SubmitPrompt, Reply, Leave, auditVars
  <1>5. QED
    BY <1>1, <1>2, <1>3, <1>4 DEF WorkerStep

(* Every step of the daemon is one of the gate or none. *)
LEMMA StepMaps == GateInv /\ [VetterdNext]_vars => [G!GateNext]_G!gateVars
  <1> SUFFICES ASSUME GateInv, [VetterdNext]_vars PROVE [G!GateNext]_G!gateVars
    OBVIOUS
  <1>1. CASE ClientNext
    BY <1>1, ClientMaps DEF ClientNext
  <1>2. CASE WorkerNext
    BY <1>2, WorkerMaps DEF WorkerNext
  <1>3. CASE AcceptorNext
    BY <1>3, Stutters
    DEF AcceptorNext, AcceptorStarts, Accept, AcceptWouldBlock, CloseListener, AcceptFails,
        DropListener, auditVars, connVars
  <1>4. CASE ApproverNext
    BY <1>4, Stutters DEF ApproverNext, Approve, DeliverVerdict, auditVars, connVars
  <1>5. CASE WriterNext
    BY <1>5, Stutters
    DEF WriterNext, ContinueWrite, BeginWrite, SweepStep, ListPending, SweepOne, EndWrite,
        auditVars, connVars
  <1>6. CASE \E k \in Rules : RuleExpires(k)
    BY <1>6, Stutters DEF RuleExpires, auditVars, connVars
  <1>7. CASE ProcessNext
    BY <1>7, Stutters
    DEF ProcessNext, Signal, MainCancels, Exit, Crash, ProcessEnds, Start, auditVars, connVars
  <1>8. CASE UNCHANGED vars
    BY <1>8, Stutters DEF vars, auditVars, connVars
  <1>9. QED
    BY <1>1, <1>2, <1>3, <1>4, <1>5, <1>6, <1>7, <1>8 DEF VetterdNext

(* Every behaviour of the daemon, its clients, its approvers and its       *)
(* crashes is one of the gate's: a command runs only after one ruling to   *)
(* allow it, made once and handed to the log before the client heard of    *)
(* it, and a command the parser or the denylist rejects never runs.        *)
THEOREM DaemonImplementsGate == VetterdSpec => ImplementsGate
  <1>1. VetterdSpec => []GateInv
    BY GateInvariant
  <1>2. VetterdInit => G!GateInit
    BY InitMaps
  <1>3. GateInv /\ [VetterdNext]_vars => [G!GateNext]_G!gateVars
    BY StepMaps
  <1>4. QED
    BY <1>1, <1>2, <1>3, PTL DEF VetterdSpec, ImplementsGate, G!GateSpec

-----------------------------------------------------------------------------
(* The count of worker slots.                                              *)
Threads == {r \in Requests : worker[r] \notin {"none", "backlog", "ended"}}

Counted == inflight = Cardinality(Threads)

(* The count stands while the threads and the counter do. *)
LEMMA SameThreads ==
  ASSUME Counted, inflight' = inflight, Threads' = Threads
  PROVE  Counted'
  BY DEF Counted

(* A worker that goes on without ending keeps its slot. *)
LEMMA StaysThread ==
  ASSUME GateInv, Counted, NEW r \in Requests, NEW to \in Places,
         worker' = [worker EXCEPT ![r] = to], inflight' = inflight,
         worker[r] \in {"none", "backlog", "ended"} <=> to \in {"none", "backlog", "ended"}
  PROVE  Counted'
  <1>1. Threads' = Threads
    BY DEF Threads, GateInv, GateTypeOK
  <1>2. QED
    BY <1>1, SameThreads

(* Accepting a connection takes a slot and starts a thread, or neither. *)
LEMMA AcceptCounts ==
  ASSUME GateInv, Counted, NEW r \in Requests, Accept(r)
  PROVE  Counted'
  <1>1. worker[r] = "backlog"
    BY DEF Accept
  <1>2. CASE inflight >= MaxInflight
    <2>1. worker' = [worker EXCEPT ![r] = "ended"] /\ inflight' = inflight
      BY <1>2 DEF Accept
    <2>2. QED
      BY <1>1, <2>1, StaysThread DEF Places
  <1>3. CASE ~(inflight >= MaxInflight)
    <2>1. worker' = [worker EXCEPT ![r] = "read"] /\ inflight' = inflight + 1
      BY <1>3 DEF Accept
    <2>2. Threads' = Threads \cup {r} /\ r \notin Threads
      BY <1>1, <2>1 DEF Threads, GateInv, GateTypeOK
    <2>3. IsFiniteSet(Threads)
      BY VetterdAssumption, FS_Subset DEF Threads
    <2>4. Cardinality(Threads \cup {r}) = Cardinality(Threads) + 1
      BY <2>2, <2>3, FS_AddElement
    <2>5. QED
      BY <2>1, <2>2, <2>4 DEF Counted
  <1>4. QED
    BY <1>2, <1>3

(* Leaving gives one slot back and ends one thread. *)
LEMMA LeaveCounts ==
  ASSUME GateInv, Counted, NEW r \in Requests, Leave(r)
  PROVE  Counted'
  <1>1. /\ worker[r] = "leave" /\ worker' = [worker EXCEPT ![r] = "ended"]
        /\ inflight' = inflight - 1
    BY DEF Leave, Step
  <1>2. Threads' = Threads \ {r} /\ r \in Threads
    BY <1>1 DEF Threads, GateInv, GateTypeOK
  <1>3. IsFiniteSet(Threads)
    BY VetterdAssumption, FS_Subset DEF Threads
  <1>4. Cardinality(Threads \ {r}) = Cardinality(Threads) - 1
    BY <1>2, <1>3, FS_RemoveElement
  <1>5. QED
    BY <1>1, <1>2, <1>4 DEF Counted

(* A worker's other steps take and give none. *)
LEMMA WorkerCounts ==
  ASSUME GateInv, Counted, NEW r \in Requests, WorkerStep(r)
  PROVE  Counted'
  <1>1. CASE Leave(r)
    BY <1>1, LeaveCounts
  <1>2. CASE ReadFails(r) \/ Evaluate(r) \/ RecordRuling(r) \/ SubmitPrompt(r) \/ Wake(r)
             \/ AppendRow(r) \/ Reply(r)
    <2>1. inflight' = inflight
      BY <1>2
      DEF ReadFails, Evaluate, RecordRuling, SubmitPrompt, Wake, AppendRow, Reply, procVars
    <2>2. PICK from, to \in {"read", "auto", "submit", "parked", "audit", "reply", "leave"} :
            worker[r] = from /\ worker' = [worker EXCEPT ![r] = to]
      BY <1>2
      DEF ReadFails, Evaluate, RecordRuling, SubmitPrompt, Wake, AppendRow, Reply, Step
    <2>3. QED
      BY <2>1, <2>2, StaysThread DEF Places
  <1>3. QED
    BY <1>1, <1>2 DEF WorkerStep

(* Every step keeps the count. *)
LEMMA StepCounts == GateInv /\ Counted /\ [VetterdNext]_vars => Counted'
  <1> SUFFICES ASSUME GateInv, Counted, [VetterdNext]_vars PROVE Counted'
    OBVIOUS
  <1>0. ASSUME UNCHANGED <<inflight, worker>> PROVE Counted'
    BY <1>0, SameThreads DEF Threads
  <1>1. CASE ClientNext
    <2>1. ASSUME NEW r \in Requests, Connect(r) PROVE Counted'
      <3>1. inflight' = inflight /\ client[r] = "new"
        BY <2>1 DEF Connect, procVars
      <3>2. worker[r] = "none"
        BY <3>1 DEF GateInv, Sound
      <3>3. worker' = worker \/ worker' = [worker EXCEPT ![r] = "backlog"]
        BY <2>1 DEF Connect
      <3>4. QED
        BY <1>0, <3>1, <3>2, <3>3, StaysThread DEF Places
    <2>2. ASSUME NEW r \in Requests, ClientReads(r) \/ ClientLeaves(r) PROVE Counted'
      BY <1>0, <2>2 DEF ClientReads, ClientLeaves, procVars
    <2>3. QED
      BY <1>1, <2>1, <2>2 DEF ClientNext
  <1>2. CASE WorkerNext
    BY <1>2, WorkerCounts DEF WorkerNext
  <1>3. CASE AcceptorNext
    <2>1. CASE CloseListener \/ AcceptFails
      <3>1. Threads' = Threads /\ inflight' = inflight
        BY <2>1, DropFacts DEF CloseListener, AcceptFails, Threads
      <3>2. QED
        BY <3>1, SameThreads
    <2>2. QED
      BY <1>0, <1>3, <2>1, AcceptCounts
      DEF AcceptorNext, AcceptorStarts, AcceptWouldBlock, connVars
  <1>4. CASE ApproverNext
    BY <1>0, <1>4 DEF ApproverNext, Approve, DeliverVerdict, procVars, connVars
  <1>5. CASE WriterNext
    BY <1>0, <1>5
    DEF WriterNext, ContinueWrite, BeginWrite, SweepStep, ListPending, SweepOne, EndWrite,
        procVars, connVars
  <1>6. CASE \E k \in Rules : RuleExpires(k)
    BY <1>0, <1>6 DEF RuleExpires, procVars, connVars
  <1>7. CASE ProcessNext
    <2>1. CASE ProcessEnds
      <3>1. /\ inflight' = 0
            /\ worker' = [r \in Requests |-> IF worker[r] = "none" THEN "none" ELSE "ended"]
        BY <2>1 DEF ProcessEnds
      <3>2. Threads' = {}
        BY <3>1 DEF Threads
      <3>3. QED
        BY <3>1, <3>2, FS_EmptySet DEF Counted
    <2>2. CASE Signal \/ MainCancels \/ Start
      BY <1>0, <2>2 DEF Signal, MainCancels, Start, connVars
    <2>3. QED
      BY <1>7, <2>1, <2>2 DEF ProcessNext, Exit, Crash
  <1>8. CASE UNCHANGED vars
    BY <1>0, <1>8 DEF vars, procVars, connVars
  <1>9. QED
    BY <1>1, <1>2, <1>3, <1>4, <1>5, <1>6, <1>7, <1>8 DEF VetterdNext

(* However connections come, are dropped at the cap, fail or are cut short *)
(* by a restart, the slots taken are the worker threads alive: none leaks  *)
(* and none is given back twice, so the cap stays the cap.                 *)
THEOREM SlotsAreThreads == VetterdSpec => []SlotsMatchWorkers
  <1>1. VetterdInit => Counted
    <2>1. ASSUME VetterdInit PROVE Threads = {} /\ inflight = 0
      BY <2>1 DEF VetterdInit, FreshProcess, Threads
    <2>2. QED
      BY <2>1, FS_EmptySet DEF Counted
  <1>2. GateInv /\ Counted /\ [VetterdNext]_vars => Counted'
    BY StepCounts
  <1>3. Counted => SlotsMatchWorkers
    BY DEF Counted, Threads, SlotsMatchWorkers
  <1>4. QED
    BY <1>1, <1>2, <1>3, GateInvariant, PTL DEF VetterdSpec

-----------------------------------------------------------------------------
(* Prompts and the workers blocked on them.  A request has nothing in its  *)
(* channel before its worker parks it, and its sender is in the map, or in *)
(* a resolver's hand, or spent, or dropped from then on.                   *)
Waits(r) ==
  /\ entries[r] \in {r, NoRequest}
  /\ entries[r] = r =>
       worker[r] = "parked" /\ handoff[r] = NoVerdict /\ mail[r] = NoVerdict /\ r \notin hungup
  /\ worker[r] = "parked" =>
       entries[r] = r \/ handoff[r] # NoVerdict \/ mail[r] # NoVerdict \/ r \in hungup
  /\ worker[r] \in {"none", "backlog", "read", "auto", "submit"} =>
       handoff[r] = NoVerdict /\ mail[r] = NoVerdict /\ r \notin hungup

Waited == \A r \in Requests : Waits(r)

(* A step of one worker that stays on its side of the queue. *)
LEMMA WaitsAcross ==
  ASSUME GateInv, Waited, NEW r \in Requests, NEW to \in Places,
         worker' = [worker EXCEPT ![r] = to], UNCHANGED <<entries, handoff, mail, hungup>>,
         entries[r] # r, to # "parked",
         to \in {"none", "backlog", "read", "auto", "submit"} =>
           worker[r] \in {"none", "backlog", "read", "auto", "submit"}
  PROVE  Waited'
  <1>1. ASSUME NEW q \in Requests PROVE Waits(q)'
    <2>1. worker'[q] = IF q = r THEN to ELSE worker[q]
      BY DEF GateInv, GateTypeOK
    <2>2. Waits(q)
      BY DEF Waited
    <2>3. QED
      BY <2>1, <2>2 DEF Waits
  <1>2. QED
    BY <1>1 DEF Waited

(* A request nobody waits for, or that has been answered, is in no map. *)
LEMMA NotParked ==
  ASSUME Waited, NEW r \in Requests, worker[r] # "parked" \/ mail[r] # NoVerdict \/ r \in hungup
  PROVE  entries[r] # r
  BY DEF Waited, Waits

(* The sender an approver takes out is now in its hand. *)
LEMMA ResolveWaits ==
  ASSUME GateInv, Waited, NEW i \in Requests, NEW v \in Verdicts, Q!Resolve(i, v),
         worker' = worker
  PROVE  Waited'
  <1>1. entries[i] = i /\ Waits(i)
    BY DEF Q!Resolve, Waited, Waits
  <1>2. /\ entries' = [entries EXCEPT ![i] = NoRequest]
        /\ handoff' = [handoff EXCEPT ![i] = v] /\ UNCHANGED <<mail, hungup>>
    BY <1>1 DEF Q!Resolve
  <1>3. ASSUME NEW q \in Requests PROVE Waits(q)'
    <2>1. Waits(q)
      BY DEF Waited
    <2>2. /\ entries'[q] = IF q = i THEN NoRequest ELSE entries[q]
          /\ handoff'[q] = IF q = i THEN v ELSE handoff[q]
      BY <1>2 DEF GateInv, GateTypeOK
    <2>3. v # NoVerdict /\ NoRequest # q
      BY VerdictFacts, VetterdAssumption
    <2>4. QED
      BY <1>1, <1>2, <2>1, <2>2, <2>3 DEF Waits
  <1>4. QED
    BY <1>3 DEF Waited

(* The verdict it sends is in the worker's channel. *)
LEMMA DeliverWaits ==
  ASSUME GateInv, Waited, NEW r \in Requests, Q!Deliver(r), worker' = worker
  PROVE  Waited'
  <1>1. /\ handoff[r] # NoVerdict /\ UNCHANGED <<entries, hungup>>
        /\ mail' = [mail EXCEPT ![r] = handoff[r]]
        /\ handoff' = [handoff EXCEPT ![r] = NoVerdict]
    BY DEF Q!Deliver
  <1>2. ASSUME NEW q \in Requests PROVE Waits(q)'
    <2>1. Waits(q)
      BY DEF Waited
    <2>2. /\ mail'[q] = IF q = r THEN handoff[r] ELSE mail[q]
          /\ handoff'[q] = IF q = r THEN NoVerdict ELSE handoff[q]
      BY <1>1 DEF GateInv, GateTypeOK
    <2>3. QED
      BY <1>1, <2>1, <2>2 DEF Waits
  <1>3. QED
    BY <1>2 DEF Waited

(* Cancelling hangs up on every worker in the map. *)
LEMMA CancelWaits ==
  ASSUME GateInv, Waited, Q!CancelAll, worker' = worker
  PROVE  Waited'
  <1>1. /\ entries' = [i \in Requests |-> NoRequest] /\ UNCHANGED <<handoff, mail>>
        /\ hungup' = hungup \cup {r \in Requests : entries[r] = r}
    BY DEF Q!CancelAll, Q!Pending
  <1>2. ASSUME NEW q \in Requests PROVE Waits(q)'
    <2>1. Waits(q) /\ NoRequest # q
      BY VetterdAssumption DEF Waited
    <2>2. entries'[q] = NoRequest /\ (q \in hungup' <=> q \in hungup \/ entries[q] = q)
      BY <1>1
    <2>3. QED
      BY <1>1, <2>1, <2>2 DEF Waits
  <1>3. QED
    BY <1>2 DEF Waited

(* A submit parks the worker and puts its sender in the map. *)
LEMMA SubmitWaits ==
  ASSUME GateInv, Waited, NEW r \in Requests, SubmitPrompt(r)
  PROVE  Waited'
  <1>1. /\ worker[r] = "submit" /\ worker' = [worker EXCEPT ![r] = "parked"]
        /\ entries' = [entries EXCEPT ![r] = r] /\ UNCHANGED <<handoff, mail>>
        /\ hungup' = hungup \cup ({entries[r]} \ {NoRequest})
    BY DEF SubmitPrompt, Step, Q!Submit
  <1>2. Waits(r)
    BY DEF Waited
  <1>3. entries[r] = NoRequest /\ hungup' = hungup
    BY <1>1, <1>2 DEF Waits
  <1>4. ASSUME NEW q \in Requests PROVE Waits(q)'
    <2>1. Waits(q)
      BY DEF Waited
    <2>2. /\ entries'[q] = IF q = r THEN r ELSE entries[q]
          /\ worker'[q] = IF q = r THEN "parked" ELSE worker[q]
      BY <1>1 DEF GateInv, GateTypeOK
    <2>3. QED
      BY <1>1, <1>2, <1>3, <2>1, <2>2 DEF Waits
  <1>5. QED
    BY <1>4 DEF Waited

(* A worker's other steps leave the senders alone. *)
LEMMA WorkerWaits ==
  ASSUME GateInv, Waited, NEW r \in Requests, WorkerStep(r)
  PROVE  Waited'
  <1>1. CASE SubmitPrompt(r)
    BY <1>1, SubmitWaits
  <1>2. CASE Wake(r)
    <2>1. /\ worker' = [worker EXCEPT ![r] = "audit"] /\ UNCHANGED <<entries, handoff, mail, hungup>>
          /\ mail[r] # NoVerdict \/ r \in hungup
      BY <1>2 DEF Wake, Step, queueVars
    <2>2. QED
      BY <2>1, NotParked, WaitsAcross DEF Places
  <1>3. CASE Evaluate(r)
    <2>1. /\ worker[r] = "read" /\ UNCHANGED <<entries, handoff, mail, hungup>>
          /\ \E to \in {"audit", "submit", "auto"} : worker' = [worker EXCEPT ![r] = to]
      BY <1>3 DEF Evaluate, Step, queueVars
    <2>2. QED
      BY <2>1, NotParked, WaitsAcross DEF Places
  <1>4. CASE ReadFails(r) \/ RecordRuling(r) \/ AppendRow(r) \/ Reply(r) \/ Leave(r)
    <2>1. UNCHANGED <<entries, handoff, mail, hungup>>
      BY <1>4 DEF ReadFails, RecordRuling, Q!RecordAuto, AppendRow, Reply, Leave, queueVars
    <2>2. worker[r] # "parked"
          /\ \E to \in {"leave", "audit", "reply", "ended"} : worker' = [worker EXCEPT ![r] = to]
      BY <1>4 DEF ReadFails, RecordRuling, AppendRow, Reply, Leave, Step
    <2>3. QED
      BY <2>1, <2>2, NotParked, WaitsAcross DEF Places
  <1>5. QED
    BY <1>1, <1>2, <1>3, <1>4 DEF WorkerStep

(* Every step keeps a way to each parked worker. *)
LEMMA StepWaits == GateInv /\ Waited /\ [VetterdNext]_vars => Waited'
  <1> SUFFICES ASSUME GateInv, Waited, [VetterdNext]_vars PROVE Waited'
    OBVIOUS
  <1>0. ASSUME UNCHANGED <<queueVars, worker>> PROVE Waited'
    BY <1>0 DEF Waited, Waits, queueVars
  <1>1. CASE ClientNext
    <2>1. ASSUME NEW r \in Requests, Connect(r) PROVE Waited'
      <3>1. UNCHANGED queueVars /\ client[r] = "new"
        BY <2>1 DEF Connect
      <3>2. worker[r] = "none"
        BY <3>1 DEF GateInv, Sound
      <3>3. worker' = worker \/ worker' = [worker EXCEPT ![r] = "backlog"]
        BY <2>1 DEF Connect
      <3>4. QED
        BY <1>0, <3>1, <3>2, <3>3, NotParked, WaitsAcross DEF Places, queueVars
    <2>2. ASSUME NEW r \in Requests, ClientReads(r) \/ ClientLeaves(r) PROVE Waited'
      BY <1>0, <2>2 DEF ClientReads, ClientLeaves
    <2>3. QED
      BY <1>1, <2>1, <2>2 DEF ClientNext
  <1>2. CASE WorkerNext
    BY <1>2, WorkerWaits DEF WorkerNext
  <1>3. CASE AcceptorNext
    <2>1. ASSUME NEW r \in Requests, Accept(r) PROVE Waited'
      <3>1. /\ worker[r] = "backlog" /\ UNCHANGED <<entries, handoff, mail, hungup>>
            /\ \E to \in {"read", "ended"} : worker' = [worker EXCEPT ![r] = to]
        BY <2>1 DEF Accept, queueVars
      <3>2. QED
        BY <3>1, NotParked, WaitsAcross DEF Places
    <2>2. CASE AcceptorStarts \/ AcceptWouldBlock
      BY <1>0, <2>2 DEF AcceptorStarts, AcceptWouldBlock, connVars
    <2>3. CASE CloseListener \/ AcceptFails
      <3>1. DropListener
        BY <2>3 DEF CloseListener, AcceptFails
      <3>2. ASSUME NEW q \in Requests PROVE Waits(q)'
        <4>1. Waits(q)
          BY DEF Waited
        <4>2. QED
          BY <3>1, <4>1, DropFacts DEF Waits
      <3>3. QED
        BY <3>2 DEF Waited
    <2>4. QED
      BY <1>3, <2>1, <2>2, <2>3 DEF AcceptorNext
  <1>4. CASE ApproverNext
    <2>1. ASSUME NEW r \in Requests, NEW d \in {"allow", "deny"}, Approve(r, d) PROVE Waited'
      <3>1. Q!Resolve(r, Verdict(d, "approver")) /\ worker' = worker
        BY <2>1 DEF Approve, connVars
      <3>2. QED
        BY <3>1, VerdictFacts, ResolveWaits
    <2>2. ASSUME NEW r \in Requests, DeliverVerdict(r) PROVE Waited'
      BY <2>2, DeliverWaits DEF DeliverVerdict, connVars
    <2>3. QED
      BY <1>4, <2>1, <2>2 DEF ApproverNext
  <1>5. CASE WriterNext
    <2>1. ASSUME NEW w \in Writers, NEW r \in Requests, SweepOne(w, r) PROVE Waited'
      <3>1. /\ worker' = worker
            /\ UNCHANGED queueVars \/ Q!Resolve(r, Verdict("allow", "newrule"))
        BY <2>1 DEF SweepOne, connVars
      <3>2. QED
        BY <1>0, <3>1, VerdictFacts, ResolveWaits
    <2>2. ASSUME NEW w \in Writers \cup Clis,
                 ContinueWrite(w) \/ \E job \in RuleJobs : BeginWrite(w, job)
          PROVE  Waited'
      BY <1>0, <2>2 DEF ContinueWrite, BeginWrite, connVars
    <2>3. ASSUME NEW w \in Writers, ListPending(w) \/ EndWrite(w) PROVE Waited'
      BY <1>0, <2>3 DEF ListPending, EndWrite, connVars
    <2>4. QED
      BY <1>5, <2>1, <2>2, <2>3 DEF WriterNext, SweepStep
  <1>6. CASE \E k \in Rules : RuleExpires(k)
    BY <1>0, <1>6 DEF RuleExpires, connVars
  <1>7. CASE ProcessNext
    <2>1. CASE ProcessEnds
      <3>1. /\ entries' = [r \in Requests |-> NoRequest] /\ hungup' = {}
            /\ handoff' = [r \in Requests |-> NoVerdict] /\ mail' = [r \in Requests |-> NoVerdict]
            /\ worker' = [r \in Requests |-> IF worker[r] = "none" THEN "none" ELSE "ended"]
        BY <2>1 DEF ProcessEnds
      <3>2. QED
        BY <3>1, VetterdAssumption DEF Waited, Waits
    <2>2. CASE MainCancels
      BY <2>2, CancelWaits DEF MainCancels, connVars
    <2>3. CASE Signal
      BY <1>0, <2>3 DEF Signal, connVars
    <2>4. CASE Start
      BY <2>4 DEF Start, connVars, Waited, Waits
    <2>5. QED
      BY <1>7, <2>1, <2>2, <2>3, <2>4 DEF ProcessNext, Exit, Crash
  <1>8. CASE UNCHANGED vars
    BY <1>0, <1>8 DEF vars, connVars
  <1>9. QED
    BY <1>1, <1>2, <1>3, <1>4, <1>5, <1>6, <1>7, <1>8 DEF VetterdNext

(* No worker is left blocked on a prompt nobody can answer any more, and   *)
(* no approver is shown a prompt that no worker is blocked on, whatever    *)
(* approvers, rule sweeps, shutdown, a crash and a restart do meanwhile.   *)
THEOREM PromptsAnswerable == VetterdSpec => []PromptsHaveWaiters
  <1>1. VetterdInit => Waited
    <2>1. ASSUME VetterdInit, NEW r \in Requests PROVE Waits(r)
      <3>1. /\ entries[r] = NoRequest /\ handoff[r] = NoVerdict /\ mail[r] = NoVerdict
            /\ hungup = {} /\ worker[r] = "none" /\ NoRequest # r
        BY <2>1, VetterdAssumption DEF VetterdInit, Q!QueueInit
      <3>2. QED
        BY <3>1 DEF Waits
    <2>2. QED
      BY <2>1 DEF Waited
  <1>2. GateInv /\ Waited /\ [VetterdNext]_vars => Waited'
    BY StepWaits
  <1>3. Waited => PromptsHaveWaiters
    BY DEF Waited, Waits, PromptsHaveWaiters, Q!InMap, Q!InHand, Q!Delivered, Q!HungUp
  <1>4. QED
    BY <1>1, <1>2, <1>3, GateInvariant, PTL DEF VetterdSpec
-----------------------------------------------------------------------------
(* The parts the daemon is made of keep their own invariants in it.  What  *)
(* is proved of the allowlist store and of the audit log is used here of   *)
(* the daemon's own (SP); watching for overlapping writes is left out.    *)
SP == INSTANCE Stored_proofs WITH
        IdOf <- [k \in Rules |-> k], muddied <- FALSE,
        Ui <- HasCard, SizeOf <- TwoBytes, WindowStart <- 2

(* What the store asks of its constants. *)
LEMMA StoreAssumed ==
  /\ NoRule \notin Rules
  /\ Rules # {}
  /\ Session \subseteq Rules
  /\ Covers \in [Rules -> SUBSET Requests]
  /\ DOMAIN [k \in Rules |-> k] = Rules
  /\ Denied \subseteq Requests
  /\ Writers \cap Clis = {}
  BY VetterdAssumption

(* What the audit log asks of its constants. *)
LEMMA AuditAssumed ==
  /\ \A row \in AuditRows : HasCard(row) \in BOOLEAN /\ TwoBytes(row) \in Nat \ {0, 1}
  /\ 2 \in Nat \ {0}
  BY DEF HasCard, TwoBytes

(* The store before the first write. *)
LEMMA StoreInitHolds == S!StoreInit => SP!StoreInv
  <1>1. S!StoreInit => SP!StoreInit
    BY DEF S!StoreInit, SP!StoreInit, S!AllWriters, SP!AllWriters
  <1>2. QED
    BY <1>1, SP!StoreInitInv, StoreAssumed, AuditAssumed

(* A writer of the daemon, or a CLI, is a writer of the store. *)
LEMMA WriterHolds ==
  ASSUME SP!StoreInv, NEW w \in Writers \cup Clis, S!WriterStep(w) \/ S!FinishAdd(w)
  PROVE  SP!StoreInv'
  <1>1. w \in SP!AllWriters
    BY DEF SP!AllWriters
  <1>2. SP!WriterStep(w) \/ SP!FinishAdd(w)
    BY DEF S!WriterStep, S!FinishAdd, S!WriteFile, S!LoadStore, S!FailStep, S!InstallStore,
           S!SnapshotStore, S!Drop,
           SP!WriterStep, SP!FinishAdd, SP!WriteFile, SP!LoadStore, SP!FailStep,
           SP!InstallStore, SP!SnapshotStore, SP!Drop
  <1>3. QED
    BY <1>1, <1>2, SP!WriterInv, StoreAssumed, AuditAssumed

(* It begins with a read of the file. *)
LEMMA ReadHolds ==
  ASSUME SP!StoreInv, NEW w \in Writers \cup Clis, NEW job \in RuleJobs, S!ReadFile(w, job)
  PROVE  SP!StoreInv'
  <1>1. w \in SP!AllWriters /\ job \in SP!Jobs
    BY VetterdAssumption DEF SP!AllWriters, SP!Jobs
  <1>2. SP!ReadFile(w, job)
    BY DEF S!ReadFile, S!AtRest, S!Accepted, S!Edited, S!Pruned, S!Elems, S!Kept,
           SP!ReadFile, SP!AtRest, SP!Accepted, SP!Edited, SP!Pruned, SP!Elems, SP!Kept
  <1>3. QED
    BY <1>1, <1>2, SP!ReadFileInv, StoreAssumed, AuditAssumed

(* Every step of the daemon keeps the store's invariant. *)
LEMMA StepStore == SP!StoreInv /\ [VetterdNext]_vars => SP!StoreInv'
  <1> SUFFICES ASSUME SP!StoreInv, [VetterdNext]_vars PROVE SP!StoreInv'
    OBVIOUS
  <1>0. ASSUME UNCHANGED storeVars PROVE SP!StoreInv'
    <2>1. UNCHANGED SP!storeVars
      BY <1>0 DEF storeVars, SP!storeVars
    <2>2. QED
      BY <2>1, SP!StoreAside, StoreAssumed, AuditAssumed
  <1>1. CASE ClientNext
    BY <1>0, <1>1 DEF ClientNext, Connect, ClientReads, ClientLeaves
  <1>2. CASE WorkerNext
    BY <1>0, <1>2
    DEF WorkerNext, WorkerStep, ReadFails, Evaluate, RecordRuling, SubmitPrompt, Wake, AppendRow,
        Reply, Leave
  <1>3. CASE AcceptorNext
    BY <1>0, <1>3 DEF AcceptorNext, AcceptorStarts, Accept, AcceptWouldBlock,
                        CloseListener, AcceptFails, DropListener
  <1>4. CASE ApproverNext
    BY <1>0, <1>4 DEF ApproverNext, Approve, DeliverVerdict
  <1>5. CASE WriterNext
    <2>1. ASSUME NEW w \in Writers \cup Clis, ContinueWrite(w) PROVE SP!StoreInv'
      BY <2>1, WriterHolds DEF ContinueWrite
    <2>2. ASSUME NEW w \in Writers \cup Clis, NEW job \in RuleJobs, BeginWrite(w, job)
          PROVE  SP!StoreInv'
      BY <2>2, ReadHolds DEF BeginWrite
    <2>3. ASSUME NEW w \in Writers, SweepStep(w) PROVE SP!StoreInv'
      <3>1. CASE EndWrite(w)
        BY <3>1, WriterHolds DEF EndWrite
      <3>2. CASE ListPending(w) \/ \E r \in Requests : SweepOne(w, r)
        BY <1>0, <3>2 DEF ListPending, SweepOne
      <3>3. QED
        BY <2>3, <3>1, <3>2 DEF SweepStep
    <2>4. QED
      BY <1>5, <2>1, <2>2, <2>3 DEF WriterNext
  <1>6. ASSUME NEW k \in Rules, RuleExpires(k) PROVE SP!StoreInv'
    <2>1. SP!Expire(k)
      BY <1>6 DEF RuleExpires, S!Expire, SP!Expire
    <2>2. QED
      BY <2>1, SP!ExpireInv, StoreAssumed, AuditAssumed
  <1>7. CASE ProcessNext
    <2>1. CASE ProcessEnds
      <3>1. /\ wpc'  = [w \in Writers \cup Clis |-> IF w \in Writers THEN "idle" ELSE wpc[w]]
            /\ wbuf' = [w \in Writers \cup Clis |-> IF w \in Writers THEN <<>> ELSE wbuf[w]]
            /\ UNCHANGED <<disk, live, expired, wjob>>
        BY <2>1 DEF ProcessEnds
      <3>2. SP!AllWriters = Writers \cup Clis /\ <<>> \in Seq(Rules) /\ SP!Distinct(<<>>)
        BY DEF SP!AllWriters, SP!Distinct
      <3>a. SP!StoreTypeOK /\ SP!RulesUnique
        BY DEF SP!StoreInv
      <3>b. SP!StoreTypeOK'
        BY <3>1, <3>2, <3>a DEF SP!StoreTypeOK, SP!AllWriters, SP!Jobs
      <3>3. SP!RulesUnique'
        <4>1. disk' = disk /\ live' = live
          BY <3>1
        <4>2. QED
          BY <4>1, <3>a DEF SP!RulesUnique
      <3>4. ASSUME NEW w \in Writers \cup Clis PROVE SP!Distinct(wbuf'[w])
        <4>1. SP!Distinct(wbuf[w])
          BY <3>2 DEF SP!StoreInv, SP!HeldUnique
        <4>2. wbuf'[w] = <<>> \/ wbuf'[w] = wbuf[w]
          BY <3>1
        <4>3. QED
          BY <3>2, <4>1, <4>2
      <3>5. SP!HeldUnique'
        BY <3>2, <3>4 DEF SP!HeldUnique, SP!AllWriters
      <3>6. QED
        BY <3>b, <3>3, <3>5 DEF SP!StoreInv
    <2>2. CASE Start
      <3>1. live' = disk /\ UNCHANGED <<disk, expired, wpc, wjob, wbuf>>
        BY <2>2 DEF Start
      <3>2. SP!StoreTypeOK /\ SP!RulesUnique /\ SP!HeldUnique
        BY DEF SP!StoreInv
      <3>3. SP!StoreTypeOK'
        BY <3>1, <3>2 DEF SP!StoreTypeOK, SP!AllWriters, SP!Jobs
      <3>4. SP!RulesUnique'
        BY <3>1, <3>2 DEF SP!RulesUnique, SP!Distinct
      <3>5. SP!HeldUnique'
        BY <3>1, <3>2 DEF SP!HeldUnique, SP!Distinct, SP!AllWriters
      <3>6. QED
        BY <3>3, <3>4, <3>5 DEF SP!StoreInv
    <2>3. CASE Signal \/ MainCancels
      BY <1>0, <2>3 DEF Signal, MainCancels
    <2>4. QED
      BY <1>7, <2>1, <2>2, <2>3 DEF ProcessNext, Exit, Crash
  <1>8. CASE UNCHANGED vars
    BY <1>0, <1>8 DEF vars
  <1>9. QED
    BY <1>1, <1>2, <1>3, <1>4, <1>5, <1>6, <1>7, <1>8 DEF VetterdNext

-----------------------------------------------------------------------------
(* The history ring and the log of this daemon.                            *)
QP == INSTANCE PendingQueue_proofs
        WITH Past <- {}, Ids <- Requests, IdOf <- [r \in Requests |-> r]

(* What the queue asks of its constants. *)
LEMMA QueueAssumed ==
  /\ [r \in Requests |-> r] \in [Requests -> Requests]
  /\ NoRequest \notin Requests
  /\ NoVerdict \notin Verdicts
  /\ ResolvedCap \in Nat \ {0}
  BY VetterdAssumption, VerdictFacts

(* The rows of the ring are those of the log. *)
LEMMA RowsAlike == Q!Rows = AuditRows /\ QP!Rows = AuditRows
  BY DEF Q!Rows, QP!Rows, AuditRows

(* A push on the ring. *)
LEMMA RingPush ==
  ASSUME Q!QueueTypeOK, NEW r \in Requests, NEW v \in Verdicts,
         resolved' = Q!PushFront(Q!Row(r, v), resolved)
  PROVE  /\ resolved' \in Seq(AuditRows) /\ Len(resolved') <= ResolvedCap
         /\ \A k \in 1 .. Len(resolved') :
              \/ resolved'[k] = [req |-> r, verdict |-> v]
              \/ \E j \in 1 .. Len(resolved) : resolved'[k] = resolved[j]
  <1>1. resolved \in Seq(AuditRows) /\ Len(resolved) <= ResolvedCap
    BY RowsAlike DEF Q!QueueTypeOK
  <1>2. PICK row \in AuditRows : row = [req |-> r, verdict |-> v]
    BY DEF AuditRows
  <1>3. resolved' = QP!PushFront(row, resolved)
    BY <1>2 DEF Q!PushFront, QP!PushFront, Q!Row
  <1>4. row \in QP!Rows /\ resolved \in Seq(QP!Rows)
    BY <1>1, RowsAlike
  <1>5. /\ resolved' \in Seq(QP!Rows) /\ Len(resolved') <= ResolvedCap
        /\ \A k \in DOMAIN resolved' :
             \/ k = 1 /\ resolved'[k] = row
             \/ k - 1 \in DOMAIN resolved /\ resolved'[k] = resolved[k - 1]
    BY <1>1, <1>3, <1>4, QP!PushFrontRing, QueueAssumed
  <1>6. resolved' \in Seq(AuditRows) /\ DOMAIN resolved' = 1 .. Len(resolved')
    BY <1>5, RowsAlike
  <1>7. ASSUME NEW k \in 1 .. Len(resolved')
        PROVE  resolved'[k] = row \/ \E j \in 1 .. Len(resolved) : resolved'[k] = resolved[j]
    <2>1. DOMAIN resolved = 1 .. Len(resolved)
      BY <1>1
    <2>2. QED
      BY <1>5, <1>6, <2>1
  <1>8. QED
    BY <1>2, <1>5, <1>6, <1>7

(* What a new daemon puts in its ring: rows of the log that have a card.   *)
LEMMA RingWarm ==
  ASSUME A!AuditTypeOK, resolved' \in {Q!WarmedWith(WarmRows, <<>>), <<>>}
  PROVE  /\ resolved' \in Seq(AuditRows) /\ Len(resolved') <= ResolvedCap
         /\ \A k \in 1 .. Len(resolved') :
              \E i \in 1 .. Len(log) : resolved'[k] = log[i].row /\ HasCard(log[i].row)
  <1>1. log \in Seq(SP!Pieces)
    BY DEF A!AuditTypeOK, A!Pieces, SP!Pieces
  <1>a. WarmRows = SP!TailResolved(ResolvedCap)
    BY DEF WarmRows, A!TailResolved, SP!TailResolved, A!RowsFrom, SP!RowsFrom, A!FirstPiece,
           SP!FirstPiece, A!FileSize, SP!FileSize, A!EndOf, SP!EndOf, A!NewestFirst,
           SP!NewestFirst, A!Parses, SP!Parses, A!Whole, SP!Whole, A!Kept, SP!Kept
  <1>2. PICK rows : rows = WarmRows /\ rows = SP!TailResolved(ResolvedCap)
    BY <1>a
  <1>3. ResolvedCap \in Nat
    BY VetterdAssumption
  <1>4. /\ rows \in Seq(AuditRows)
        /\ \A k \in 1 .. Len(rows) :
             \E i \in 1 .. Len(log) : rows[k] = log[i].row /\ HasCard(log[i].row)
    <2>1. /\ SP!TailResolved(ResolvedCap) \in Seq(AuditRows)
          /\ \A k \in 1 .. Len(SP!TailResolved(ResolvedCap)) :
               \E i \in 1 .. Len(log) :
                 /\ SP!TailResolved(ResolvedCap)[k] = log[i].row
                 /\ HasCard(log[i].row)
      BY <1>1, <1>3, SP!TailRows, StoreAssumed, AuditAssumed
    <2>2. QED
      BY <1>2, <2>1
  <1>5. CASE resolved' = <<>>
    BY <1>3, <1>5
  <1>6. CASE resolved' = Q!WarmedWith(WarmRows, <<>>)
    <2>1. resolved' = QP!WarmedWith(rows, <<>>)
      BY <1>2, <1>6 DEF Q!WarmedWith, QP!WarmedWith
    <2>2. rows \in Seq(QP!Rows)
      BY <1>4, RowsAlike
    <2>3. /\ resolved' \in Seq(QP!Rows) /\ Len(resolved') <= ResolvedCap
          /\ \A k \in 1 .. Len(resolved') : k \in 1 .. Len(rows) /\ resolved'[k] = rows[k]
      BY <2>1, <2>2, QP!WarmedOf, QueueAssumed
    <2>4. resolved' \in Seq(AuditRows)
      BY <2>3, RowsAlike
    <2>5. ASSUME NEW k \in 1 .. Len(resolved')
          PROVE  \E i \in 1 .. Len(log) : resolved'[k] = log[i].row /\ HasCard(log[i].row)
      <3>1. k \in 1 .. Len(rows) /\ resolved'[k] = rows[k]
        BY <2>3
      <3>2. QED
        BY <1>4, <3>1
    <2>6. QED
      BY <2>3, <2>4, <2>5
  <1>7. QED
    BY <1>5, <1>6

(* What a worker appends to the log is its own row, whole or torn.         *)
LEMMA LogGrows ==
  ASSUME GateInv, A!AuditTypeOK, NEW r \in Requests, AppendRow(r)
  PROVE  /\ A!AuditTypeOK'
         /\ \A i \in 1 .. Len(log') :
              \/ i \in 1 .. Len(log) /\ log'[i] = log[i]
              \/ log'[i].row = [req |-> r, verdict |-> said[r]]
  <1>1. PICK row \in AuditRows : row = AuditRow(r) /\ row = [req |-> r, verdict |-> said[r]]
    BY DEF AppendRow, Step, GateInv, Sound, AuditRow, AuditRows
  <1>2. log \in Seq(A!Pieces) /\ synced \in 0 .. Len(log) /\ tried \subseteq AuditRows
        /\ acked \subseteq tried
    BY DEF A!AuditTypeOK
  <1>3. ASSUME NEW n \in 1 .. 2, log' = Append(log, A!Piece(row, n))
        PROVE  /\ log' \in Seq(A!Pieces) /\ Len(log') = Len(log) + 1
               /\ \A i \in 1 .. Len(log') :
                    \/ i \in 1 .. Len(log) /\ log'[i] = log[i]
                    \/ log'[i].row = row
    <2>a. A!Piece(row, n) \in A!Pieces
      BY DEF A!Pieces, A!Piece, TwoBytes
    <2>1. PICK piece \in A!Pieces : piece = A!Piece(row, n)
      BY <2>a
    <2>2. piece.row = row
      BY <2>1 DEF A!Piece
    <2>3. QED
      BY <1>2, <1>3, <2>1, <2>2
  <1>4. CASE A!AppendOk(row)
    <2>1. log' = Append(log, A!Piece(row, 2)) /\ synced' = Len(log')
          /\ tried' = tried \cup {row} /\ acked' = acked \cup {row}
      BY <1>4 DEF A!AppendOk, TwoBytes
    <2>2. /\ log' \in Seq(A!Pieces) /\ Len(log') = Len(log) + 1
          /\ \A i \in 1 .. Len(log') :
               \/ i \in 1 .. Len(log) /\ log'[i] = log[i]
               \/ log'[i].row = row
      BY <1>3, <2>1
    <2>3. QED
      BY <1>1, <1>2, <2>1, <2>2 DEF A!AuditTypeOK
  <1>5. ASSUME NEW n \in 0 .. 2, A!AppendFails(row, n)
        PROVE  /\ A!AuditTypeOK'
               /\ \A i \in 1 .. Len(log') :
                    \/ i \in 1 .. Len(log) /\ log'[i] = log[i]
                    \/ log'[i].row = row
    <2>1. log' = (IF n = 0 THEN log ELSE Append(log, A!Piece(row, n)))
          /\ tried' = tried \cup {row} /\ UNCHANGED <<synced, acked>>
      BY <1>5 DEF A!AppendFails
    <2>2. CASE n = 0
      BY <1>2, <2>1, <2>2 DEF A!AuditTypeOK
    <2>3. CASE n # 0
      <3>1. /\ log' \in Seq(A!Pieces) /\ Len(log') = Len(log) + 1
            /\ \A i \in 1 .. Len(log') :
                 \/ i \in 1 .. Len(log) /\ log'[i] = log[i]
                 \/ log'[i].row = row
        BY <1>3, <2>1, <2>3
      <3>2. QED
        BY <1>2, <2>1, <3>1 DEF A!AuditTypeOK
    <2>4. QED
      BY <2>2, <2>3
  <1>6. A!AppendOk(row) \/ \E n \in 0 .. 2 : A!AppendFails(row, n)
    BY <1>1 DEF AppendRow, TwoBytes
  <1>7. QED
    BY <1>1, <1>4, <1>5, <1>6

-----------------------------------------------------------------------------
(* The types.  The queue's, the store's and the log's are proved apart;    *)
(* what is left of the type invariant is Plain, and the cap on the count.  *)
Plain ==
  /\ sweep    \in [Writers -> [listed : BOOLEAN, ids : SUBSET Requests]]
  /\ phase    \in {"serving", "cancelled", "down"}
  /\ shutdown \in BOOLEAN
  /\ acceptor \in {"poll", "armed", "closing", "stopped"}
  /\ starts   \in 1 .. MaxStarts
  /\ driver   \in Drivers

Capped == inflight <= MaxInflight

(* A verdict taken out of the map keeps the queue's types. *)
LEMMA ResolveTypes ==
  ASSUME GateInv, Q!QueueTypeOK, Waited, NEW r \in Requests, NEW v \in Verdicts, Q!Resolve(r, v)
  PROVE  Q!QueueTypeOK'
  <1>1. entries[r] = r
    BY DEF Q!Resolve, Waited, Waits
  <1>2. /\ entries' = [entries EXCEPT ![r] = NoRequest] /\ handoff' = [handoff EXCEPT ![r] = v]
        /\ resolved' = Q!PushFront(Q!Row(r, v), resolved) /\ UNCHANGED <<calls, raised, mail, hungup>>
    BY <1>1 DEF Q!Resolve
  <1>3. resolved' \in Seq(AuditRows) /\ Len(resolved') <= ResolvedCap
    BY <1>2, RingPush
  <1>4. QED
    BY <1>2, <1>3, RowsAlike DEF Q!QueueTypeOK

(* So does a worker's step. *)
LEMMA WorkerTypes ==
  ASSUME GateInv, Q!QueueTypeOK, Waited, NEW r \in Requests, WorkerStep(r)
  PROVE  Q!QueueTypeOK'
  <1>1. CASE RecordRuling(r)
    <2>1. worker[r] = "auto" /\ Q!RecordAuto(r, said[r])
      BY <1>1 DEF RecordRuling, Step
    <2>2. said[r] \in Verdicts
      BY <2>1 DEF GateInv, Sound
    <2>3. /\ calls' = [calls EXCEPT ![r] = "auto"]
          /\ resolved' = Q!PushFront(Q!Row(r, said[r]), resolved)
          /\ UNCHANGED <<entries, raised, handoff, mail, hungup>>
      BY <2>1 DEF Q!RecordAuto
    <2>4. resolved' \in Seq(AuditRows) /\ Len(resolved') <= ResolvedCap
      BY <2>2, <2>3, RingPush
    <2>5. QED
      BY <2>3, <2>4, RowsAlike DEF Q!QueueTypeOK
  <1>2. CASE SubmitPrompt(r)
    <2>1. /\ calls' = [calls EXCEPT ![r] = "parked"]
          /\ raised' = raised \cup {r} \/ raised' = raised
          /\ hungup' = hungup \cup ({entries[r]} \ {NoRequest})
          /\ entries' = [entries EXCEPT ![r] = r]
          /\ UNCHANGED <<handoff, mail, resolved>>
      BY <1>2 DEF SubmitPrompt, Q!Submit
    <2>2. QED
      BY <2>1 DEF Q!QueueTypeOK
  <1>3. CASE UNCHANGED queueVars
    BY <1>3 DEF Q!QueueTypeOK, queueVars
  <1>4. QED
    BY <1>1, <1>2, <1>3
    DEF WorkerStep, ReadFails, Evaluate, Wake, AppendRow, Reply, Leave

(* Every step keeps the types of the queue. *)
LEMMA StepQueueTypes ==
  GateInv /\ Waited /\ Q!QueueTypeOK /\ A!AuditTypeOK /\ [VetterdNext]_vars => Q!QueueTypeOK'
  <1> SUFFICES ASSUME GateInv, Waited, Q!QueueTypeOK, A!AuditTypeOK, [VetterdNext]_vars
               PROVE  Q!QueueTypeOK'
    OBVIOUS
  <1>0. ASSUME UNCHANGED queueVars PROVE Q!QueueTypeOK'
    BY <1>0 DEF Q!QueueTypeOK, queueVars
  <1>1. CASE ClientNext
    BY <1>0, <1>1 DEF ClientNext, Connect, ClientReads, ClientLeaves
  <1>2. CASE WorkerNext
    BY <1>2, WorkerTypes DEF WorkerNext
  <1>3. CASE AcceptorNext
    BY <1>0, <1>3 DEF AcceptorNext, AcceptorStarts, Accept, AcceptWouldBlock,
                        CloseListener, AcceptFails, DropListener
  <1>4. CASE ApproverNext
    <2>1. ASSUME NEW r \in Requests, NEW d \in {"allow", "deny"}, Approve(r, d)
          PROVE  Q!QueueTypeOK'
      BY <2>1, VerdictFacts, ResolveTypes DEF Approve
    <2>2. ASSUME NEW r \in Requests, DeliverVerdict(r) PROVE Q!QueueTypeOK'
      BY <2>2 DEF DeliverVerdict, Q!Deliver, Q!QueueTypeOK
    <2>3. QED
      BY <1>4, <2>1, <2>2 DEF ApproverNext
  <1>5. CASE WriterNext
    <2>1. ASSUME NEW w \in Writers, NEW r \in Requests, SweepOne(w, r) PROVE Q!QueueTypeOK'
      <3>1. UNCHANGED queueVars \/ Q!Resolve(r, Verdict("allow", "newrule"))
        BY <2>1 DEF SweepOne
      <3>2. QED
        BY <1>0, <3>1, VerdictFacts, ResolveTypes
    <2>2. QED
      BY <1>0, <1>5, <2>1
      DEF WriterNext, ContinueWrite, BeginWrite, SweepStep, ListPending, EndWrite
  <1>6. CASE \E k \in Rules : RuleExpires(k)
    BY <1>0, <1>6 DEF RuleExpires
  <1>7. CASE ProcessNext
    <2>1. CASE ProcessEnds
      BY <2>1, VetterdAssumption DEF ProcessEnds, Q!QueueTypeOK
    <2>2. CASE MainCancels
      BY <2>2, VetterdAssumption DEF MainCancels, Q!CancelAll, Q!Pending, Q!QueueTypeOK
    <2>3. CASE Signal
      BY <1>0, <2>3 DEF Signal
    <2>4. CASE Start
      <3>1. /\ resolved' \in {Q!WarmedWith(WarmRows, <<>>), <<>>}
            /\ UNCHANGED <<entries, calls, raised, handoff, mail, hungup>>
        BY <2>4 DEF Start
      <3>2. resolved' \in Seq(AuditRows) /\ Len(resolved') <= ResolvedCap
        BY <3>1, RingWarm
      <3>3. QED
        BY <3>1, <3>2, RowsAlike DEF Q!QueueTypeOK
    <2>5. QED
      BY <1>7, <2>1, <2>2, <2>3, <2>4 DEF ProcessNext, Exit, Crash
  <1>8. CASE UNCHANGED vars
    BY <1>0, <1>8 DEF vars
  <1>9. QED
    BY <1>1, <1>2, <1>3, <1>4, <1>5, <1>6, <1>7, <1>8 DEF VetterdNext

(* Every step keeps the types of the log: only a worker's append is one.   *)
LEMMA StepAuditTypes == GateInv /\ A!AuditTypeOK /\ [VetterdNext]_vars => A!AuditTypeOK'
  <1> SUFFICES ASSUME GateInv, A!AuditTypeOK, [VetterdNext]_vars PROVE A!AuditTypeOK'
    OBVIOUS
  <1>0. ASSUME UNCHANGED auditVars PROVE A!AuditTypeOK'
    BY <1>0 DEF A!AuditTypeOK, auditVars
  <1>1. CASE WorkerNext
    <2>1. ASSUME NEW r \in Requests, AppendRow(r) PROVE A!AuditTypeOK'
      BY <2>1, LogGrows
    <2>2. QED
      BY <1>0, <1>1, <2>1
      DEF WorkerNext, WorkerStep, ReadFails, Evaluate, RecordRuling, SubmitPrompt, Wake, Reply,
          Leave
  <1>2. CASE ~WorkerNext
    BY <1>0, <1>2
    DEF VetterdNext, ClientNext, Connect, ClientReads, ClientLeaves, AcceptorNext,
        AcceptorStarts, Accept, AcceptWouldBlock, CloseListener, AcceptFails, DropListener,
        ApproverNext, Approve, DeliverVerdict, WriterNext, ContinueWrite, BeginWrite, SweepStep, ListPending, SweepOne,
        EndWrite, RuleExpires, ProcessNext, Signal, MainCancels, Exit, Crash, ProcessEnds,
        Start, vars
  <1>3. QED
    BY <1>1, <1>2

(* Every step keeps the plain part of the types. *)
LEMMA StepPlain == Plain /\ [VetterdNext]_vars => Plain'
  <1> SUFFICES ASSUME Plain, [VetterdNext]_vars PROVE Plain'
    OBVIOUS
  <1>0. ASSUME UNCHANGED <<sweep, procVars>> PROVE Plain'
    BY <1>0 DEF Plain, procVars, bootVars
  <1>1. CASE ClientNext \/ ApproverNext \/ \E k \in Rules : RuleExpires(k)
    BY <1>0, <1>1
    DEF ClientNext, Connect, ClientReads, ClientLeaves, ApproverNext, Approve, DeliverVerdict,
        RuleExpires
  <1>2. CASE WorkerNext
    <2>1. ASSUME NEW r \in Requests, Leave(r) PROVE Plain'
      BY <2>1 DEF Leave, Plain, bootVars
    <2>2. QED
      BY <1>0, <1>2, <2>1
      DEF WorkerNext, WorkerStep, ReadFails, Evaluate, RecordRuling, SubmitPrompt, Wake,
          AppendRow, Reply
  <1>3. CASE AcceptorNext
    BY <1>3
    DEF AcceptorNext, AcceptorStarts, Accept, AcceptWouldBlock, CloseListener, AcceptFails,
        DropListener, NextIteration, Plain, bootVars
  <1>4. CASE WriterNext
    <2>1. ASSUME NEW w \in Writers, ListPending(w) PROVE Plain'
      BY <2>1 DEF ListPending, Q!Pending, Plain, procVars, bootVars
    <2>2. ASSUME NEW w \in Writers, NEW r \in Requests, SweepOne(w, r) PROVE Plain'
      <3>1. /\ sweep' = [sweep EXCEPT ![w].ids = @ \ {r}] /\ UNCHANGED procVars
            /\ sweep[w].ids \subseteq Requests
        BY <2>2 DEF SweepOne, Plain
      <3>2. QED
        BY <3>1 DEF Plain, procVars, bootVars
    <2>3. ASSUME NEW w \in Writers, EndWrite(w) PROVE Plain'
      BY <2>3 DEF EndWrite, NoSweep, Plain, procVars, bootVars
    <2>4. QED
      BY <1>0, <1>4, <2>1, <2>2, <2>3 DEF WriterNext, ContinueWrite, BeginWrite, SweepStep
  <1>5. CASE ProcessNext
    <2>1. CASE ProcessEnds
      BY <2>1 DEF ProcessEnds, NoSweep, Plain, bootVars
    <2>2. CASE Signal \/ MainCancels
      BY <2>2 DEF Signal, MainCancels, Plain, bootVars
    <2>3. CASE Start
      BY <2>3, VetterdAssumption DEF Start, Plain
    <2>4. QED
      BY <1>5, <2>1, <2>2, <2>3 DEF ProcessNext, Exit, Crash
  <1>6. CASE UNCHANGED vars
    BY <1>0, <1>6 DEF vars
  <1>7. QED
    BY <1>1, <1>2, <1>3, <1>4, <1>5, <1>6 DEF VetterdNext

(* Slots are counted in natural numbers, one for each thread. *)
LEMMA CountIsNat ==
  ASSUME Counted
  PROVE  inflight \in Nat /\ ((\E r \in Requests : r \in Threads) => inflight # 0)
  <1>1. IsFiniteSet(Threads)
    BY FS_Subset, VetterdAssumption DEF Threads
  <1>2. Cardinality(Threads) \in Nat /\ (Cardinality(Threads) = 0 <=> Threads = {})
    BY <1>1, FS_CardinalityType, FS_EmptySet
  <1>3. QED
    BY <1>2 DEF Counted

(* No step takes a slot beyond the cap. *)
LEMMA StepCapped == Counted /\ Capped /\ [VetterdNext]_vars => Capped'
  <1> SUFFICES ASSUME Counted, Capped, [VetterdNext]_vars PROVE Capped'
    OBVIOUS
  <1>1. inflight \in Nat /\ MaxInflight \in Nat
    BY CountIsNat, VetterdAssumption
  <1>2. ASSUME NEW r \in Requests, Accept(r) PROVE Capped'
    BY <1>1, <1>2 DEF Accept, Capped
  <1>3. ASSUME NEW r \in Requests, Leave(r) PROVE Capped'
    BY <1>1, <1>3 DEF Leave, Capped
  <1>4. CASE ProcessEnds
    BY <1>1, <1>4 DEF ProcessEnds, Capped
  <1>5. CASE inflight' = inflight
    BY <1>5 DEF Capped
  <1>6. CASE ClientNext \/ ApproverNext \/ \E k \in Rules : RuleExpires(k)
    BY <1>5, <1>6
    DEF ClientNext, Connect, ClientReads, ClientLeaves, ApproverNext, Approve, DeliverVerdict,
        RuleExpires, procVars
  <1>7. CASE WorkerNext
    BY <1>3, <1>5, <1>7
    DEF WorkerNext, WorkerStep, ReadFails, Evaluate, RecordRuling, SubmitPrompt, Wake, AppendRow,
        Reply, procVars
  <1>8. CASE AcceptorNext
    BY <1>2, <1>5, <1>8
    DEF AcceptorNext, AcceptorStarts, AcceptWouldBlock, CloseListener, AcceptFails, DropListener
  <1>9. CASE WriterNext
    BY <1>5, <1>9
    DEF WriterNext, ContinueWrite, BeginWrite, SweepStep, ListPending, SweepOne, EndWrite,
        procVars
  <1>10. CASE ProcessNext
    BY <1>4, <1>5, <1>10 DEF ProcessNext, Exit, Crash, Signal, MainCancels, Start
  <1>11. CASE UNCHANGED vars
    BY <1>5, <1>11 DEF vars, procVars
  <1>12. QED
    BY <1>6, <1>7, <1>8, <1>9, <1>10, <1>11 DEF VetterdNext

(* Everything the types rest on, together. *)
TypeInv ==
  /\ Waited
  /\ Counted
  /\ Q!QueueTypeOK
  /\ A!AuditTypeOK
  /\ SP!StoreInv
  /\ Plain
  /\ Capped

(* The first daemon starts with it. *)
LEMMA InitTypes == VetterdInit => TypeInv
  <1> SUFFICES ASSUME VetterdInit PROVE TypeInv
    OBVIOUS
  <1>1. Waited
    <2>1. ASSUME NEW r \in Requests PROVE Waits(r)
      <3>1. /\ entries[r] = NoRequest /\ handoff[r] = NoVerdict /\ mail[r] = NoVerdict
            /\ hungup = {} /\ worker[r] = "none" /\ NoRequest # r
        BY VetterdAssumption DEF VetterdInit, Q!QueueInit
      <3>2. QED
        BY <3>1 DEF Waits
    <2>2. QED
      BY <2>1 DEF Waited
  <1>2. Counted /\ Capped
    <2>1. inflight = 0 /\ Threads = {}
      BY DEF VetterdInit, FreshProcess, Threads
    <2>2. QED
      BY <2>1, FS_EmptySet, VetterdAssumption DEF Counted, Capped
  <1>3. Q!QueueTypeOK
    BY VetterdAssumption DEF VetterdInit, Q!QueueInit, Q!QueueTypeOK
  <1>4. A!AuditTypeOK
    BY DEF VetterdInit, A!AuditInit, A!AuditTypeOK
  <1>5. SP!StoreInv
    BY StoreInitHolds DEF VetterdInit
  <1>6. Plain
    <2>1. starts = 1 /\ driver \in Drivers /\ 1 \in 1 .. MaxStarts
      BY VetterdAssumption DEF VetterdInit
    <2>2. QED
      BY <2>1 DEF VetterdInit, FreshProcess, NoSweep, Plain
  <1>7. QED
    BY <1>1, <1>2, <1>3, <1>4, <1>5, <1>6 DEF TypeInv

(* The types are kept by every step of every client, worker, approver,     *)
(* writer and process, restarts included.                                  *)
THEOREM TypesInvariant == VetterdSpec => []TypeInv
  <1>1. GateInv /\ TypeInv /\ [VetterdNext]_vars => TypeInv'
    BY StepWaits, StepCounts, StepQueueTypes, StepAuditTypes, StepStore, StepPlain, StepCapped
    DEF TypeInv
  <1>2. QED
    BY <1>1, InitTypes, GateInvariant, PTL DEF VetterdSpec

(* Every variable of the daemon has its type; the history never outgrows   *)
(* its cap, and the inflight count never goes below zero or above its cap. *)
THEOREM DaemonTypes == VetterdSpec => []VetterdTypeOK
  <1>1. GateInv /\ TypeInv => VetterdTypeOK
    <2> SUFFICES ASSUME GateInv, TypeInv PROVE VetterdTypeOK
      OBVIOUS
    <2>1. S!StoreTypeOK
      BY DEF TypeInv, SP!StoreInv, SP!StoreTypeOK, S!StoreTypeOK, SP!AllWriters, S!AllWriters,
             SP!Jobs, S!Jobs
    <2>2. inflight \in 0 .. MaxInflight
      BY CountIsNat, VetterdAssumption DEF TypeInv, Capped
    <2>3. QED
      BY <2>1, <2>2 DEF VetterdTypeOK, TypeInv, Plain, GateInv, GateTypeOK, Places
  <1>2. QED
    BY <1>1, GateInvariant, TypesInvariant, PTL

-----------------------------------------------------------------------------
(* One story.  What is decided about a request is said by its worker, or   *)
(* on its way there (Final); once there is something, no step of the same  *)
(* daemon changes it.  A row of the history, or of the log, shows it.      *)
Final(r) == IF said[r] # NoVerdict THEN said[r] ELSE Q!Answer(r)

Settled(r) ==
  /\ r \in hungup => handoff[r] = NoVerdict /\ mail[r] = NoVerdict
  /\ handoff[r] # NoVerdict => mail[r] = NoVerdict
  /\ worker[r] = "auto" => r \notin Unparseable
  /\ r \in Unparseable => said[r] \in {NoVerdict, Verdict("deny", "parse")}

TrueRow(row) == row.req \notin Unparseable /\ row.verdict = Final(row.req)
TrueRing     == \A k \in 1 .. Len(resolved) : TrueRow(resolved[k])
TrueLog      == \A i \in 1 .. Len(log) : log[i].row.verdict = said[log[i].row.req]

StoryInv ==
  /\ \A r \in Requests : Settled(r)
  /\ TrueRing
  /\ TrueLog

(* A verdict that is there is kept. *)
Keeps(r) == Final(r) # NoVerdict => Final(r)' = Final(r)

(* A worker's step settles nothing anew except by what it was told. *)
LEMMA WorkerSettles ==
  ASSUME GateInv, Waited, NEW r \in Requests, WorkerStep(r), \A q \in Requests : Settled(q)
  PROVE  \A q \in Requests : Settled(q)' /\ Keeps(q) /\ (said[q] # NoVerdict => said'[q] = said[q])
  <1>1. ASSUME UNCHANGED <<hungup, handoff, mail, said>>, worker'[r] # "auto",
               \A q \in Requests \ {r} : worker'[q] = worker[q]
        PROVE  \A q \in Requests : Settled(q)' /\ Keeps(q) /\ said'[q] = said[q]
    BY <1>1 DEF Settled, Keeps, Final, Q!Answer
  <1>2. CASE Evaluate(r)
    <2>1. /\ worker[r] = "read" /\ said' = [said EXCEPT ![r] = Ruling(r)]
          /\ UNCHANGED <<hungup, handoff, mail>>
          /\ worker' = [worker EXCEPT ![r] =
               IF r \in Unparseable THEN "audit" ELSE IF Ruling(r) = NoVerdict THEN "submit"
               ELSE "auto"]
      BY <1>2 DEF Evaluate, Step, queueVars
    <2>2. said[r] = NoVerdict /\ handoff[r] = NoVerdict /\ mail[r] = NoVerdict
      BY <2>1 DEF GateInv, Sound, Waited, Waits
    <2>3. /\ worker'[r] = "auto" => r \notin Unparseable
          /\ r \in Unparseable => Ruling(r) = Verdict("deny", "parse")
          /\ \A q \in Requests \ {r} : worker'[q] = worker[q] /\ said'[q] = said[q]
          /\ said'[r] = Ruling(r)
      BY <2>1 DEF GateInv, GateTypeOK, Ruling
    <2>4. ASSUME NEW q \in Requests
          PROVE  Settled(q)' /\ Keeps(q) /\ (said[q] # NoVerdict => said'[q] = said[q])
      <3>1. Settled(q)
        OBVIOUS
      <3>2. CASE q = r
        BY <2>1, <2>2, <2>3, <3>1, <3>2 DEF Settled, Keeps, Final, Q!Answer
      <3>3. CASE q # r
        BY <2>1, <2>3, <3>1, <3>3 DEF Settled, Keeps, Final, Q!Answer
      <3>4. QED
        BY <3>2, <3>3
    <2>5. QED
      BY <2>4
  <1>3. CASE Wake(r)
    <2>1. /\ worker[r] = "parked" /\ UNCHANGED <<hungup, handoff, mail>>
          /\ worker' = [worker EXCEPT ![r] = "audit"]
          /\ said' = [said EXCEPT ![r] = IF mail[r] # NoVerdict THEN mail[r]
                                         ELSE Verdict("deny", "shutdown")]
          /\ mail[r] # NoVerdict \/ r \in hungup
      BY <1>3 DEF Wake, Step, queueVars
    <2>2. said[r] = NoVerdict /\ r \notin Unparseable
      BY <2>1 DEF GateInv, Sound, Barred
    <2>3. /\ \A q \in Requests \ {r} : worker'[q] = worker[q] /\ said'[q] = said[q]
          /\ worker'[r] = "audit"
          /\ said'[r] = IF mail[r] # NoVerdict THEN mail[r] ELSE Verdict("deny", "shutdown")
      BY <2>1 DEF GateInv, GateTypeOK
    <2>4. ASSUME NEW q \in Requests
          PROVE  Settled(q)' /\ Keeps(q) /\ (said[q] # NoVerdict => said'[q] = said[q])
      <3>1. Settled(q)
        OBVIOUS
      <3>2. CASE q = r
        BY <2>1, <2>2, <2>3, <3>1, <3>2, VerdictFacts DEF Settled, Keeps, Final, Q!Answer
      <3>3. CASE q # r
        BY <2>1, <2>3, <3>1, <3>3 DEF Settled, Keeps, Final, Q!Answer
      <3>4. QED
        BY <3>2, <3>3
    <2>5. QED
      BY <2>4
  <1>4. CASE SubmitPrompt(r)
    <2>1. /\ worker[r] = "submit" /\ worker' = [worker EXCEPT ![r] = "parked"]
          /\ hungup' = hungup \cup ({entries[r]} \ {NoRequest})
          /\ UNCHANGED <<handoff, mail, said>>
      BY <1>4 DEF SubmitPrompt, Step, Q!Submit
    <2>2. entries[r] = NoRequest
      BY <2>1 DEF Waited, Waits
    <2>3. hungup' = hungup /\ worker'[r] # "auto" /\ \A q \in Requests \ {r} : worker'[q] = worker[q]
      BY <2>1, <2>2 DEF GateInv, GateTypeOK
    <2>4. QED
      BY <1>1, <2>1, <2>3
  <1>5. CASE ReadFails(r) \/ RecordRuling(r) \/ AppendRow(r) \/ Reply(r) \/ Leave(r)
    <2>1. UNCHANGED <<hungup, handoff, mail, said>>
      BY <1>5 DEF ReadFails, RecordRuling, Q!RecordAuto, AppendRow, Reply, Leave, queueVars
    <2>2. \E to \in {"leave", "audit", "reply", "ended"} : worker' = [worker EXCEPT ![r] = to]
      BY <1>5 DEF ReadFails, RecordRuling, AppendRow, Reply, Leave, Step
    <2>3. worker'[r] # "auto" /\ \A q \in Requests \ {r} : worker'[q] = worker[q]
      BY <2>2 DEF GateInv, GateTypeOK
    <2>4. QED
      BY <1>1, <2>1, <2>3
  <1>6. QED
    BY <1>2, <1>3, <1>4, <1>5 DEF WorkerStep

(* A verdict taken out of the map is the first about its request. *)
LEMMA ResolveSettles ==
  ASSUME GateInv, Waited, NEW r \in Requests, NEW v \in Verdicts, Q!Resolve(r, v),
         UNCHANGED connVars, \A q \in Requests : Settled(q)
  PROVE  /\ \A q \in Requests : Settled(q)' /\ Keeps(q)
         /\ r \notin Unparseable /\ Final(r)' = v
         /\ resolved' = Q!PushFront(Q!Row(r, v), resolved)
  <1>1. /\ entries[r] = r /\ handoff[r] = NoVerdict /\ mail[r] = NoVerdict /\ r \notin hungup
        /\ worker[r] = "parked"
    BY DEF Q!Resolve, Waited, Waits
  <1>2. /\ handoff' = [handoff EXCEPT ![r] = v]
        /\ resolved' = Q!PushFront(Q!Row(r, v), resolved)
        /\ UNCHANGED <<mail, hungup, worker, said>>
    BY <1>1 DEF Q!Resolve, connVars
  <1>3. said[r] = NoVerdict /\ r \notin Unparseable /\ v # NoVerdict
    BY <1>1, VerdictFacts DEF GateInv, Sound, Barred
  <1>4. handoff'[r] = v /\ \A q \in Requests \ {r} : handoff'[q] = handoff[q]
    BY <1>2 DEF GateInv, GateTypeOK
  <1>5. Final(r)' = v
    BY <1>2, <1>3, <1>4 DEF Final, Q!Answer
  <1>6. ASSUME NEW q \in Requests PROVE Settled(q)' /\ Keeps(q)
    <2>1. Settled(q)
      OBVIOUS
    <2>2. CASE q = r
      BY <1>1, <1>2, <1>3, <1>4, <2>1, <2>2 DEF Settled, Keeps, Final, Q!Answer
    <2>3. CASE q # r
      BY <1>2, <1>4, <2>1, <2>3 DEF Settled, Keeps, Final, Q!Answer
    <2>4. QED
      BY <2>2, <2>3
  <1>7. QED
    BY <1>2, <1>3, <1>5, <1>6

(* Sending it changes where it is, not what it is. *)
LEMMA DeliverSettles ==
  ASSUME GateInv, Waited, NEW r \in Requests, Q!Deliver(r), UNCHANGED connVars,
         \A q \in Requests : Settled(q)
  PROVE  (\A q \in Requests : Settled(q)' /\ Keeps(q)) /\ resolved' = resolved
  <1>1. /\ handoff[r] # NoVerdict /\ mail' = [mail EXCEPT ![r] = handoff[r]]
        /\ handoff' = [handoff EXCEPT ![r] = NoVerdict]
        /\ UNCHANGED <<hungup, resolved, worker, said>>
    BY DEF Q!Deliver, connVars
  <1>2. /\ handoff'[r] = NoVerdict /\ mail'[r] = handoff[r]
        /\ \A q \in Requests \ {r} : handoff'[q] = handoff[q] /\ mail'[q] = mail[q]
    BY <1>1 DEF GateInv, GateTypeOK
  <1>3. ASSUME NEW q \in Requests PROVE Settled(q)' /\ Keeps(q)
    <2>1. Settled(q)
      OBVIOUS
    <2>2. CASE q = r
      BY <1>1, <1>2, <2>1, <2>2 DEF Settled, Keeps, Final, Q!Answer
    <2>3. CASE q # r
      BY <1>1, <1>2, <2>1, <2>3 DEF Settled, Keeps, Final, Q!Answer
    <2>4. QED
      BY <2>2, <2>3
  <1>4. QED
    BY <1>1, <1>3

(* The rows of the history stay true when what is decided is kept. *)
LEMMA RingTrue ==
  ASSUME Q!QueueTypeOK, TrueRing, \A q \in Requests : Keeps(q),
         \A k \in 1 .. Len(resolved') :
           \/ \E j \in 1 .. Len(resolved) : resolved'[k] = resolved[j]
           \/ \E q \in Requests \ Unparseable :
                resolved'[k].req = q /\ resolved'[k].verdict = Final(q)'
  PROVE  TrueRing'
  <1>1. ASSUME NEW k \in 1 .. Len(resolved')
        PROVE  \E q \in Requests \ Unparseable :
                 resolved'[k].req = q /\ resolved'[k].verdict = Final(q)'
    <2>1. CASE \E j \in 1 .. Len(resolved) : resolved'[k] = resolved[j]
      <3>1. PICK j \in 1 .. Len(resolved) : resolved'[k] = resolved[j]
        BY <2>1
      <3>2. resolved \in Seq(AuditRows)
        BY RowsAlike DEF Q!QueueTypeOK
      <3>3. PICK row \in AuditRows : row = resolved[j]
        BY <3>2
      <3>4. row.req \in Requests /\ row.verdict \in Verdicts
        BY DEF AuditRows
      <3>5. row.req \notin Unparseable /\ row.verdict = Final(row.req)
        BY <3>3 DEF TrueRing, TrueRow
      <3>6. Final(row.req)' = row.verdict
        BY <3>4, <3>5, VerdictFacts DEF Keeps
      <3>7. QED
        BY <3>1, <3>3, <3>4, <3>5, <3>6
    <2>2. QED
      BY <2>1
  <1>2. ASSUME NEW k \in 1 .. Len(resolved') PROVE TrueRow(resolved[k])'
    <2>1. PICK q \in Requests \ Unparseable :
            resolved'[k].req = q /\ resolved'[k].verdict = Final(q)'
      BY <1>1
    <2>2. QED
      BY <2>1 DEF TrueRow
  <1>3. QED
    BY <1>2 DEF TrueRing

(* One more row, and it is true. *)
LEMMA PushTrue ==
  ASSUME Q!QueueTypeOK, TrueRing, \A q \in Requests : Keeps(q),
         NEW r \in Requests, NEW v \in Verdicts, r \notin Unparseable, Final(r)' = v,
         resolved' = Q!PushFront(Q!Row(r, v), resolved)
  PROVE  TrueRing'
  <1>1. \A k \in 1 .. Len(resolved') :
          \/ resolved'[k] = [req |-> r, verdict |-> v]
          \/ \E j \in 1 .. Len(resolved) : resolved'[k] = resolved[j]
    BY RingPush
  <1>2. PICK q \in Requests \ Unparseable : q = r /\ Final(q)' = v
    OBVIOUS
  <1>3. \A k \in 1 .. Len(resolved') :
          \/ \E j \in 1 .. Len(resolved) : resolved'[k] = resolved[j]
          \/ resolved'[k].req = q /\ resolved'[k].verdict = Final(q)'
    BY <1>1, <1>2
  <1>4. QED
    BY <1>3, RingTrue

(* The log stays true: a verdict a worker holds, it keeps. *)
LEMMA LogTrue ==
  ASSUME A!AuditTypeOK, TrueLog, \A q \in Requests : said[q] # NoVerdict => said'[q] = said[q],
         \A i \in 1 .. Len(log') :
           \/ i \in 1 .. Len(log) /\ log'[i] = log[i]
           \/ log'[i].row.verdict = said'[log'[i].row.req]
  PROVE  TrueLog'
  <1>1. ASSUME NEW i \in 1 .. Len(log') PROVE log'[i].row.verdict = said'[log'[i].row.req]
    <2>1. CASE i \in 1 .. Len(log) /\ log'[i] = log[i]
      <3>1. log \in Seq(A!Pieces)
        BY DEF A!AuditTypeOK
      <3>2. PICK row \in AuditRows : row = log[i].row
        BY <2>1, <3>1 DEF A!Pieces
      <3>3. row.req \in Requests /\ row.verdict \in Verdicts
        BY DEF AuditRows
      <3>4. row.verdict = said[row.req]
        BY <2>1, <3>2 DEF TrueLog
      <3>5. QED
        BY <2>1, <3>2, <3>3, <3>4, VerdictFacts
    <2>2. QED
      BY <2>1
  <1>2. QED
    BY <1>1 DEF TrueLog

(* Steps that change no verdict, whatever they do to the history. *)
LEMMA QuietSettles ==
  ASSUME UNCHANGED <<handoff, mail, hungup, said>>, \A q \in Requests : Settled(q),
         \A q \in Requests : worker'[q] = "auto" => worker[q] = "auto"
  PROVE  \A q \in Requests : Settled(q)' /\ Keeps(q)
  BY DEF Settled, Keeps, Final, Q!Answer

(* A worker's step keeps the story: its row in the history is its verdict, *)
(* its row in the log is too.                                              *)
LEMMA WorkerStory ==
  ASSUME GateInv, TypeInv, StoryInv, NEW r \in Requests, WorkerStep(r)
  PROVE  StoryInv'
  <1>1. /\ Waited /\ Q!QueueTypeOK /\ A!AuditTypeOK /\ TrueRing /\ TrueLog
        /\ \A q \in Requests : Settled(q)
    BY DEF TypeInv, StoryInv
  <1>2. \A q \in Requests :
          Settled(q)' /\ Keeps(q) /\ (said[q] # NoVerdict => said'[q] = said[q])
    BY <1>1, WorkerSettles
  <1>3. TrueRing'
    <2>1. CASE RecordRuling(r)
      <3>1. worker[r] = "auto" /\ Q!RecordAuto(r, said[r]) /\ said' = said
        BY <2>1 DEF RecordRuling, Step
      <3>2. said[r] \in Verdicts /\ r \notin Unparseable /\ said[r] # NoVerdict
        BY <1>1, <3>1, VerdictFacts DEF GateInv, Sound, Settled
      <3>3. resolved' = Q!PushFront(Q!Row(r, said[r]), resolved)
        BY <3>1 DEF Q!RecordAuto
      <3>4. Final(r)' = said[r]
        BY <3>1, <3>2 DEF Final
      <3>5. QED
        BY <1>1, <1>2, <3>2, <3>3, <3>4, PushTrue
    <2>2. CASE ~RecordRuling(r)
      <3>1. resolved' = resolved
        BY <2>2 DEF WorkerStep, ReadFails, Evaluate, SubmitPrompt, Q!Submit, Wake, AppendRow, Reply,
                    Leave, queueVars
      <3>2. QED
        BY <1>1, <1>2, <3>1, RingTrue
    <2>3. QED
      BY <2>1, <2>2
  <1>4. TrueLog'
    <2>1. CASE AppendRow(r)
      <3>1. \A i \in 1 .. Len(log') :
              \/ i \in 1 .. Len(log) /\ log'[i] = log[i]
              \/ log'[i].row = [req |-> r, verdict |-> said[r]]
        BY <1>1, <2>1, LogGrows
      <3>2. said' = said
        BY <2>1 DEF AppendRow
      <3>3. \A i \in 1 .. Len(log') :
              \/ i \in 1 .. Len(log) /\ log'[i] = log[i]
              \/ log'[i].row.verdict = said'[log'[i].row.req]
        BY <3>1, <3>2
      <3>4. QED
        BY <1>1, <1>2, <3>3, LogTrue
    <2>2. CASE ~AppendRow(r)
      <3>1. log' = log
        BY <2>2 DEF WorkerStep, ReadFails, Evaluate, RecordRuling, SubmitPrompt, Wake, Reply, Leave,
                    auditVars
      <3>2. QED
        BY <1>1, <1>2, <3>1, LogTrue
    <2>3. QED
      BY <2>1, <2>2
  <1>5. QED
    BY <1>2, <1>3, <1>4 DEF StoryInv

(* A verdict from an approver or the rule sweep is the story from then on. *)
LEMMA ResolveStory ==
  ASSUME GateInv, TypeInv, StoryInv, NEW r \in Requests, NEW v \in Verdicts, Q!Resolve(r, v),
         UNCHANGED <<auditVars, connVars>>
  PROVE  StoryInv'
  <1>1. /\ Waited /\ Q!QueueTypeOK /\ A!AuditTypeOK /\ TrueRing /\ TrueLog
        /\ \A q \in Requests : Settled(q)
    BY DEF TypeInv, StoryInv
  <1>2. /\ \A q \in Requests : Settled(q)' /\ Keeps(q)
        /\ r \notin Unparseable /\ Final(r)' = v
        /\ resolved' = Q!PushFront(Q!Row(r, v), resolved)
    BY <1>1, ResolveSettles
  <1>3. TrueRing'
    BY <1>1, <1>2, PushTrue
  <1>4. TrueLog'
    BY <1>1 DEF TrueLog, auditVars, connVars
  <1>5. QED
    BY <1>2, <1>3, <1>4 DEF StoryInv

(* Steps that touch neither the channels nor the log, and no row. *)
LEMMA QuietStory ==
  ASSUME TypeInv, StoryInv, UNCHANGED <<handoff, mail, hungup, said, log, resolved>>,
         \A q \in Requests : worker'[q] = "auto" => worker[q] = "auto"
  PROVE  StoryInv'
  <1>1. /\ Q!QueueTypeOK /\ TrueRing /\ TrueLog /\ \A q \in Requests : Settled(q)
    BY DEF TypeInv, StoryInv
  <1>2. \A q \in Requests : Settled(q)' /\ Keeps(q)
    BY <1>1, QuietSettles
  <1>3. TrueRing'
    BY <1>1, <1>2, RingTrue
  <1>4. TrueLog'
    BY <1>1 DEF TrueLog
  <1>5. QED
    BY <1>2, <1>3, <1>4 DEF StoryInv

(* A new daemon's history is rows of the log, each what its worker said;   *)
(* and a parse failure has no card to be shown with.                       *)
LEMMA StartStory ==
  ASSUME TypeInv, StoryInv, Start
  PROVE  StoryInv'
  <1>1. /\ A!AuditTypeOK /\ TrueLog /\ \A q \in Requests : Settled(q)
    BY DEF TypeInv, StoryInv
  <1>2. /\ resolved' \in {Q!WarmedWith(WarmRows, <<>>), <<>>}
        /\ UNCHANGED <<handoff, mail, hungup, worker, said, log>>
    BY DEF Start, connVars, auditVars
  <1>3. \A k \in 1 .. Len(resolved') :
          \E i \in 1 .. Len(log) : resolved'[k] = log[i].row /\ HasCard(log[i].row)
    BY <1>1, <1>2, RingWarm
  <1>4. ASSUME NEW k \in 1 .. Len(resolved') PROVE TrueRow(resolved[k])'
    <2>1. PICK i \in 1 .. Len(log) : resolved'[k] = log[i].row /\ HasCard(log[i].row)
      BY <1>3
    <2>2. log \in Seq(A!Pieces)
      BY <1>1 DEF A!AuditTypeOK
    <2>3. PICK row \in AuditRows : row = log[i].row
      BY <2>2 DEF A!Pieces
    <2>4. PICK q \in Requests : q = row.req /\ row.verdict \in Verdicts
      BY DEF AuditRows
    <2>5. row.verdict = said[q]
      BY <1>1, <2>3, <2>4 DEF TrueLog
    <2>6. said[q] # NoVerdict
      BY <2>4, <2>5, VerdictFacts
    <2>7. Verdict("deny", "parse").why = "parse"
      BY DEF Verdict
    <2>8. q \notin Unparseable
      BY <1>1, <2>1, <2>3, <2>5, <2>6, <2>7 DEF Settled, HasCard
    <2>9. resolved'[k].req = q /\ resolved'[k].verdict = said[q]
      BY <2>1, <2>3, <2>4, <2>5
    <2>10. QED
      BY <1>2, <2>6, <2>8, <2>9 DEF TrueRow, Final
  <1>5. TrueRing'
    BY <1>4 DEF TrueRing
  <1>6. TrueLog'
    BY <1>1, <1>2 DEF TrueLog
  <1>7. \A q \in Requests : Settled(q)'
    BY <1>1, <1>2 DEF Settled
  <1>8. QED
    BY <1>5, <1>6, <1>7 DEF StoryInv

(* Every step keeps the story. *)
LEMMA StepStory == GateInv /\ TypeInv /\ StoryInv /\ [VetterdNext]_vars => StoryInv'
  <1> SUFFICES ASSUME GateInv, TypeInv, StoryInv, [VetterdNext]_vars PROVE StoryInv'
    OBVIOUS
  <1>0. ASSUME UNCHANGED <<queueVars, auditVars, said>>,
               \A q \in Requests : worker'[q] = "auto" => worker[q] = "auto"
        PROVE  StoryInv'
    BY <1>0, QuietStory DEF queueVars, auditVars
  <1>1. CASE ClientNext
    <2>1. ASSUME NEW r \in Requests, Connect(r) PROVE StoryInv'
      <3>1. UNCHANGED <<queueVars, auditVars, said>>
            /\ (worker' = worker \/ worker' = [worker EXCEPT ![r] = "backlog"])
        BY <2>1 DEF Connect
      <3>2. \A q \in Requests : worker'[q] = "auto" => worker[q] = "auto"
        BY <3>1 DEF GateInv, GateTypeOK
      <3>3. QED
        BY <1>0, <3>1, <3>2
    <2>2. ASSUME NEW r \in Requests, ClientReads(r) \/ ClientLeaves(r) PROVE StoryInv'
      BY <1>0, <2>2 DEF ClientReads, ClientLeaves
    <2>3. QED
      BY <1>1, <2>1, <2>2 DEF ClientNext
  <1>2. CASE WorkerNext
    BY <1>2, WorkerStory DEF WorkerNext
  <1>3. CASE AcceptorNext
    <2>1. ASSUME NEW r \in Requests, Accept(r) PROVE StoryInv'
      <3>1. UNCHANGED <<queueVars, auditVars, said>>
            /\ \E to \in {"read", "ended"} : worker' = [worker EXCEPT ![r] = to]
        BY <2>1 DEF Accept
      <3>2. \A q \in Requests : worker'[q] = "auto" => worker[q] = "auto"
        BY <3>1 DEF GateInv, GateTypeOK
      <3>3. QED
        BY <1>0, <3>1, <3>2
    <2>2. CASE CloseListener \/ AcceptFails
      <3>1. DropListener
        BY <2>2 DEF CloseListener, AcceptFails
      <3>2. UNCHANGED <<queueVars, auditVars, said>>
        BY <3>1 DEF DropListener
      <3>3. \A q \in Requests : worker'[q] = "auto" => worker[q] = "auto"
        BY <3>1, DropFacts
      <3>4. QED
        BY <1>0, <3>2, <3>3
    <2>3. QED
      BY <1>0, <1>3, <2>1, <2>2
      DEF AcceptorNext, AcceptorStarts, AcceptWouldBlock, connVars
  <1>4. CASE ApproverNext
    <2>1. ASSUME NEW r \in Requests, NEW d \in {"allow", "deny"}, Approve(r, d) PROVE StoryInv'
      BY <2>1, VerdictFacts, ResolveStory DEF Approve
    <2>2. ASSUME NEW r \in Requests, DeliverVerdict(r) PROVE StoryInv'
      <3>1. /\ Waited /\ Q!QueueTypeOK /\ TrueRing /\ TrueLog /\ \A q \in Requests : Settled(q)
        BY DEF TypeInv, StoryInv
      <3>2. Q!Deliver(r) /\ UNCHANGED connVars /\ log' = log /\ said' = said
        BY <2>2 DEF DeliverVerdict, auditVars, connVars
      <3>3. (\A q \in Requests : Settled(q)' /\ Keeps(q)) /\ resolved' = resolved
        BY <3>1, <3>2, DeliverSettles
      <3>4. TrueRing' /\ TrueLog'
        BY <3>1, <3>2, <3>3, RingTrue DEF TrueLog
      <3>5. QED
        BY <3>3, <3>4 DEF StoryInv
    <2>3. QED
      BY <1>4, <2>1, <2>2 DEF ApproverNext
  <1>5. CASE WriterNext
    <2>1. ASSUME NEW w \in Writers, NEW r \in Requests, SweepOne(w, r) PROVE StoryInv'
      <3>1. /\ UNCHANGED <<auditVars, connVars>>
            /\ UNCHANGED queueVars \/ Q!Resolve(r, Verdict("allow", "newrule"))
        BY <2>1 DEF SweepOne
      <3>2. CASE UNCHANGED queueVars
        BY <1>0, <3>1, <3>2 DEF connVars
      <3>3. QED
        BY <3>1, <3>2, VerdictFacts, ResolveStory
    <2>2. ASSUME NEW w \in Writers \cup Clis,
                 ContinueWrite(w) \/ \E job \in RuleJobs : BeginWrite(w, job)
          PROVE  StoryInv'
      BY <1>0, <2>2 DEF ContinueWrite, BeginWrite, connVars
    <2>3. ASSUME NEW w \in Writers, ListPending(w) \/ EndWrite(w) PROVE StoryInv'
      BY <1>0, <2>3 DEF ListPending, EndWrite, connVars
    <2>4. QED
      BY <1>5, <2>1, <2>2, <2>3 DEF WriterNext, SweepStep
  <1>6. CASE \E k \in Rules : RuleExpires(k)
    BY <1>0, <1>6 DEF RuleExpires, connVars
  <1>7. CASE ProcessNext
    <2>1. CASE ProcessEnds
      <3>1. /\ hungup' = {} /\ resolved' = <<>> /\ said' = said /\ log' = log
            /\ handoff' = [r \in Requests |-> NoVerdict] /\ mail' = [r \in Requests |-> NoVerdict]
            /\ worker' = [r \in Requests |-> IF worker[r] = "none" THEN "none" ELSE "ended"]
        BY <2>1 DEF ProcessEnds, auditVars
      <3>2. \A q \in Requests : Settled(q)'
        BY <3>1 DEF StoryInv, Settled
      <3>3. TrueRing' /\ TrueLog'
        BY <3>1 DEF StoryInv, TrueRing, TrueLog
      <3>4. QED
        BY <3>2, <3>3 DEF StoryInv
    <2>2. CASE MainCancels
      <3>1. /\ hungup' = hungup \cup {r \in Requests : entries[r] = r}
            /\ resolved' = <<>> /\ UNCHANGED <<handoff, mail, worker, said, log>>
        BY <2>2 DEF MainCancels, Q!CancelAll, Q!Pending, auditVars, connVars
      <3>2. ASSUME NEW q \in Requests PROVE Settled(q)'
        <4>1. Settled(q) /\ (entries[q] = q => handoff[q] = NoVerdict /\ mail[q] = NoVerdict)
          BY DEF StoryInv, TypeInv, Waited, Waits
        <4>2. QED
          BY <3>1, <4>1 DEF Settled
      <3>3. TrueRing' /\ TrueLog'
        BY <3>1 DEF StoryInv, TrueRing, TrueLog
      <3>4. QED
        BY <3>2, <3>3 DEF StoryInv
    <2>3. CASE Signal
      BY <1>0, <2>3 DEF Signal, connVars
    <2>4. CASE Start
      BY <2>4, StartStory
    <2>5. QED
      BY <1>7, <2>1, <2>2, <2>3, <2>4 DEF ProcessNext, Exit, Crash
  <1>8. CASE UNCHANGED vars
    BY <1>0, <1>8 DEF vars, connVars
  <1>9. QED
    BY <1>1, <1>2, <1>3, <1>4, <1>5, <1>6, <1>7, <1>8 DEF VetterdNext

(* The history, the log and the worker tell one story about a request,     *)
(* whichever approver or rule decided it, and whichever daemon filled the  *)
(* history; and a command that would not parse is in no history.           *)
THEOREM OneStoryTold == VetterdSpec => []OneStory
  <1>1. VetterdInit => StoryInv
    <2> SUFFICES ASSUME VetterdInit PROVE StoryInv
      OBVIOUS
    <2>1. /\ hungup = {} /\ resolved = <<>> /\ log = <<>> /\ said = [r \in Requests |-> NoVerdict]
          /\ handoff = [r \in Requests |-> NoVerdict] /\ mail = [r \in Requests |-> NoVerdict]
          /\ worker = [r \in Requests |-> "none"]
      BY DEF VetterdInit, Q!QueueInit, A!AuditInit
    <2>2. \A q \in Requests : Settled(q)
      BY <2>1 DEF Settled
    <2>3. TrueRing /\ TrueLog
      BY <2>1 DEF TrueRing, TrueLog
    <2>4. QED
      BY <2>2, <2>3 DEF StoryInv
  <1>2. GateInv /\ TypeInv /\ StoryInv /\ [VetterdNext]_vars => StoryInv'
    BY StepStory
  <1>3. TypeInv /\ StoryInv => OneStory
    <2> SUFFICES ASSUME TypeInv, StoryInv PROVE OneStory
      OBVIOUS
    <2>1. resolved \in Seq(AuditRows) /\ log \in Seq(A!Pieces)
      BY RowsAlike DEF TypeInv, Q!QueueTypeOK, A!AuditTypeOK
    <2>2. DOMAIN resolved = 1 .. Len(resolved) /\ DOMAIN log = 1 .. Len(log)
      BY <2>1
    <2>3. ASSUME NEW k \in 1 .. Len(resolved)
          PROVE  said[resolved[k].req] \in {resolved[k].verdict, NoVerdict}
                 /\ resolved[k].req \notin Unparseable
      BY DEF StoryInv, TrueRing, TrueRow, Final
    <2>4. \A i \in 1 .. Len(log) : log[i].row.verdict = said[log[i].row.req]
      BY DEF StoryInv, TrueLog
    <2>5. QED
      BY <2>2, <2>3, <2>4 DEF OneStory
  <1>4. QED
    BY <1>1, <1>2, <1>3, GateInvariant, TypesInvariant, PTL DEF VetterdSpec
=============================================================================
