-------------------------- MODULE Admission_proofs ---------------------------
(***************************************************************************)
(* The theorems about the part of the daemon that decides: the glob, the   *)
(* cards, the rules that cards offer, and the reading of a command.        *)
(*                                                                         *)
(* The loop of matches_segments, for every pattern and every path: its     *)
(* positions stay inside the two sequences, so the source never indexes    *)
(* past either, going back to a "**" always makes progress, and the answer *)
(* is what the glob means.  The last needs the meaning as equations of     *)
(* From, a function some function satisfies (FromExists): the places an    *)
(* alignment of the pattern's rest with the path can start from do.  While *)
(* the loop runs, the glob fits if and only if it fits from where the loop *)
(* is, or from further behind the last star; and whatever fits behind the  *)
(* star fits here too, shifted (AnswerOpen).                               *)
(*                                                                         *)
(* The card of a request while any number of threads add known hosts: its  *)
(* two statements about the host agree, and they are the store's once no   *)
(* add is under way.  The invariant (CardInv) says that nobody replaces    *)
(* the store while a worker matches, and that a card that is not fresh has *)
(* its repaint still before it.                                            *)
(*                                                                         *)
(* The rules offered on cards: the normal form of a path fits the globs    *)
(* made of it, so a picked rule covers its request (OfferFires), and what  *)
(* a picked rule covers is like the request it was picked on (FiresLike).  *)
(* Both are properties of the store because its decision is whether a rule *)
(* that has not ended covers (CoveredIsAllowed, AllowedIsCovered).         *)
(*                                                                         *)
(* The reading of a command, for all words: after any number of tokens,    *)
(* what is known of the command is what these tokens mean (Means), flag by *)
(* flag, with no mention of an order of reading.  From that follow the     *)
(* request and the files that are shown, and that a refusal has a cause.   *)
(*                                                                         *)
(* And the loop a worker starts is the loop of Glob.                       *)
(***************************************************************************)
EXTENDS Admission, Offered, Stored_proofs, TLAPS

(* The star it goes back to lies behind the position it has reached, and   *)
(* has taken no more than the loop has read.                               *)
StarIsBehind == starP < p /\ starS <= s

GlobInv == GlobTypeOK /\ StarIsBehind

(* What an iteration that goes on leaves behind, in lexicographic order.   *)
Progress ==
  \/ starP' > starP
  \/ starP' = starP /\ starS' > starS
  \/ starP' = starP /\ starS' = starS /\ p' > p

-----------------------------------------------------------------------------
(* Before the first call. *)
LEMMA GlobInitInv == GlobInit => GlobInv
  BY DEF GlobInit, GlobInv, GlobTypeOK, StarIsBehind

(* A call starts at the first segments, with no star passed. *)
LEMMA StartInv ==
  ASSUME NEW pattern \in Seq(STRING), NEW segments \in Seq(STRING),
         StartGlob(pattern, segments)
  PROVE  GlobInv'
  <1>1. /\ pat' = pattern /\ path' = segments
        /\ p' = 1 /\ s' = 1 /\ starP' = 0 /\ starS' = 1 /\ fits' = "looping"
    BY DEF StartGlob
  <1>2. Len(pattern) \in Nat /\ Len(segments) \in Nat
    OBVIOUS
  <1>3. QED
    BY <1>1, <1>2 DEF GlobInv, GlobTypeOK, StarIsBehind

(* An iteration keeps its positions in range and makes progress. *)
LEMMA StepInv ==
  ASSUME GlobInv, GlobStep
  PROVE  GlobInv' /\ (fits' = "looping" => Progress)
  <1> USE DEF GlobInv, GlobTypeOK, StarIsBehind, Progress
  <1>0. Len(pat) \in Nat /\ Len(path) \in Nat
    OBVIOUS
  <1>1. CASE PassStar
    BY <1>0, <1>1 DEF PassStar, AtStar, PatEnd, LoopOrReturn
  <1>2. CASE TakeSegment
    BY <1>0, <1>2 DEF TakeSegment, AtMatch, PatEnd, PathEnd, LoopOrReturn
  <1>3. CASE RetryFromStar
    BY <1>0, <1>3 DEF RetryFromStar, LoopOrReturn
  <1>4. CASE GiveUp
    BY <1>4 DEF GiveUp
  <1>5. QED
    BY <1>1, <1>2, <1>3, <1>4 DEF GlobStep

(* The star the loop goes back to is always behind it *)
(* (vetter-core/src/matcher/glob.rs, matches_segments). *)
THEOREM GlobInvariant == GlobSpec => []GlobInv
  <1>1. GlobInv /\ [GlobNext]_globVars => GlobInv'
    <2> SUFFICES ASSUME GlobInv, [GlobNext]_globVars PROVE GlobInv'
      OBVIOUS
    <2>1. CASE GlobStep
      BY <2>1, StepInv
    <2>2. CASE \E pattern, segments \in Seq(STRING) : StartGlob(pattern, segments)
      BY <2>2, StartInv
    <2>3. CASE UNCHANGED globVars
      BY <2>3 DEF globVars, GlobInv, GlobTypeOK, StarIsBehind
    <2>4. QED
      BY <2>1, <2>2, <2>3 DEF GlobNext
  <1>2. QED
    BY GlobInitInv, <1>1, PTL DEF GlobSpec

(* No position ever leaves its sequence by more than one                   *)
(* (vetter-core/src/matcher/glob.rs, matches_segments).                    *)
THEOREM GlobTypes == GlobSpec => []GlobTypeOK
  BY GlobInvariant, PTL DEF GlobInv

(* Every iteration of the loop that does not return makes progress, in an  *)
(* order that the two lengths bound: the loop ends on every path.          *)
THEOREM GlobProgresses == GlobSpec => GlobProgress
  <1>1. GlobInv /\ [GlobNext]_globVars =>
          [fits = "looping" /\ fits' = "looping" => Progress]_globVars
    <2> SUFFICES ASSUME GlobInv, GlobNext, fits = "looping", fits' = "looping"
                 PROVE  Progress
      BY DEF Progress
    <2>1. GlobStep
      BY DEF GlobNext
    <2>2. QED
      BY <2>1, StepInv
  <1>2. [][fits = "looping" /\ fits' = "looping" => Progress]_globVars => GlobProgress
    BY PTL DEF GlobProgress, Progress
  <1>3. QED
    BY GlobInvariant, <1>1, <1>2, PTL DEF GlobSpec

-----------------------------------------------------------------------------
(* The meaning of a pattern w for a path t, as equations.            *)
Past(t) == Len(t) + 1

Measurable(w, t) == Len(w) \in Nat /\ Len(t) \in Nat

FitsStep(w, t, f) ==
  [i \in 1 .. Len(w) + 1 |->
     IF i > Len(w) THEN {Past(t)}
     ELSE IF w[i] = "**" THEN {j \in 1 .. Past(t) : \E k \in f[i + 1] : j <= k}
     ELSE {j \in 1 .. Len(t) : MatchesOne(w[i], t[j]) /\ j + 1 \in f[i + 1]}]

FitsFrom(w, t) == CHOOSE f : f = FitsStep(w, t, f)

(* A segment of the pattern takes the path from place a to place b. *)
Takes(w, t, i, a, b) ==
  IF w[i] = "**" THEN a <= b ELSE a <= Len(t) /\ b = a + 1 /\ MatchesOne(w[i], t[a])

(* An alignment of the pattern's rest with the path's rest. *)
Aligned(w, t, h, i) ==
  /\ h \in [i .. Len(w) + 1 -> 1 .. Past(t)]
  /\ h[Len(w) + 1] = Past(t)
  /\ \A k \in i .. Len(w) : Takes(w, t, k, h[k], h[k + 1])

Starts(w, t, i) == {j \in 1 .. Past(t) : \E h : Aligned(w, t, h, i) /\ h[i] = j}

(* The rest of an alignment is one of the rest. *)
LEMMA AlignedRest ==
  ASSUME NEW w, NEW t, Measurable(w, t),
         NEW i \in 1 .. Len(w), NEW h, Aligned(w, t, h, i)
  PROVE  /\ h[i] \in 1 .. Past(t) /\ h[i + 1] \in Starts(w, t, i + 1)
         /\ Takes(w, t, i, h[i], h[i + 1])
  <1>1. Len(w) \in Nat /\ Len(t) \in Nat
    BY DEF Measurable
  <1>2. PICK m \in Nat : m = Len(w)
    BY <1>1
  <1>3. /\ h \in [i .. m + 1 -> 1 .. Past(t)] /\ h[m + 1] = Past(t) /\ i \in 1 .. m
        /\ \A k \in i .. m : Takes(w, t, k, h[k], h[k + 1])
    BY <1>2 DEF Aligned
  <1> DEFINE g == [k \in i + 1 .. m + 1 |-> h[k]]
  <1>4. g \in [i + 1 .. m + 1 -> 1 .. Past(t)] /\ g[m + 1] = Past(t) /\ g[i + 1] = h[i + 1]
    BY <1>3
  <1>5. ASSUME NEW k \in i + 1 .. m PROVE Takes(w, t, k, g[k], g[k + 1])
    <2>1. k \in i .. m /\ g[k] = h[k] /\ g[k + 1] = h[k + 1]
      BY <1>3
    <2>2. QED
      BY <1>3, <2>1
  <1> HIDE DEF g
  <1>6. Aligned(w, t, g, i + 1)
    BY <1>2, <1>4, <1>5 DEF Aligned
  <1>7. h[i + 1] \in 1 .. Past(t) /\ h[i] \in 1 .. Past(t) /\ Takes(w, t, i, h[i], h[i + 1])
    BY <1>3
  <1>8. QED
    BY <1>4, <1>6, <1>7 DEF Starts

(* And one more segment in front of an alignment makes one. *)
LEMMA AlignedMore ==
  ASSUME NEW w, NEW t, Measurable(w, t),
         NEW i \in 1 .. Len(w), NEW a \in 1 .. Past(t),
         NEW b \in Starts(w, t, i + 1), Takes(w, t, i, a, b)
  PROVE  a \in Starts(w, t, i)
  <1>1. Len(w) \in Nat /\ Len(t) \in Nat
    BY DEF Measurable
  <1>2. PICK m \in Nat : m = Len(w)
    BY <1>1
  <1>3. PICK h : Aligned(w, t, h, i + 1) /\ h[i + 1] = b
    BY DEF Starts
  <1>4. /\ h \in [i + 1 .. m + 1 -> 1 .. Past(t)] /\ h[m + 1] = Past(t) /\ i \in 1 .. m
        /\ \A k \in i + 1 .. m : Takes(w, t, k, h[k], h[k + 1])
    BY <1>2, <1>3 DEF Aligned
  <1> DEFINE g == [k \in i .. m + 1 |-> IF k = i THEN a ELSE h[k]]
  <1>5. g \in [i .. m + 1 -> 1 .. Past(t)] /\ g[m + 1] = Past(t) /\ g[i] = a /\ g[i + 1] = b
    BY <1>3, <1>4
  <1>6. ASSUME NEW k \in i .. m PROVE Takes(w, t, k, g[k], g[k + 1])
    <2>1. CASE k = i
      BY <1>5, <2>1
    <2>2. CASE k # i
      <3>1. k \in i + 1 .. m /\ g[k] = h[k] /\ g[k + 1] = h[k + 1]
        BY <1>4, <2>2
      <3>2. QED
        BY <1>4, <3>1
    <2>3. QED
      BY <2>1, <2>2
  <1> HIDE DEF g
  <1>7. Aligned(w, t, g, i)
    BY <1>2, <1>5, <1>6 DEF Aligned
  <1>8. QED
    BY <1>5, <1>7 DEF Starts

(* The empty rest of the pattern fits the empty rest of the path. *)
LEMMA AlignedEnd ==
  ASSUME NEW w, NEW t, Measurable(w, t)
  PROVE  Starts(w, t, Len(w) + 1) = {Past(t)}
  <1>1. Len(w) \in Nat /\ Len(t) \in Nat
    BY DEF Measurable
  <1>2. PICK m \in Nat : m = Len(w)
    BY <1>1
  <1>3. Past(t) \in 1 .. Past(t)
    BY <1>1 DEF Past
  <1> DEFINE g == [k \in m + 1 .. m + 1 |-> Past(t)]
  <1>4. g \in [m + 1 .. m + 1 -> 1 .. Past(t)] /\ g[m + 1] = Past(t)
    BY <1>3
  <1> HIDE DEF g
  <1>5. Aligned(w, t, g, m + 1)
    BY <1>2, <1>4 DEF Aligned
  <1>6. \A h : Aligned(w, t, h, m + 1) => h[m + 1] = Past(t)
    BY <1>2 DEF Aligned
  <1>7. QED
    BY <1>2, <1>3, <1>4, <1>5, <1>6 DEF Starts

(* So the equations have a solution, and FitsFrom is one. *)
LEMMA FitsExist ==
  ASSUME NEW w, NEW t, Measurable(w, t)
  PROVE  FitsFrom(w, t) = FitsStep(w, t, FitsFrom(w, t))
  <1>1. Len(w) \in Nat /\ Len(t) \in Nat
    BY DEF Measurable
  <1> DEFINE f == [i \in 1 .. Len(w) + 1 |-> Starts(w, t, i)]
  <1>2. ASSUME NEW i \in 1 .. Len(w), w[i] = "**"
        PROVE  Starts(w, t, i) = {j \in 1 .. Past(t) : \E k \in Starts(w, t, i + 1) : j <= k}
    <2>1. ASSUME NEW j \in Starts(w, t, i)
          PROVE  j \in 1 .. Past(t) /\ \E k \in Starts(w, t, i + 1) : j <= k
      <3>1. PICK h : Aligned(w, t, h, i) /\ h[i] = j
        BY DEF Starts
      <3>2. h[i + 1] \in Starts(w, t, i + 1) /\ Takes(w, t, i, h[i], h[i + 1]) /\ j \in 1 .. Past(t)
        BY <3>1, AlignedRest
      <3>3. QED
        BY <1>2, <3>1, <3>2 DEF Takes
    <2>2. ASSUME NEW j \in 1 .. Past(t), NEW k \in Starts(w, t, i + 1), j <= k
          PROVE  j \in Starts(w, t, i)
      <3>1. Takes(w, t, i, j, k)
        BY <1>2, <2>2 DEF Takes
      <3>2. QED
        BY <3>1, AlignedMore
    <2>3. QED
      BY <2>1, <2>2
  <1>3. ASSUME NEW i \in 1 .. Len(w), w[i] # "**"
        PROVE  Starts(w, t, i) = {j \in 1 .. Len(t) :
                              MatchesOne(w[i], t[j]) /\ j + 1 \in Starts(w, t, i + 1)}
    <2>1. ASSUME NEW j \in Starts(w, t, i)
          PROVE  j \in 1 .. Len(t) /\ MatchesOne(w[i], t[j]) /\ j + 1 \in Starts(w, t, i + 1)
      <3>1. PICK h : Aligned(w, t, h, i) /\ h[i] = j
        BY DEF Starts
      <3>2. h[i + 1] \in Starts(w, t, i + 1) /\ Takes(w, t, i, h[i], h[i + 1]) /\ j \in 1 .. Past(t)
        BY <3>1, AlignedRest
      <3>3. j <= Len(t) /\ h[i + 1] = j + 1 /\ MatchesOne(w[i], t[j])
        BY <1>3, <3>1, <3>2 DEF Takes
      <3>4. QED
        BY <1>1, <3>2, <3>3 DEF Past
    <2>2. ASSUME NEW j \in 1 .. Len(t), MatchesOne(w[i], t[j]), j + 1 \in Starts(w, t, i + 1)
          PROVE  j \in Starts(w, t, i)
      <3>1. Takes(w, t, i, j, j + 1) /\ j \in 1 .. Past(t)
        BY <1>1, <1>3, <2>2 DEF Takes, Past
      <3>2. QED
        BY <2>2, <3>1, AlignedMore
    <2>3. QED
      BY <2>1, <2>2
  <1>4. Starts(w, t, Len(w) + 1) = {Past(t)}
    BY AlignedEnd
  <1>5. f = FitsStep(w, t, f)
    <2>1. ASSUME NEW i \in 1 .. Len(w) + 1 PROVE FitsStep(w, t, f)[i] = Starts(w, t, i)
      <3>1. CASE i = Len(w) + 1
        <4>1. i > Len(w) /\ Starts(w, t, i) = {Past(t)}
          BY <1>1, <1>4, <3>1
        <4>2. QED
          BY <4>1 DEF FitsStep
      <3>2. CASE i \in 1 .. Len(w)
        <4>1. i + 1 \in 1 .. Len(w) + 1 /\ ~(i > Len(w))
          BY <1>1, <3>2
        <4>2. f[i + 1] = Starts(w, t, i + 1)
          BY <4>1
        <4>3. QED
          BY <1>2, <1>3, <3>2, <4>1, <4>2 DEF FitsStep
      <3>3. QED
        BY <1>1, <3>1, <3>2
    <2>2. QED
      BY <2>1 DEF FitsStep
  <1>6. QED
    BY <1>5 DEF FitsFrom

(* What the pattern means from one segment on. *)
LEMMA FitsEquations ==
  ASSUME NEW w, NEW t, Measurable(w, t)
  PROVE  /\ FitsFrom(w, t)[Len(w) + 1] = {Past(t)}
         /\ \A i \in 1 .. Len(w) :
              w[i] = "**" =>
                FitsFrom(w, t)[i] = {j \in 1 .. Past(t) : \E k \in FitsFrom(w, t)[i + 1] : j <= k}
         /\ \A i \in 1 .. Len(w) :
              w[i] # "**" =>
                FitsFrom(w, t)[i] = {j \in 1 .. Len(t) :
                             MatchesOne(w[i], t[j]) /\ j + 1 \in FitsFrom(w, t)[i + 1]}
  <1>1. Len(w) \in Nat /\ Len(t) \in Nat
    BY DEF Measurable
  <1>2. PICK f : f = FitsFrom(w, t) /\ f = FitsStep(w, t, f)
    BY FitsExist
  <1>3. ASSUME NEW i \in 1 .. Len(w) + 1
        PROVE  f[i] = IF i > Len(w) THEN {Past(t)}
                      ELSE IF w[i] = "**" THEN {j \in 1 .. Past(t) : \E k \in f[i + 1] : j <= k}
                      ELSE {j \in 1 .. Len(t) :
                              MatchesOne(w[i], t[j]) /\ j + 1 \in f[i + 1]}
    BY <1>2 DEF FitsStep
  <1>4. f[Len(w) + 1] = {Past(t)}
    <2>1. PICK last \in 1 .. Len(w) + 1 : last = Len(w) + 1 /\ last > Len(w)
      BY <1>1
    <2>2. f[last] = {Past(t)}
      BY <1>3, <2>1
    <2>3. QED
      BY <2>1, <2>2
  <1>5. ASSUME NEW i \in 1 .. Len(w)
        PROVE  i \in 1 .. Len(w) + 1 /\ ~(i > Len(w))
    BY <1>1
  <1>6. QED
    BY <1>2, <1>3, <1>4, <1>5

(* The meaning of the glob the loop is asked about. *)
End == Past(path)

From == FitsFrom(pat, path)

LEMMA FromEquations ==
  ASSUME GlobTypeOK
  PROVE  /\ From[Len(pat) + 1] = {End}
         /\ \A i \in 1 .. Len(pat) :
              pat[i] = "**" => From[i] = {j \in 1 .. End : \E k \in From[i + 1] : j <= k}
         /\ \A i \in 1 .. Len(pat) :
              pat[i] # "**" =>
                From[i] = {j \in 1 .. Len(path) :
                             MatchesOne(pat[i], path[j]) /\ j + 1 \in From[i + 1]}
  <1>1. Measurable(pat, path)
    BY DEF GlobTypeOK, Measurable
  <1>2. QED
    BY <1>1, FitsEquations DEF From, End

(* The glob fits if its meaning starts at the first segment. *)
LEMMA MeansFrom ==
  ASSUME GlobTypeOK
  PROVE  MatchesPath(pat, path) = (1 \in From[1])
  BY DEF MatchesPath, From, FitsFrom, FitsStep, Past

-----------------------------------------------------------------------------
(* While the loop runs, what it has left to try decides the answer.        *)
Behind == \E t \in From[starP + 1] : t > starS

AnswerOpen ==
  /\ 1 \in From[1] <=> s \in From[p] \/ (starP # 0 /\ Behind)
  /\ starP # 0 => ~(PatEnd /\ PathEnd)
  /\ starP # 0 =>
       \A t \in From[starP + 1] : t \in Nat /\ (t > starS => t + (s - starS) \in From[p])

GlobMeans ==
  /\ fits = "looping" => AnswerOpen
  /\ fits = "yes" => 1 \in From[1]
  /\ fits = "no" => 1 \notin From[1]

(* The meaning depends on the pattern and the path alone. *)
LEMMA FromKept ==
  ASSUME UNCHANGED <<pat, path>>
  PROVE  From' = From
  BY DEF From

(* Places in the path are numbers. *)
LEMMA FromPlaces ==
  ASSUME GlobTypeOK, NEW i \in 1 .. Len(pat) + 1
  PROVE  From[i] \subseteq Nat \ {0}
  <1>1. Len(pat) \in Nat /\ Len(path) \in Nat
    BY DEF GlobTypeOK
  <1>2. i = Len(pat) + 1 \/ i \in 1 .. Len(pat)
    BY <1>1
  <1>3. End \in Nat \ {0}
    BY <1>1 DEF End, Past
  <1>4. QED
    BY <1>1, <1>2, <1>3, FromEquations

(* At the end of both sequences the answer is there; before it, it is      *)
(* still open.                                                             *)
LEMMA Answered ==
  ASSUME GlobTypeOK, GlobTypeOK', UNCHANGED <<pat, path>>, LoopOrReturn,
         1 \in From[1] <=> s' \in From[p'] \/ (starP' # 0 /\ Behind'),
         starP' # 0 =>
           \A t \in From[starP' + 1] : t \in Nat /\ (t > starS' => t + (s' - starS') \in From[p'])
  PROVE  GlobMeans'
  <1>1. From' = From /\ Len(pat) \in Nat /\ Len(path) \in Nat
    BY DEF From, GlobTypeOK
  <1>2. CASE p' > Len(pat) /\ s' > Len(path)
    <2>1. p' = Len(pat) + 1 /\ s' = Len(path) + 1 /\ fits' = "yes"
      BY <1>1, <1>2 DEF LoopOrReturn, GlobTypeOK
    <2>2. s' \in From[p']
      BY <2>1, FromEquations DEF End, Past
    <2>3. QED
      BY <1>1, <2>1, <2>2 DEF GlobMeans
  <1>3. CASE ~(p' > Len(pat) /\ s' > Len(path))
    <2>1. fits' = "looping"
      BY <1>3 DEF LoopOrReturn
    <2>2. ~(PatEnd' /\ PathEnd')
      BY <1>3 DEF PatEnd, PathEnd
    <2>3. QED
      BY <1>1, <2>1, <2>2 DEF GlobMeans, AnswerOpen
  <1>4. QED
    BY <1>2, <1>3

(* At a mismatch the glob does not fit from here. *)
LEMMA Mismatch ==
  ASSUME GlobTypeOK, ~AtStar, ~AtMatch, ~(PatEnd /\ PathEnd)
  PROVE  s \notin From[p]
  <1>1. Len(pat) \in Nat /\ Len(path) \in Nat /\ p \in 1 .. Len(pat) + 1 /\ s \in Nat
    BY DEF GlobTypeOK
  <1>2. CASE PatEnd
    <2>1. p = Len(pat) + 1 /\ ~(s > Len(path))
      BY <1>1, <1>2 DEF PatEnd, PathEnd
    <2>2. From[p] = {End} /\ s # End
      BY <1>1, <2>1, FromEquations DEF End, Past
    <2>3. QED
      BY <2>2
  <1>3. CASE ~PatEnd
    <2>1. p \in 1 .. Len(pat) /\ pat[p] # "**"
      BY <1>1, <1>3 DEF PatEnd, AtStar
    <2>2. s \in 1 .. Len(path) => ~MatchesOne(pat[p], path[s])
      BY <1>1, <1>3, <2>1 DEF AtMatch, PathEnd
    <2>3. QED
      BY <2>1, <2>2, FromEquations
  <1>4. QED
    BY <1>2, <1>3

(* A new star makes the one before it dispensable: whatever that one could *)
(* still take, the new one can.                                            *)
LEMMA PassMeans ==
  ASSUME GlobInv, GlobInv', GlobMeans, PassStar
  PROVE  GlobMeans'
  <1>1. /\ AnswerOpen /\ AtStar /\ starP' = p /\ starS' = s /\ p' = p + 1
        /\ UNCHANGED <<pat, path, s>> /\ LoopOrReturn
    BY DEF GlobMeans, PassStar
  <1>2. Len(pat) \in Nat /\ Len(path) \in Nat /\ p \in 1 .. Len(pat) /\ pat[p] = "**"
        /\ s \in 1 .. End /\ s \in Nat /\ starS \in Nat /\ starP \in 0 .. Len(pat) /\ starS <= s
    BY <1>1 DEF GlobInv, GlobTypeOK, StarIsBehind, AtStar, PatEnd, End, Past
  <1>3. From[p] = {j \in 1 .. End : \E k \in From[p + 1] : j <= k}
    BY <1>2, FromEquations DEF GlobInv
  <1>4. From[p + 1] \subseteq Nat \ {0} /\ From' = From /\ p # 0
    BY <1>1, <1>2, FromPlaces, FromKept DEF GlobInv
  <1>5. s \in From[p] <=> \E k \in From[p + 1] : s <= k
    BY <1>2, <1>3
  <1>6. ASSUME starP # 0, Behind PROVE s \in From[p]
    <2>1. PICK t \in From[starP + 1] : t > starS
      BY <1>6 DEF Behind
    <2>2. t \in Nat /\ t + (s - starS) \in From[p]
      BY <1>1, <1>6, <2>1 DEF AnswerOpen
    <2>3. PICK k \in From[p + 1] : t + (s - starS) <= k
      BY <1>3, <2>2
    <2>4. s <= k
      BY <1>2, <1>4, <2>1, <2>2, <2>3
    <2>5. QED
      BY <1>5, <2>4
  <1>7. 1 \in From[1] <=> s' \in From[p'] \/ (starP' # 0 /\ Behind')
    <2>1. (\E k \in From[p + 1] : s <= k) <=> s \in From[p + 1] \/ \E k \in From[p + 1] : k > s
      BY <1>2, <1>4
    <2>2. Behind' <=> \E k \in From[p + 1] : k > s
      BY <1>1, <1>4 DEF Behind
    <2>3. 1 \in From[1] <=> s \in From[p]
      BY <1>1, <1>6 DEF AnswerOpen
    <2>4. QED
      BY <1>1, <1>4, <1>5, <2>1, <2>2, <2>3
  <1>8. \A t \in From[starP' + 1] : t \in Nat /\ (t > starS' => t + (s' - starS') \in From[p'])
    BY <1>1, <1>2, <1>4
  <1>9. QED
    BY <1>1, <1>7, <1>8, Answered DEF GlobInv

(* A segment taken moves everything that fits on by one. *)
LEMMA TakeMeans ==
  ASSUME GlobInv, GlobInv', GlobMeans, TakeSegment
  PROVE  GlobMeans'
  <1>1. /\ AnswerOpen /\ AtMatch /\ p' = p + 1 /\ s' = s + 1 /\ LoopOrReturn
        /\ UNCHANGED <<pat, path, starP, starS>>
    BY DEF GlobMeans, TakeSegment
  <1>2. /\ Len(pat) \in Nat /\ Len(path) \in Nat /\ p \in 1 .. Len(pat) /\ pat[p] # "**"
        /\ s \in 1 .. Len(path) /\ MatchesOne(pat[p], path[s]) /\ starS \in Nat
        /\ starP \in 0 .. Len(pat)
    BY <1>1 DEF GlobInv, GlobTypeOK, AtMatch, PatEnd, PathEnd
  <1>3. From[p] = {j \in 1 .. Len(path) : MatchesOne(pat[p], path[j]) /\ j + 1 \in From[p + 1]}
    BY <1>2, FromEquations DEF GlobInv
  <1>4. s \in From[p] <=> s + 1 \in From[p + 1]
    BY <1>2, <1>3
  <1>5. From' = From /\ (Behind' <=> Behind)
    BY <1>1, FromKept DEF Behind
  <1>6. 1 \in From[1] <=> s' \in From[p'] \/ (starP' # 0 /\ Behind')
    BY <1>1, <1>4, <1>5 DEF AnswerOpen
  <1>7. ASSUME starP # 0, NEW t \in From[starP + 1]
        PROVE  t \in Nat /\ (t > starS => t + ((s + 1) - starS) \in From[p + 1])
    <2>1. t \in Nat /\ (t > starS => t + (s - starS) \in From[p])
      BY <1>1, <1>7 DEF AnswerOpen
    <2>2. ASSUME t > starS PROVE (t + (s - starS)) + 1 \in From[p + 1]
      BY <1>3, <2>1, <2>2
    <2>3. (t + (s - starS)) + 1 = t + ((s + 1) - starS)
      BY <1>2, <2>1
    <2>4. QED
      BY <2>1, <2>2, <2>3
  <1>8. QED
    BY <1>1, <1>6, <1>7, Answered DEF GlobInv

(* At a mismatch the star has to take one segment more, or more than one.  *)
LEMMA RetryMeans ==
  ASSUME GlobInv, GlobInv', GlobMeans, RetryFromStar
  PROVE  GlobMeans'
  <1>1. /\ AnswerOpen /\ ~AtStar /\ ~AtMatch /\ starP # 0
        /\ starS' = starS + 1 /\ s' = starS + 1 /\ p' = starP + 1
        /\ UNCHANGED <<pat, path, starP>> /\ LoopOrReturn
    BY DEF GlobMeans, RetryFromStar
  <1>2. starS \in Nat /\ starP \in 1 .. Len(pat) /\ Len(pat) \in Nat
    BY <1>1 DEF GlobInv, GlobTypeOK
  <1>3. s \notin From[p]
    BY <1>1, Mismatch DEF GlobInv, AnswerOpen
  <1>4. From' = From /\ From[starP + 1] \subseteq Nat \ {0}
    BY <1>1, <1>2, FromPlaces, FromKept DEF GlobInv
  <1>5. Behind <=> starS + 1 \in From[starP + 1] \/ \E t \in From[starP + 1] : t > starS + 1
    BY <1>2, <1>4 DEF Behind
  <1>6. Behind' <=> \E t \in From[starP + 1] : t > starS + 1
    BY <1>1, <1>4 DEF Behind
  <1>7. 1 \in From[1] <=> s' \in From[p'] \/ (starP' # 0 /\ Behind')
    BY <1>1, <1>3, <1>5, <1>6 DEF AnswerOpen
  <1>8. \A t \in From[starP' + 1] : t \in Nat /\ (t > starS' => t + (s' - starS') \in From[p'])
    BY <1>1, <1>2, <1>4
  <1>9. QED
    BY <1>1, <1>7, <1>8, Answered DEF GlobInv

(* Without a star, or with one that has taken everything, nothing is left. *)
LEMMA GiveUpMeans ==
  ASSUME GlobInv, GlobMeans, GiveUp
  PROVE  GlobMeans'
  <1>1. /\ AnswerOpen /\ ~AtStar /\ ~AtMatch /\ (starP = 0 \/ starS > Len(path))
        /\ fits' = IF PatEnd /\ PathEnd THEN "yes" ELSE "no"
        /\ UNCHANGED <<pat, path, p, s, starP, starS>>
    BY DEF GlobMeans, GiveUp
  <1>2. From' = From
    BY <1>1, FromKept
  <1>3. ~(starP # 0 /\ Behind)
    <2>1. SUFFICES ASSUME starP # 0, NEW t \in From[starP + 1], t > starS PROVE FALSE
      BY DEF Behind
    <2>2. /\ Len(pat) \in Nat /\ Len(path) \in Nat /\ starP + 1 \in 1 .. Len(pat) + 1
          /\ starP + 1 = Len(pat) + 1 \/ starP + 1 \in 1 .. Len(pat)
      BY <2>1 DEF GlobInv, GlobTypeOK
    <2>3. t \in 1 .. End
      <3>1. From[starP + 1] \subseteq 1 .. End
        BY <2>2, FromEquations DEF End, Past, GlobInv
      <3>2. QED
        BY <2>1, <3>1
    <2>4. QED
      BY <1>1, <2>1, <2>2, <2>3 DEF GlobInv, GlobTypeOK, End, Past
  <1>4. 1 \in From[1] <=> s \in From[p]
    BY <1>1, <1>3 DEF AnswerOpen
  <1>5. CASE PatEnd /\ PathEnd
    <2>1. Len(pat) \in Nat /\ Len(path) \in Nat /\ p = Len(pat) + 1 /\ s = Len(path) + 1
      BY <1>5 DEF GlobInv, GlobTypeOK, PatEnd, PathEnd
    <2>2. s \in From[p]
      BY <2>1, FromEquations DEF GlobInv, End, Past
    <2>3. QED
      BY <1>1, <1>2, <1>4, <1>5, <2>2 DEF GlobMeans
  <1>6. CASE ~(PatEnd /\ PathEnd)
    <2>1. s \notin From[p]
      BY <1>1, <1>6, Mismatch DEF GlobInv
    <2>2. QED
      BY <1>1, <1>2, <1>4, <1>6, <2>1 DEF GlobMeans
  <1>7. QED
    BY <1>5, <1>6

(* The loop, which only ever goes back to the last "**", answers what the  *)
(* glob means, for every pattern and every path                            *)
(* (vetter-core/src/matcher/glob.rs, matches_segments).                    *)
THEOREM GlobAnswers == GlobSpec => []GlobAgrees
  <1>1. GlobInit => GlobMeans
    BY DEF GlobInit, GlobMeans
  <1>2. GlobInv /\ GlobInv' /\ GlobMeans /\ [GlobNext]_globVars => GlobMeans'
    <2> SUFFICES ASSUME GlobInv, GlobInv', GlobMeans, [GlobNext]_globVars PROVE GlobMeans'
      OBVIOUS
    <2>1. CASE GlobStep
      BY <2>1, PassMeans, TakeMeans, RetryMeans, GiveUpMeans DEF GlobStep
    <2>2. CASE \E pattern, segments \in Seq(STRING) : StartGlob(pattern, segments)
      <3>1. p' = 1 /\ s' = 1 /\ starP' = 0 /\ fits' = "looping"
        BY <2>2 DEF StartGlob
      <3>2. QED
        BY <3>1 DEF GlobMeans, AnswerOpen
    <2>3. CASE UNCHANGED globVars
      <3>1. UNCHANGED <<pat, path, p, s, starP, starS, fits>> /\ From' = From
        BY <2>3, FromKept DEF globVars
      <3>2. QED
        BY <3>1 DEF GlobMeans, AnswerOpen, Behind, PatEnd, PathEnd
    <2>4. QED
      BY <2>1, <2>2, <2>3 DEF GlobNext
  <1>3. GlobInv /\ GlobMeans => GlobAgrees
    BY MeansFrom DEF GlobInv, GlobMeans, GlobAgrees
  <1>4. QED
    BY <1>1, <1>2, <1>3, GlobInvariant, PTL DEF GlobSpec

-----------------------------------------------------------------------------
(* The card of a request, while known hosts are added.                     *)

(* Under the read locks; and on the way to the queue, in it, or decided.   *)
Locked == {"evaluate", "match", "summary"}
Carded == {"submit", "pending", "resolved"}

FlagKinds == {"InsecureFlag", "CacertOverride", "ResolveOverride", "UnixSocket",
              "ClientCertificate", "RemoteHeaderName", "CreateDirs", "FollowRedirects"}
HttpKinds == {"WriteMethod", "AuthHeader", "InsecureTls", "NonStandardPort", "IdnHost", "RawIpLiteral"}
FileKinds == {"FileOutsideCwd", "FileReadOutsideCwd"}
Parsing   == FlagKinds \cup HttpKinds \cup FileKinds

CardTypes == [known : BOOLEAN, signals : SUBSET (Parsing \cup {"UnknownHost"})]

Adding ==
  /\ kpc = [t \in Adders |-> kpc[t]]
  /\ khHeld = [t \in Adders |-> khHeld[t]]

(* The parser yields one command or none, and leaves hosts to the daemon. *)
Yields(out) ==
  /\ out.parsed = {} \/ \E parsed \in out.parsed : out.parsed = {parsed}
  /\ \A parsed \in out.parsed : parsed.signals \subseteq Parsing

(* The read lock is the worker's. *)
LocksHosts ==
  /\ reading = (pc \in Locked)
  /\ pc \in Locked \cup Carded => outcome.parsed # {} /\ card \subseteq CardTypes

(* The signal about the host is that of the store, as it still is. *)
SignalTrue ==
  pc \in Locked => \A c \in card : ("UnknownHost" \notin c.signals) <=> IsKnownHost(Request.url, Store)

Fresh == \A c \in card : c.known = IsKnownHost(Request.url, Store)

(* While there was no race, whoever repaints does so from the store as it  *)
(* is, and a card that is not fresh has its repaint before it.             *)
FreshOrDue ==
  ~raced =>
    /\ \A t \in Adders : kpc[t] = "refresh" => khHeld[t] = khLive
    /\ pc \in Carded => Fresh \/ \E t \in Adders : kpc[t] \in {"snapshot", "refresh"}

CardInv ==
  Adding /\ Yields(outcome) /\ LocksHosts /\ SignalTrue /\ PillMatchesSignal /\ FreshOrDue

(* The two ways to ask for a host agree on every store. *)
LEMMA HostKnown ==
  ASSUME NEW url, NEW store
  PROVE  /\ IsKnownHost(url, store) <=> "UnknownHost" \notin CheckKnownHosts(url, store)
         /\ CheckKnownHosts(url, store) \subseteq {"UnknownHost"}
         /\ IsKnownHost(url, store) \in BOOLEAN
  BY DEF IsKnownHost, CheckKnownHosts, IsLoopback

(* The parser raises none of the host. *)
LEMMA NotParsed == "UnknownHost" \notin Parsing
  BY DEF Parsing, FlagKinds, HttpKinds, FileKinds

(* The signals of what a command does are none of those of its flags.      *)
LEMMA GenericSignals ==
  ASSUME NEW parsed
  PROVE  Analyze(parsed) \subseteq HttpKinds \cup FileKinds
  <1>1. AnalyzeHttp(parsed.http) \subseteq HttpKinds
    BY Zenon DEF AnalyzeHttp, HttpKinds
  <1>2. Analyze(parsed) \subseteq AnalyzeHttp(parsed.http) \cup FileKinds
    BY Zenon DEF Analyze, FileKinds
  <1>3. QED
    BY <1>1, <1>2

(* The signals of a command are those of its flags and of what it does. *)
LEMMA CommandSignals ==
  ASSUME NEW url
  PROVE  CommandFor(url).signals \subseteq Parsing
  <1>1. FlagSignals \subseteq Parsing
    <2>1. FlagSignals \subseteq FlagKinds
      BY Zenon DEF FlagSignals, FlagKinds
    <2>2. QED
      BY <2>1 DEF Parsing
  <1>2. ASSUME NEW parsed PROVE Analyze(parsed) \subseteq Parsing
    BY GenericSignals DEF Parsing
  <1>3. \E command : CommandFor(url).signals = FlagSignals \cup Analyze(command)
    BY DEF CommandFor
  <1>4. QED
    BY <1>1, <1>2, <1>3

(* Whatever the parser does, it yields one command or none. *)
LEMMA ParserYields ==
  ASSUME Yields(outcome), ParserStep
  PROVE  Yields(outcome')
  <1>1. CASE outcome' = outcome
    BY <1>1
  <1>2. CASE outcome'.parsed = {}
    BY <1>2 DEF Yields
  <1>3. CASE \E url \in got.url : outcome' = [error |-> NoError, parsed |-> {CommandFor(url)}]
    <2>1. PICK url \in got.url : outcome' = [error |-> NoError, parsed |-> {CommandFor(url)}]
      BY <1>3
    <2>2. PICK command : command = CommandFor(url)
      OBVIOUS
    <2>3. command.signals \subseteq Parsing
      BY <2>2, CommandSignals
    <2>4. outcome'.parsed = {command}
      BY <2>1, <2>2
    <2>5. QED
      BY <2>3, <2>4 DEF Yields
  <1>4. \A error : Refuse(error) => outcome'.parsed = {}
    BY DEF Refuse
  <1>5. \A new, taken : Emit(new, taken) => outcome' = outcome
    BY DEF Emit
  <1>6. \A spec, given : TakeValue(spec, given) => outcome' = outcome \/ outcome'.parsed = {}
    BY <1>4, <1>5 DEF TakeValue
  <1>7. CASE TokeniseWord
    BY <1>1, <1>2, <1>4, <1>5, <1>6, <1>7 DEF TokeniseWord, ReadLong, ReadShort
  <1>8. CASE Tokenised
    BY <1>1, <1>8 DEF Tokenised
  <1>9. CASE AbsorbToken
    BY <1>1, <1>2, <1>4, <1>9 DEF AbsorbToken
  <1>10. CASE Finalise
    BY <1>2, <1>3, <1>4, <1>10 DEF Finalise
  <1>11. QED
    BY <1>7, <1>8, <1>9, <1>10 DEF ParserStep

(* Before it has a card, nothing is claimed of a request. *)
LEMMA NoCardYet ==
  ASSUME CardInv, UNCHANGED <<khVars, card, raced>>, Yields(outcome'),
         pc \notin Locked \cup Carded, pc' \notin Locked \cup Carded
  PROVE  CardInv'
  BY DEF CardInv, Adding, LocksHosts, SignalTrue, PillMatchesSignal, FreshOrDue, Carded, Fresh, khVars

(* A worker takes the read locks and looks at the host. *)
LEMMA LockInv ==
  ASSUME CardInv, LockStores
  PROVE  CardInv'
  <1>1. pc = "parse" /\ UNCHANGED <<outcome, raced>>
    BY DEF LockStores, Unparsed, parserVars
  <1>2. pc \notin Locked \cup Carded /\ "refused" \notin Locked \cup Carded
    BY <1>1 DEF Locked, Carded
  <1>3. CASE pc' = "refused" /\ UNCHANGED <<card, khVars>>
    BY <1>1, <1>2, <1>3, NoCardYet DEF CardInv
  <1>4. ASSUME NEW parsed \in outcome.parsed, LockHosts(TRUE), pc' = "evaluate",
               card' = {[known |-> FALSE, signals |-> parsed.signals \cup CheckKnownHosts(parsed.http.url, Store)]}
        PROVE  CardInv'
    <2>1. reading' = TRUE /\ UNCHANGED <<khFile, khLive, kpc, khHeld>>
      BY <1>4 DEF LockHosts
    <2>2. outcome.parsed = {parsed} /\ parsed.signals \subseteq Parsing
      BY <1>4 DEF CardInv, Yields
    <2>3. Request = parsed.http /\ Request' = Request /\ Store' = Store
      BY <1>1, <2>1, <2>2 DEF Request, Store
    <2> DEFINE url == Request.url
               signals == parsed.signals \cup CheckKnownHosts(url, Store)
    <2>4. card' = {[known |-> FALSE, signals |-> signals]}
      BY <1>4, <2>3
    <2>5. /\ IsKnownHost(url, Store) <=> "UnknownHost" \notin CheckKnownHosts(url, Store)
          /\ CheckKnownHosts(url, Store) \subseteq {"UnknownHost"}
      BY HostKnown
    <2>6. /\ "UnknownHost" \notin signals <=> IsKnownHost(url, Store)
          /\ signals \subseteq Parsing \cup {"UnknownHost"}
      BY <2>2, <2>5, NotParsed
    <2>7. SignalTrue'
      <3> HIDE DEF signals
      <3>1. \A c \in card' : c.signals = signals
        BY <2>4
      <3>2. Request'.url = url
        BY <2>3
      <3> HIDE DEF url
      <3>3. QED
        BY <2>3, <2>6, <3>1, <3>2 DEF SignalTrue
    <2>8. LocksHosts'
      <3> HIDE DEF signals
      <3>1. card' \subseteq CardTypes
        BY <2>4, <2>6 DEF CardTypes
      <3>2. outcome'.parsed # {}
        BY <1>1, <2>2
      <3>3. reading' = (pc' \in Locked)
        BY <1>4, <2>1 DEF Locked
      <3>4. QED
        BY <3>1, <3>2, <3>3 DEF LocksHosts
    <2>9. "evaluate" \notin Carded
      BY DEF Carded
    <2>10. Adding' /\ Yields(outcome)' /\ PillMatchesSignal' /\ FreshOrDue'
      BY <1>1, <1>4, <2>1, <2>9 DEF CardInv, Adding, Yields, PillMatchesSignal, FreshOrDue, Carded
    <2>11. QED
      BY <2>7, <2>8, <2>10 DEF CardInv
  <1>5. QED
    BY <1>3, <1>4 DEF LockStores

(* Under the locks the store is as it was. *)
LEMMA MatchInv ==
  ASSUME CardInv, Evaluate \/ Match
  PROVE  CardInv'
  <1>1. UNCHANGED <<outcome, raced, card, khVars>>
    BY DEF Evaluate, Match, Unparsed, parserVars, workerVars
  <1>2. pc \in Locked /\ pc' \in Locked
    BY DEF Evaluate, Match, Locked, workerVars
  <1>3. pc \notin Carded /\ pc' \notin Carded
    BY <1>2 DEF Locked, Carded
  <1>4. UNCHANGED <<Request, Store, kpc, khHeld, reading, khLive>>
    BY <1>1 DEF Request, Store, khVars
  <1>5. QED
    BY <1>1, <1>2, <1>3, <1>4 DEF CardInv, Adding, Yields, LocksHosts, SignalTrue, PillMatchesSignal,
          FreshOrDue, Carded

(* The card gets the colour of its host, from the same store. *)
LEMMA SummaryInv ==
  ASSUME CardInv, BuildSummary
  PROVE  CardInv'
  <1>1. UNCHANGED <<outcome, raced, khLive, kpc, khHeld>> /\ reading' = FALSE
    BY DEF BuildSummary, Unparsed, parserVars, LockHosts
  <1>2. pc = "summary" /\ pc' = "submit"
    BY DEF BuildSummary
  <1>3. pc \in Locked /\ pc' \notin Locked /\ pc' \in Carded
    BY <1>2 DEF Locked, Carded
  <1>4. Request' = Request /\ Store' = Store
    BY <1>1 DEF Request, Store
  <1> DEFINE known == IsKnownHost(Request.url, Store)
  <1>5. known \in BOOLEAN
    BY HostKnown
  <1>6. card' = {[c EXCEPT !.known = known] : c \in card}
    BY DEF BuildSummary
  <1>7. known' = known
    BY <1>4
  <1>8. card \subseteq CardTypes /\ outcome.parsed # {}
        /\ \A c \in card : ("UnknownHost" \notin c.signals) <=> known
    BY <1>3 DEF CardInv, LocksHosts, SignalTrue
  <1> HIDE DEF known
  <1>9. ASSUME NEW d \in card'
        PROVE  d \in CardTypes /\ d.known = known /\ (("UnknownHost" \notin d.signals) <=> known)
    <2>1. PICK c \in card : d = [c EXCEPT !.known = known]
      BY <1>6
    <2>2. c \in CardTypes
      BY <1>8
    <2>3. d = [known |-> known, signals |-> c.signals]
      BY <2>1, <2>2 DEF CardTypes
    <2>4. QED
      BY <1>5, <1>8, <2>2, <2>3 DEF CardTypes
  <1>10. LocksHosts'
    <2>1. card' \subseteq CardTypes
      BY <1>9
    <2>2. outcome'.parsed # {}
      BY <1>1, <1>8
    <2>3. reading' = (pc' \in Locked)
      <3>1. (pc' \in Locked) = FALSE
        BY <1>3
      <3>2. QED
        BY <1>1, <3>1
    <2>4. QED
      BY <2>1, <2>2, <2>3 DEF LocksHosts
  <1>11. PillMatchesSignal'
    BY <1>5, <1>9 DEF PillMatchesSignal
  <1>12. Fresh'
    BY <1>7, <1>9 DEF Fresh, known
  <1>13. FreshOrDue'
    BY <1>1, <1>12 DEF CardInv, FreshOrDue
  <1>14. Adding' /\ Yields(outcome)' /\ SignalTrue'
    BY <1>1, <1>3 DEF CardInv, Adding, Yields, SignalTrue
  <1>15. QED
    BY <1>10, <1>11, <1>13, <1>14 DEF CardInv

(* The way to the queue and the decision leave the card as it is. *)
LEMMA QueuedInv ==
  ASSUME CardInv, Submit \/ UserDecides
  PROVE  CardInv'
  <1>1. UNCHANGED <<outcome, raced, card, khVars>>
    BY DEF Submit, UserDecides, Unparsed, parserVars
  <1>2. pc \in Carded /\ pc' \in Carded
    BY DEF Submit, UserDecides, Carded
  <1>3. pc \notin Locked /\ pc' \notin Locked
    BY <1>2 DEF Locked, Carded
  <1>4. UNCHANGED <<Request, Store, kpc, khHeld, reading, khLive>>
    BY <1>1 DEF Request, Store, khVars
  <1>5. Fresh => Fresh'
    BY <1>1, <1>4 DEF Fresh
  <1>6. QED
    BY <1>1, <1>2, <1>3, <1>4, <1>5 DEF CardInv, Adding, Yields, LocksHosts, SignalTrue,
          PillMatchesSignal, FreshOrDue, Carded

(* Looking the program up and reading the words make no card. *)
LEMMA ReadInv ==
  ASSUME CardInv, ResolveArgv0 \/ ParseRequest \/ Parse
  PROVE  CardInv'
  <1>1. UNCHANGED <<khVars, card, raced>>
    BY DEF ResolveArgv0, ParseRequest, Parse, workerVars
  <1>2. pc \notin Locked \cup Carded /\ pc' \notin Locked \cup Carded
    BY DEF ResolveArgv0, ParseRequest, Parse, workerVars, Locked, Carded
  <1>3. Yields(outcome')
    <2>1. CASE ParserStep
      BY <2>1, ParserYields DEF CardInv
    <2>2. CASE UNCHANGED parserVars
      BY <2>2 DEF CardInv, parserVars
    <2>3. CASE StartParse(setup.argv)
      BY <2>3 DEF StartParse, Yields
    <2>4. QED
      BY <2>1, <2>2, <2>3 DEF ResolveArgv0, ParseRequest, Parse, Unparsed
  <1>4. QED
    BY <1>1, <1>2, <1>3, NoCardYet

(* An adder that leaves the daemon's copy alone disturbs no card. *)
LEMMA AdderKeeps ==
  ASSUME CardInv, UNCHANGED <<outcome, pc, card, khLive, reading>>,
         raced => raced', Adding',
         \A t \in Adders : kpc'[t] = "refresh" => khHeld'[t] = khLive \/ (kpc[t] = "refresh" /\ khHeld'[t] = khHeld[t]),
         \A t \in Adders : kpc[t] \in {"snapshot", "refresh"} => kpc'[t] \in {"snapshot", "refresh"}
  PROVE  CardInv'
  <1>1. Request' = Request /\ Store' = Store
    BY DEF Request, Store
  <1>2. Fresh => Fresh'
    BY <1>1 DEF Fresh
  <1>3. Yields(outcome)' /\ LocksHosts' /\ SignalTrue' /\ PillMatchesSignal'
    BY <1>1 DEF CardInv, Yields, LocksHosts, SignalTrue, PillMatchesSignal
  <1>4. FreshOrDue'
    <2> SUFFICES ASSUME ~raced' PROVE FreshOrDue'
      BY DEF FreshOrDue
    <2>1. \A t \in Adders : kpc[t] = "refresh" => khHeld[t] = khLive
      BY DEF CardInv, FreshOrDue
    <2>2. pc \in Carded => Fresh \/ \E t \in Adders : kpc[t] \in {"snapshot", "refresh"}
      BY DEF CardInv, FreshOrDue
    <2>3. \A t \in Adders : kpc'[t] = "refresh" => khHeld'[t] = khLive'
      BY <2>1
    <2>4. pc' \in Carded => Fresh' \/ \E t \in Adders : kpc'[t] \in {"snapshot", "refresh"}
      BY <1>2, <2>2
    <2>5. QED
      BY <2>3, <2>4 DEF FreshOrDue
  <1>5. QED
    BY <1>3, <1>4 DEF CardInv

(* An add begins, and goes on as far as loading the file again. *)
LEMMA AddInv ==
  ASSUME CardInv, NEW t \in Adders,
         AddKnownHost(t) \/ (AddGoesOn(t) /\ ~InstallHosts(t))
  PROVE  CardInv'
  <1>1. UNCHANGED <<outcome, pc, card>> /\ (raced => raced')
    <2>1. Unparsed /\ UNCHANGED workerVars
      BY DEF AddKnownHost, AddGoesOn
    <2>2. raced => raced'
      BY Zenon DEF AddKnownHost, AddGoesOn
    <2>3. QED
      BY <2>1, <2>2 DEF Unparsed, parserVars, workerVars
  <1>2. \/ \E pattern : ReadHosts(t, pattern)
        \/ WriteHosts(t) \/ LoadHosts(t) \/ FailHosts(t) \/ SnapshotHosts(t)
    BY DEF AddKnownHost, AddGoesOn, AdderStep
  <1>3. PICK next, held :
          /\ UNCHANGED <<khLive, reading>>
          /\ kpc' = [kpc EXCEPT ![t] = next] /\ khHeld' = [khHeld EXCEPT ![t] = held]
          /\ next = "refresh" => held = khLive
          /\ kpc[t] = "snapshot" => next = "refresh"
          /\ kpc[t] # "refresh"
    <2>1. CASE \E pattern : ReadHosts(t, pattern)
      <3>1. PICK pattern : ReadHosts(t, pattern)
        BY <2>1
      <3>2. QED
        BY <3>1 DEF ReadHosts
    <2>2. CASE WriteHosts(t)
      <3>1. khHeld' = [khHeld EXCEPT ![t] = khHeld[t]]
        BY <2>2 DEF WriteHosts, CardInv, Adding
      <3>2. kpc' = [kpc EXCEPT ![t] = "load"]
        BY <2>2 DEF WriteHosts
      <3>3. UNCHANGED <<khLive, reading>> /\ kpc[t] = "write"
        BY <2>2 DEF WriteHosts
      <3>4. QED
        BY <3>1, <3>2, <3>3
    <2>3. CASE LoadHosts(t)
      BY <2>3 DEF LoadHosts
    <2>4. CASE FailHosts(t)
      BY <2>4 DEF FailHosts
    <2>5. CASE SnapshotHosts(t)
      BY <2>5 DEF SnapshotHosts
    <2>6. QED
      BY <1>2, <2>1, <2>2, <2>3, <2>4, <2>5
  <1>4. Adding'
    BY <1>3 DEF Adding, CardInv
  <1>5. kpc'[t] = next /\ khHeld'[t] = held
        /\ \A other \in Adders : other # t => kpc'[other] = kpc[other] /\ khHeld'[other] = khHeld[other]
    BY <1>3 DEF CardInv, Adding
  <1>6. \A u \in Adders : kpc'[u] = "refresh" => khHeld'[u] = khLive \/ (kpc[u] = "refresh" /\ khHeld'[u] = khHeld[u])
    BY <1>3, <1>5
  <1>7. \A u \in Adders : kpc[u] \in {"snapshot", "refresh"} => kpc'[u] \in {"snapshot", "refresh"}
    BY <1>3, <1>5
  <1>8. QED
    BY <1>1, <1>3, <1>4, <1>6, <1>7, AdderKeeps

(* The daemon's copy is replaced: no worker reads it, and the repaint is   *)
(* still to come.                                                          *)
LEMMA InstallInv ==
  ASSUME CardInv, NEW t \in Adders, AddGoesOn(t), InstallHosts(t)
  PROVE  CardInv'
  <1>1. Unparsed /\ UNCHANGED workerVars
    BY DEF AddGoesOn
  <1>2. UNCHANGED <<outcome, pc, card>>
    BY <1>1 DEF Unparsed, parserVars, workerVars
  <1>3. /\ kpc[t] = "install" /\ ~reading
        /\ kpc' = [kpc EXCEPT ![t] = "snapshot"]
        /\ UNCHANGED <<khHeld, reading>> /\ khLive' = khHeld[t]
    BY DEF InstallHosts
  <1>4. ~raced' => ~raced /\ \A other \in Adders : other # t => kpc[other] # "refresh"
    BY <1>3 DEF AddGoesOn, Repainting
  <1>5. pc \notin Locked
    BY <1>3 DEF CardInv, LocksHosts
  <1>6. Adding'
    BY <1>3 DEF CardInv, Adding
  <1>7. kpc'[t] = "snapshot" /\ \A other \in Adders : other # t => kpc'[other] = kpc[other]
    BY <1>3 DEF CardInv, Adding
  <1>8. Yields(outcome)' /\ LocksHosts' /\ SignalTrue' /\ PillMatchesSignal'
    BY <1>2, <1>3, <1>5 DEF CardInv, Yields, LocksHosts, SignalTrue, PillMatchesSignal
  <1>9. FreshOrDue'
    <2>1. ~raced' => \A other \in Adders : kpc'[other] # "refresh"
      BY <1>4, <1>7
    <2>2. \E other \in Adders : kpc'[other] \in {"snapshot", "refresh"}
      BY <1>7
    <2>3. QED
      BY <2>1, <2>2 DEF FreshOrDue
  <1>10. QED
    BY <1>6, <1>8, <1>9 DEF CardInv

(* The cards are gone over: both fields from one copy, which is the store  *)
(* as it is unless there was a race.                                       *)
LEMMA RefreshInv ==
  ASSUME CardInv, NEW t \in Adders, RefreshCards(t)
  PROVE  CardInv'
  <1>1. /\ Unparsed /\ UNCHANGED pc /\ FinishHosts(t)
        /\ raced' = (raced \/ pc = "submit")
    BY DEF RefreshCards
  <1>2. UNCHANGED outcome
    BY <1>1 DEF Unparsed, parserVars
  <1>3. /\ kpc[t] = "refresh" /\ UNCHANGED <<khLive, reading>>
        /\ kpc' = [kpc EXCEPT ![t] = "idle"] /\ khHeld' = [khHeld EXCEPT ![t] = {}]
    BY <1>1 DEF FinishHosts
  <1>4. Adding' /\ kpc'[t] = "idle"
        /\ \A other \in Adders : other # t => kpc'[other] = kpc[other] /\ khHeld'[other] = khHeld[other]
    BY <1>3 DEF CardInv, Adding
  <1>5. Request' = Request /\ Store' = Store
    BY <1>2, <1>3 DEF Request, Store
  <1>6. ~raced' => \A other \in Adders : kpc'[other] = "refresh" => khHeld'[other] = khLive'
    BY <1>1, <1>3, <1>4 DEF CardInv, FreshOrDue
  <1>7. CASE pc \notin {"pending", "resolved"}
    <2>1. card' = card
      BY <1>7 DEF RefreshCards
    <2>2. ~raced' => pc' \notin Carded
      BY <1>1, <1>7 DEF Carded
    <2>3. Yields(outcome)' /\ LocksHosts' /\ SignalTrue' /\ PillMatchesSignal'
      BY <1>1, <1>2, <1>3, <1>5, <2>1 DEF CardInv, Yields, LocksHosts, SignalTrue, PillMatchesSignal
    <2>4. FreshOrDue'
      BY <1>6, <2>2 DEF FreshOrDue
    <2>5. QED
      BY <1>4, <2>3, <2>4 DEF CardInv
  <1>8. CASE pc \in {"pending", "resolved"}
    <2> DEFINE patterns == khHeld[t] \cup Builtin
               known == IsKnownHost(Request.url, patterns)
               hint == CheckKnownHosts(Request.url, patterns)
    <2>1. card' = {RefreshSummary(c, patterns) : c \in card}
      BY <1>8 DEF RefreshCards
    <2>2. known \in BOOLEAN /\ hint \subseteq {"UnknownHost"} /\ (known <=> "UnknownHost" \notin hint)
      BY HostKnown
    <2>3. \A c \in card : RefreshSummary(c, patterns) =
            [c EXCEPT !.known = known, !.signals = (@ \ {"UnknownHost"}) \cup hint]
      BY DEF RefreshSummary
    <2>4. ~raced' => patterns = Store'
      BY <1>1, <1>3, <1>5 DEF CardInv, FreshOrDue, Store
    <2>5. ~raced' => known = IsKnownHost(Request.url, Store)'
      BY <1>5, <2>4
    <2>6. pc \notin Locked /\ pc' \notin Locked /\ pc \in Carded
      BY <1>1, <1>8 DEF Locked, Carded
    <2>7. card \subseteq CardTypes /\ outcome'.parsed # {} /\ reading = (pc \in Locked)
      BY <1>2, <2>6 DEF CardInv, LocksHosts
    <2> HIDE DEF patterns, known, hint
    <2>8. ASSUME NEW d \in card'
          PROVE  d \in CardTypes /\ d.known = known /\ (known <=> "UnknownHost" \notin d.signals)
      <3>1. PICK c \in card : d = RefreshSummary(c, patterns)
        BY <2>1
      <3>2. c \in CardTypes
        BY <2>7
      <3>3. d = [known |-> known, signals |-> (c.signals \ {"UnknownHost"}) \cup hint]
        BY <2>3, <3>1, <3>2 DEF CardTypes
      <3>4. (c.signals \ {"UnknownHost"}) \cup hint \subseteq Parsing \cup {"UnknownHost"}
        BY <2>2, <3>2 DEF CardTypes
      <3>5. known <=> "UnknownHost" \notin (c.signals \ {"UnknownHost"}) \cup hint
        BY <2>2
      <3>6. QED
        BY <2>2, <3>3, <3>4, <3>5 DEF CardTypes
    <2>9. LocksHosts'
      <3>1. card' \subseteq CardTypes
        BY <2>8
      <3>2. reading' = (pc' \in Locked)
        BY <1>1, <1>3, <2>7
      <3>3. QED
        BY <2>7, <3>1, <3>2 DEF LocksHosts
    <2>10. PillMatchesSignal'
      BY <2>2, <2>8 DEF PillMatchesSignal
    <2>11. ~raced' => Fresh'
      BY <2>5, <2>8 DEF Fresh
    <2>12. FreshOrDue'
      BY <1>6, <2>11 DEF FreshOrDue
    <2>13. Yields(outcome)' /\ SignalTrue'
      BY <1>2, <2>6 DEF CardInv, Yields, SignalTrue
    <2>14. QED
      BY <1>4, <2>9, <2>10, <2>12, <2>13 DEF CardInv
  <1>9. QED
    BY <1>7, <1>8

(* The invariant of the card holds at first and in every step. *)
LEMMA CardInvariant == AdmissionSpec => []CardInv
  <1>1. AdmissionInit => CardInv
    <2> SUFFICES ASSUME AdmissionInit PROVE CardInv
      OBVIOUS
    <2>1. pc = "resolve" /\ KnownHostsInit /\ ParserInit
      BY DEF AdmissionInit
    <2>2. pc \notin Locked \cup Carded
      BY <2>1 DEF Locked, Carded
    <2>3. Adding /\ reading = FALSE /\ \A t \in Adders : kpc[t] = "idle"
      BY <2>1 DEF KnownHostsInit, Adding
    <2>4. Yields(outcome)
      BY <2>1 DEF ParserInit, Yields
    <2>5. reading = (pc \in Locked)
      <3>1. pc = "resolve" /\ reading = FALSE
        BY <2>1, <2>3
      <3>2. (pc \in Locked) = FALSE
        BY <2>2
      <3>3. QED
        BY <3>1, <3>2
    <2>6. LocksHosts /\ SignalTrue
      BY <2>2, <2>5 DEF LocksHosts, SignalTrue
    <2>7. PillMatchesSignal /\ FreshOrDue
      BY <2>1, <2>2, <2>3 DEF PillMatchesSignal, FreshOrDue
    <2>8. QED
      BY <2>3, <2>4, <2>6, <2>7 DEF CardInv
  <1>2. CardInv /\ [AdmissionNext]_vars => CardInv'
    <2> SUFFICES ASSUME CardInv, [AdmissionNext]_vars PROVE CardInv'
      OBVIOUS
    <2>1. CASE ResolveArgv0 \/ ParseRequest \/ Parse
      BY <2>1, ReadInv
    <2>2. CASE LockStores
      BY <2>2, LockInv
    <2>3. CASE Evaluate \/ Match
      BY <2>3, MatchInv
    <2>4. CASE BuildSummary
      BY <2>4, SummaryInv
    <2>5. CASE Submit \/ UserDecides
      BY <2>5, QueuedInv
    <2>6. ASSUME NEW t \in Adders, AddKnownHost(t) \/ AddGoesOn(t) \/ RefreshCards(t)
          PROVE  CardInv'
      BY <2>6, AddInv, InstallInv, RefreshInv
    <2>7. CASE UNCHANGED vars
      <3>1. UNCHANGED <<outcome, pc, card, raced, khFile, khLive, kpc, khHeld, reading>>
        BY <2>7 DEF vars, parserVars, khVars, workerVars
      <3>2. Adding'
        BY <3>1 DEF CardInv, Adding
      <3>3. QED
        BY <3>1, <3>2, AdderKeeps DEF CardInv
    <2>8. QED
      BY <2>1, <2>2, <2>3, <2>4, <2>5, <2>6, <2>7 DEF AdmissionNext
  <1>3. QED
    BY <1>1, <1>2, PTL DEF AdmissionSpec

(* However the reading of a request, its decision and the adding of known  *)
(* hosts interleave, the colour of a card's host and the signal about it   *)
(* agree (vetterd/src/lib.rs, build_summary; pending.rs, refresh_summary). *)
THEOREM PillFollowsSignal == AdmissionSpec => []PillMatchesSignal
  BY CardInvariant, PTL DEF CardInv

(* Once no add is under way, the card says of its host what the store      *)
(* says, if neither of the two races happened (pending.rs, refresh_with;   *)
(* suggestions.rs, add_known_host).                                        *)
THEOREM HintsStayFresh == AdmissionSpec => []HintsFresh
  <1>1. CardInv => HintsFresh
    BY DEF CardInv, FreshOrDue, HintsFresh, Fresh, Carded
  <1>2. QED
    BY <1>1, CardInvariant, PTL

-----------------------------------------------------------------------------
(* The rules a card offers.                                                *)

LEMMA PathFits ==
  ASSUME NEW w, NEW t
  PROVE  MatchesPath(w, t) = (1 \in FitsFrom(w, t)[1])
  BY DEF MatchesPath, FitsFrom, FitsStep, Past

(* A pattern as long as the path fits if each segment does. *)
LEMMA FitsPointwise ==
  ASSUME NEW w, NEW t, Measurable(w, t), Len(w) = Len(t),
         \A i \in 1 .. Len(w) : w[i] = "**" \/ MatchesOne(w[i], t[i])
  PROVE  MatchesPath(w, t)
  <1>1. PICK n \in Nat : n = Len(w) /\ n = Len(t) /\ Past(t) = n + 1
    BY DEF Measurable, Past
  <1>2. PICK f : f = FitsFrom(w, t)
    OBVIOUS
  <1>3. /\ f[n + 1] = {n + 1}
        /\ \A i \in 1 .. n : w[i] = "**" => f[i] = {j \in 1 .. n + 1 : \E k \in f[i + 1] : j <= k}
        /\ \A i \in 1 .. n :
             w[i] # "**" => f[i] = {j \in 1 .. n : MatchesOne(w[i], t[j]) /\ j + 1 \in f[i + 1]}
    BY <1>1, <1>2, FitsEquations
  <1> DEFINE Good == {m \in Nat : m <= n => (n + 1) - m \in f[(n + 1) - m]}
  <1>4. 0 \in Good
    BY <1>3
  <1>5. ASSUME NEW m \in Nat, m \in Good PROVE m + 1 \in Good
    <2>1. SUFFICES ASSUME m + 1 <= n PROVE (n + 1) - (m + 1) \in f[(n + 1) - (m + 1)]
      OBVIOUS
    <2>2. PICK i \in 1 .. n : i = (n + 1) - (m + 1) /\ i + 1 = (n + 1) - m
      BY <2>1
    <2>3. i + 1 \in f[i + 1]
      BY <1>5, <2>1, <2>2
    <2>4. i \in f[i]
      <3>1. CASE w[i] = "**"
        <4>1. f[i] = {j \in 1 .. n + 1 : \E k \in f[i + 1] : j <= k}
          BY <1>3, <3>1
        <4>2. i \in 1 .. n + 1 /\ i <= i + 1
          OBVIOUS
        <4>3. QED
          BY <2>3, <4>1, <4>2
      <3>2. CASE w[i] # "**"
        <4>1. MatchesOne(w[i], t[i])
          BY <1>1, <3>2
        <4>2. f[i] = {j \in 1 .. n : MatchesOne(w[i], t[j]) /\ j + 1 \in f[i + 1]}
          BY <1>3, <3>2
        <4>3. QED
          BY <2>3, <4>1, <4>2
      <3>3. QED
        BY <3>1, <3>2
    <2>5. QED
      BY <2>2, <2>4
  <1>6. Nat \subseteq Good
    <2> HIDE DEF Good
    <2>1. QED
      BY <1>4, <1>5, AllNaturals
  <1>7. (n + 1) - n \in f[(n + 1) - n]
    BY <1>6
  <1>8. 1 \in f[1]
    BY <1>7
  <1>9. QED
    BY <1>2, <1>8, PathFits

(* "/**" fits every path. *)
LEMMA FitsAll ==
  ASSUME NEW t, Len(t) \in Nat
  PROVE  MatchesPath(<<"**">>, t)
  <1> DEFINE w == <<"**">>
             f == FitsFrom(w, t)
  <1>1. Len(w) = 1 /\ w[1] = "**"
    OBVIOUS
  <1> HIDE DEF w
  <1>2. Measurable(w, t)
    BY <1>1 DEF Measurable
  <1>3. f[1 + 1] = {Past(t)} /\ f[1] = {j \in 1 .. Past(t) : \E k \in f[1 + 1] : j <= k}
    BY <1>1, <1>2, FitsEquations
  <1>4. 1 \in f[1]
    BY <1>3 DEF Past
  <1>5. QED
    BY <1>4, PathFits DEF w

(* The last segment of a path that ends in "/", and the segments that say  *)
(* nothing.  (Under a name: the provers have no empty string.)             *)
Slash == ""
Silent == {"", "."}

Real(T) == T \ (Silent \cup {".."})

(* A path without those and "..", segment by segment. *)
Kept1(before, segment) ==
  CASE segment \in Silent -> before
    [] segment = ".." -> SubSeq(before, 1, IF before = <<>> THEN 0 ELSE Len(before) - 1)
    [] OTHER -> Append(before, segment)

Collapses(f, t, n) == f = [i \in 0 .. n |-> IF i = 0 THEN <<>> ELSE Kept1(f[i - 1], t[i])]

LEMMA CollapseExists ==
  ASSUME NEW t, NEW n \in Nat
  PROVE  \E f : Collapses(f, t, n)
  <1> DEFINE Good == {m \in Nat : \E f : Collapses(f, t, m)}
  <1>1. 0 \in Good
    <2>1. Collapses([i \in 0 .. 0 |-> <<>>], t, 0)
      BY DEF Collapses
    <2>2. QED
      BY <2>1
  <1>2. ASSUME NEW m \in Nat, m \in Good PROVE m + 1 \in Good
    <2>1. PICK g : Collapses(g, t, m)
      BY <1>2
    <2> DEFINE f == [i \in 0 .. m + 1 |-> IF i <= m THEN g[i] ELSE Kept1(g[m], t[m + 1])]
    <2>2. ASSUME NEW i \in 0 .. m + 1
          PROVE  f[i] = IF i = 0 THEN <<>> ELSE Kept1(f[i - 1], t[i])
      <3>1. CASE i \in 0 .. m
        <4>1. g[i] = IF i = 0 THEN <<>> ELSE Kept1(g[i - 1], t[i])
          BY <2>1, <3>1 DEF Collapses
        <4>2. f[i] = g[i] /\ (i # 0 => f[i - 1] = g[i - 1])
          BY <3>1
        <4>3. QED
          BY <4>1, <4>2
      <3>2. CASE i = m + 1
        <4>1. i # 0 /\ ~(i <= m) /\ i - 1 = m
          BY <3>2
        <4>2. f[i] = Kept1(g[m], t[i]) /\ f[i - 1] = g[m]
          BY <3>2, <4>1
        <4>3. QED
          BY <4>1, <4>2
      <3>3. QED
        BY <3>1, <3>2
    <2>3. Collapses(f, t, m + 1)
      <3>1. f = [i \in 0 .. m + 1 |-> f[i]]
        OBVIOUS
      <3>2. QED
        BY <2>2, <3>1 DEF Collapses
    <2>4. QED
      BY <2>3
  <1>3. Nat \subseteq Good
    <2> HIDE DEF Good
    <2>1. QED
      BY <1>1, <1>2, AllNaturals
  <1>4. QED
    BY <1>3

(* One segment more leaves a path of real segments. *)
LEMMA KeptOne ==
  ASSUME NEW T, NEW b \in Seq(Real(T)), NEW e \in T
  PROVE  Kept1(b, e) \in Seq(Real(T))
  <1>1. CASE e \in Silent
    BY <1>1 DEF Kept1
  <1>2. CASE e = ".."
    <2>1. PICK k : k = IF b = <<>> THEN 0 ELSE Len(b) - 1
      OBVIOUS
    <2>2. CASE b = <<>>
      <3>1. k = 0 /\ SubSeq(b, 1, k) \in Seq(Real(T))
        BY <2>1, <2>2
      <3>2. QED
        BY <1>2, <2>1, <3>1 DEF Kept1
    <2>3. CASE b # <<>>
      <3>1. Len(b) \in Nat /\ Len(b) # 0
        BY <2>3
      <3>2. k \in 0 .. Len(b) /\ k = Len(b) - 1
        BY <2>1, <2>3, <3>1
      <3>3. SubSeq(b, 1, k) \in Seq(Real(T))
        BY <3>1, <3>2
      <3>4. QED
        BY <1>2, <2>1, <3>3 DEF Kept1
    <2>4. QED
      BY <2>2, <2>3
  <1>3. CASE e \notin Silent \cup {".."}
    <2>1. e \in Real(T) /\ Kept1(b, e) = Append(b, e)
      BY <1>3 DEF Kept1, Real
    <2>2. QED
      BY <2>1
  <1>4. QED
    BY <1>1, <1>2, <1>3

(* What is left of a path has none of the three. *)
LEMMA CollapseType ==
  ASSUME NEW T, NEW t \in Seq(T)
  PROVE  Collapse(t) \in Seq(Real(T))
  <1>1. PICK n \in Nat : n = Len(t)
    OBVIOUS
  <1> DEFINE f == CHOOSE f : Collapses(f, t, n)
  <1>2. Collapses(f, t, n)
    BY CollapseExists
  <1>3. Collapse(t) = f[n]
    BY <1>1 DEF Collapse, Collapses, Kept1, Silent
  <1> HIDE DEF f
  <1>4. \A i \in 0 .. n : f[i] = IF i = 0 THEN <<>> ELSE Kept1(f[i - 1], t[i])
    BY <1>2 DEF Collapses
  <1> DEFINE Good == {i \in Nat : i <= n => f[i] \in Seq(Real(T))}
  <1>5. 0 \in Good
    <2>1. f[0] = <<>> /\ <<>> \in Seq(Real(T))
      BY <1>4
    <2>2. QED
      BY <2>1
  <1>6. ASSUME NEW i \in Nat, i \in Good PROVE i + 1 \in Good
    <2>1. SUFFICES ASSUME i + 1 <= n PROVE f[i + 1] \in Seq(Real(T))
      OBVIOUS
    <2>2. f[i] \in Seq(Real(T)) /\ t[i + 1] \in T
      BY <1>1, <1>6, <2>1
    <2>3. f[i + 1] = Kept1(f[i], t[i + 1])
      <3>1. i + 1 \in 0 .. n /\ i + 1 # 0 /\ (i + 1) - 1 = i
        BY <2>1
      <3>2. QED
        BY <1>4, <3>1
    <2>4. QED
      BY <2>2, <2>3, KeptOne
  <1>7. Nat \subseteq Good
    <2> HIDE DEF Good
    <2>1. QED
      BY <1>5, <1>6, AllNaturals
  <1>8. n \in Good
    BY <1>7
  <1>9. QED
    BY <1>1, <1>3, <1>8

(* The normal form of a path is one of its segments, with a "" at the end  *)
(* or nowhere.                                                             *)
LEMMA NormaliseIs ==
  ASSUME NEW t
  PROVE  NormalisePath(t) = IF Collapse(t) # <<>> /\ t[Len(t)] = Slash
                            THEN Append(Collapse(t), Slash) ELSE Collapse(t)
  BY Zenon DEF NormalisePath, Slash

LEMMA NormalForm ==
  ASSUME NEW T, NEW t \in Seq(T)
  PROVE  /\ NormalisePath(t) \in Seq(T)
         /\ \A i \in 1 .. Len(NormalisePath(t)) :
              NormalisePath(t)[i] = Slash => i = Len(NormalisePath(t))
  <1>1. PICK c : c = Collapse(t)
    OBVIOUS
  <1>2. Real(T) \subseteq T /\ Slash \notin Real(T)
    BY Zenon DEF Real, Slash, Silent
  <1>3. c \in Seq(T) /\ Len(c) \in Nat /\ \A i \in 1 .. Len(c) : c[i] # Slash
    <2>1. c \in Seq(Real(T))
      BY <1>1, CollapseType
    <2>2. QED
      BY <1>2, <2>1
  <1>4. CASE c # <<>> /\ t[Len(t)] = Slash
    <2>1. Len(t) \in Nat /\ Len(t) # 0
      <3>1. CASE Len(t) = 0
        <4>1. t = <<>>
          BY <3>1
        <4>2. t \in Seq({}) /\ Real({}) = {}
          BY <4>1 DEF Real
        <4>3. c \in Seq({})
          BY <1>1, <4>2, CollapseType
        <4>4. QED
          BY <1>4, <4>3
      <3>2. QED
        BY <3>1
    <2>2. Slash \in T
      BY <1>4, <2>1
    <2>3. NormalisePath(t) = Append(c, Slash)
      BY <1>1, <1>4, NormaliseIs
    <2>4. Append(c, Slash) \in Seq(T) /\ Len(Append(c, Slash)) = Len(c) + 1
          /\ \A i \in 1 .. Len(c) : Append(c, Slash)[i] = c[i]
      BY <1>3, <2>2
    <2>5. QED
      BY <1>3, <2>3, <2>4
  <1>5. CASE ~(c # <<>> /\ t[Len(t)] = Slash)
    <2>1. NormalisePath(t) = c
      BY <1>1, <1>5, NormaliseIs
    <2>2. QED
      BY <1>3, <2>1
  <1>6. QED
    BY <1>4, <1>5

-----------------------------------------------------------------------------
(* The second tier, in a path that does not end in "/".                    *)
LEMMA PathGlobsIs ==
  ASSUME NEW t, NEW glob \in PathGlobs(t)
  PROVE  \E full : /\ full = Kept(t, {t[i] : i \in DOMAIN t} \ {Slash})
                   /\ Len(full) >= 2 /\ glob = [full EXCEPT ![Len(full)] = "*"]
  BY Zenon DEF PathGlobs, Slash

LEMMA PathGlobFits ==
  ASSUME NEW T, NEW t \in Seq(T), NEW glob \in PathGlobs(t), \A i \in 1 .. Len(t) : t[i] # Slash
  PROVE  MatchesPath(glob, t)
  <1>1. PICK full : /\ full = Kept(t, {t[i] : i \in DOMAIN t} \ {Slash})
                    /\ Len(full) >= 2 /\ glob = [full EXCEPT ![Len(full)] = "*"]
    BY PathGlobsIs
  <1> DEFINE K == {t[i] : i \in DOMAIN t} \ {Slash}
  <1>2. \A i \in 1 .. Len(t) : t[i] \in K
    OBVIOUS
  <1>3. full = t
    <2> HIDE DEF K
    <2>1. Kept(t, K) = t
      BY <1>2, KeptAll
    <2>2. QED
      BY <1>1, <2>1 DEF K
  <1>4. Len(t) \in Nat /\ DOMAIN t = 1 .. Len(t)
    OBVIOUS
  <1>5. glob = [t EXCEPT ![Len(t)] = "*"]
    BY <1>1, <1>3
  <1>6. Len(glob) = Len(t) /\ \A i \in 1 .. Len(t) : glob[i] = "*" \/ glob[i] = t[i]
    <2>1. PICK S : S = T \cup {"*"}
      OBVIOUS
    <2>2. t \in Seq(S) /\ "*" \in S
      BY <2>1
    <2>3. Len(t) \in 1 .. Len(t)
      BY <1>1, <1>3, <1>4
    <2>4. QED
      BY <1>5, <2>2, <2>3, ExceptSeq
  <1>7. QED
    BY <1>4, <1>6, FitsPointwise DEF Measurable, MatchesOne

(* A host read as a pattern fits itself, but for "*." alone. *)
LEMMA OwnPatternFits ==
  ASSUME NEW h \in Seq(STRING), h # BareStar
  PROVE  MatchesHost(HostPattern(h), h)
  <1>1. CASE Len(h) > 1 /\ h[1] = "*"
    <2>1. HostPattern(h).wild = TRUE /\ HostPattern(h).labels = Tail(h)
      BY <1>1 DEF HostPattern
    <2> DEFINE below == Len(h) - Len(Tail(h))
    <2>2. below = 1 /\ Len(Tail(h)) = Len(h) - 1
      BY <1>1
    <2>3. SubSeq(h, 2, Len(h)) = Tail(h)
      BY <1>1
    <2>4. SubSeq(h, 1, 1) # <<NoLabel>>
      <3>1. SubSeq(h, 1, 1)[1] = "*"
        BY <1>1
      <3>2. <<NoLabel>>[1] = NoLabel
        OBVIOUS
      <3>3. "*" # NoLabel
        BY Zenon DEF NoLabel
      <3>4. QED
        BY <3>1, <3>2, <3>3
    <2>5. Tail(h) # <<NoLabel>>
      <3>1. SUFFICES ASSUME Tail(h) = <<NoLabel>> PROVE FALSE
        OBVIOUS
      <3>2. Len(h) = 2 /\ h[2] = NoLabel
        <4>1. Tail(h)[1] = h[2] /\ Len(<<NoLabel>>) = 1 /\ <<NoLabel>>[1] = NoLabel
          BY <1>1
        <4>2. Len(Tail(h)) = 1 /\ Tail(h)[1] = NoLabel
          BY <3>1, <4>1, Zenon
        <4>3. Len(h) \in Nat
          OBVIOUS
        <4>4. QED
          BY <2>2, <4>1, <4>2, <4>3
      <3>3. h = <<"*", NoLabel>>
        BY <1>1, <3>2
      <3>4. QED
        BY <3>3 DEF BareStar
    <2> HIDE DEF below
    <2>6. MatchesHost(HostPattern(h), h) = (/\ Tail(h) # <<NoLabel>>
                                            /\ below > 0
                                            /\ SubSeq(h, 1, below) # <<NoLabel>>
                                            /\ SubSeq(h, below + 1, Len(h)) = Tail(h))
      BY <2>1 DEF MatchesHost, below
    <2>7. QED
      BY <2>2, <2>3, <2>4, <2>5, <2>6
  <1>2. CASE ~(Len(h) > 1 /\ h[1] = "*")
    BY <1>2 DEF HostPattern, MatchesHost
  <1>3. QED
    BY <1>1, <1>2

(* What it fits is the host itself, or below it when it begins with "*.".  *)
LEMMA PatternFitsLike ==
  ASSUME NEW shown \in Seq(STRING), NEW host \in Seq(STRING), MatchesHost(HostPattern(shown), host)
  PROVE  HostLike(host, shown)
  <1>1. CASE Len(shown) > 1 /\ shown[1] = "*"
    <2>1. HostPattern(shown).wild = TRUE /\ HostPattern(shown).labels = Tail(shown)
      BY <1>1 DEF HostPattern
    <2> DEFINE below == Len(host) - Len(Tail(shown))
    <2>2. below > 0 /\ SubSeq(host, below + 1, Len(host)) = Tail(shown)
      BY <2>1 DEF MatchesHost
    <2>3. Len(Tail(shown)) = Len(shown) - 1 /\ Len(shown) \in Nat /\ Len(host) \in Nat
      BY <1>1
    <2>4. below + 1 \in 2 .. Len(host)
      BY <1>1, <2>2, <2>3
    <2>5. <<"*">> \o Tail(shown) = shown
      <3>1. <<"*">> \o Tail(shown) \in Seq(STRING) /\ Len(<<"*">> \o Tail(shown)) = Len(shown)
        BY <1>1, <2>3
      <3>2. ASSUME NEW i \in 1 .. Len(shown) PROVE (<<"*">> \o Tail(shown))[i] = shown[i]
        BY <1>1, <2>3
      <3>3. QED
        BY <3>1, <3>2, SeqEqual
    <2> HIDE DEF below
    <2>6. QED
      BY <2>2, <2>4, <2>5 DEF HostLike
  <1>2. CASE ~(Len(shown) > 1 /\ shown[1] = "*")
    BY <1>2 DEF HostPattern, MatchesHost, HostLike
  <1>3. QED
    BY <1>1, <1>2

(* What a suggestion says, and what a duration makes of it. *)
LEMMA RuleForFires ==
  ASSUME NEW parsed, NEW glob, NEW sid, NEW rule,
         rule.when = RuleFor(parsed.http, glob).when, rule.command = {},
         rule.sid # {} => sid = rule.sid,
         parsed.http.url.host \in Seq(STRING), parsed.http.url.host # BareStar,
         MatchesPath(glob, NormalisePath(parsed.http.url.path))
  PROVE  Fires(parsed, rule, sid)
  <1> DEFINE req == parsed.http
             target == [scheme |-> {req.url.scheme},
                        host |-> {{HostPattern(req.url.host)}},
                        port |-> {}, path |-> {glob}]
             clause == [method |-> {{req.method}}, url |-> {target},
                        headers_allow |-> ObservedHeaderNames(req.headers),
                        no_body |-> {}, query |-> {},
                        no_redirects |-> IF req.follow_redirects THEN {FALSE} ELSE {}]
  <1>1. rule.when = [http |-> {clause}, file_write |-> {}, file_read |-> {}]
    BY DEF RuleFor
  <1>2. MatchesUrl(req.url, target)
    <2> DEFINE host == HostPattern(req.url.host)
    <2>1. target.scheme = {req.url.scheme} /\ target.host = {{host}} /\ target.port = {} /\ target.path = {glob}
      OBVIOUS
    <2>2. MatchesHost(host, req.url.host)
      BY OwnPatternFits
    <2> HIDE DEF target, host
    <2>3. QED
      BY <2>1, <2>2 DEF MatchesUrl
  <1>3. MatchesHeaders(req.headers, clause.headers_allow)
    BY DEF MatchesHeaders, ObservedHeaderNames
  <1> HIDE DEF target
  <1>4. MatchesHttp(req, clause)
    BY <1>2, <1>3 DEF MatchesHttp
  <1> HIDE DEF clause
  <1>5. QED
    BY <1>1, <1>4 DEF Fires, NoClause

LEMMA TimedKeeps ==
  ASSUME NEW req, NEW glob, NEW end, NEW sid
  PROVE  LET base == RuleFor(req, glob)
             timed == [base EXCEPT !.expires_at = end]
             tied == [timed EXCEPT !.sid = sid]
         IN  /\ base.command = {} /\ base.sid = {}
             /\ timed.when = base.when /\ timed.command = {} /\ timed.sid = {}
             /\ tied.when = base.when /\ tied.command = {} /\ tied.sid = sid
  <1>1. PICK when : RuleFor(req, glob) = [command |-> {}, sid |-> {}, expires_at |-> {}, when |-> when]
    BY DEF RuleFor
  <1>2. QED
    BY <1>1

LEMMA DurationKeeps ==
  ASSUME NEW req, NEW glob, NEW choice \in Durations, NEW sid
  PROVE  LET rule == WithDuration(RuleFor(req, glob), choice, sid)
         IN  /\ rule.when = RuleFor(req, glob).when /\ rule.command = {}
             /\ rule.sid # {} => rule.sid = sid
  <1> DEFINE base == RuleFor(req, glob)
             rule == WithDuration(base, choice, sid)
             timed(end) == [base EXCEPT !.expires_at = end]
             tied(end) == [timed(end) EXCEPT !.sid = sid]
  <1>1. \E end : rule = base \/ rule = timed(end) \/ rule = tied(end)
    BY Zenon DEF WithDuration, Durations
  <1>2. PICK end : rule = base \/ rule = timed(end) \/ rule = tied(end)
    BY <1>1, Zenon
  <1>3. /\ base.command = {} /\ base.sid = {}
        /\ timed(end).when = base.when /\ timed(end).command = {} /\ timed(end).sid = {}
        /\ tied(end).when = base.when /\ tied(end).command = {} /\ tied(end).sid = sid
    BY TimedKeeps
  <1> HIDE DEF base, rule, timed, tied
  <1>4. rule.when = base.when /\ rule.command = {} /\ (rule.sid # {} => rule.sid = sid)
    BY <1>2, <1>3, Zenon
  <1>5. QED
    BY <1>4 DEF base, rule

(* Every pattern of a card fits the path it is made of, but for the slash. *)
LEMMA LosesSlashIs ==
  ASSUME NEW k, NEW r, NEW t, t = NormalisePath(r.parsed.http.url.path),
         t # <<>>, t[Len(t)] = Slash,
         NEW glob \in PathGlobs(t), Book[k].when = RuleFor(r.parsed.http, glob).when
  PROVE  LosesSlash(k, r)
  BY Zenon DEF LosesSlash, Slash

LEMMA OfferIs ==
  ASSUME NEW r \in Requests, NEW k \in OfferedOn[r]
  PROVE  \E o \in AllowlistSuggestions(r.parsed) : \E choice \in Durations :
           Book[k] = WithDuration(o.rule, choice, r.sid)
  <1> DEFINE choices == IF r.sid = {} THEN Durations \ {"this session"} ELSE Durations
  <1>1. choices \subseteq Durations
    BY ZenonT(30)
  <1> HIDE DEF choices
  <1>2. Offers(r) = {WithDuration(o.rule, choice, r.sid) :
                       o \in AllowlistSuggestions(r.parsed), choice \in choices}
    BY DEF Offers, choices
  <1>3. Book[k] \in Offers(r)
    BY DEF OfferedOn
  <1>4. QED
    BY <1>1, <1>2, <1>3

LEMMA OfferFits ==
  ASSUME NEW r \in Requests, NEW k \in MustFire[r]
  PROVE  \E glob : \E choice \in Durations :
           /\ Book[k] = WithDuration(RuleFor(r.parsed.http, glob), choice, r.sid)
           /\ MatchesPath(glob, NormalisePath(r.parsed.http.url.path))
  <1>1. PICK t : t = NormalisePath(r.parsed.http.url.path)
    OBVIOUS
  <1>2. /\ t \in Seq(STRING) /\ Len(t) \in Nat
        /\ \A i \in 1 .. Len(t) : t[i] = Slash => i = Len(t)
    <2>1. r.parsed.http.url.path \in Seq(STRING)
      BY OfferedAssumption
    <2>2. QED
      BY <1>1, <2>1, NormalForm
  <1>3. ~LosesSlash(k, r)
    BY DEF MustFire
  <1>4. PICK o \in AllowlistSuggestions(r.parsed), choice \in Durations :
          Book[k] = WithDuration(o.rule, choice, r.sid)
    BY OfferIs DEF MustFire
  <1>5. PICK glob \in {t, <<"**">>} \cup PathGlobs(t) : o.rule = RuleFor(r.parsed.http, glob)
    BY <1>1, <1>4 DEF AllowlistSuggestions
  <1>6. Book[k].when = RuleFor(r.parsed.http, glob).when
    BY <1>4, <1>5, DurationKeeps
  <1>7. MatchesPath(glob, t)
    <2>1. CASE glob = t
      BY <1>2, <2>1, FitsPointwise DEF Measurable, MatchesOne
    <2>2. CASE glob = <<"**">>
      BY <1>2, <2>2, FitsAll
    <2>3. CASE glob \in PathGlobs(t)
      <3>1. ~(t # <<>> /\ t[Len(t)] = Slash)
        BY <1>1, <1>3, <1>6, <2>3, LosesSlashIs
      <3>2. \A i \in 1 .. Len(t) : t[i] # Slash
        BY <1>2, <3>1
      <3>3. QED
        BY <1>2, <2>3, <3>2, PathGlobFits
    <2>4. QED
      BY <1>5, <2>1, <2>2, <2>3
  <1>8. Book[k] = WithDuration(RuleFor(r.parsed.http, glob), choice, r.sid)
    BY <1>4, <1>5
  <1>9. QED
    BY <1>1, <1>7, <1>8

LEMMA OfferFires ==
  ASSUME NEW r \in Requests, NEW k \in MustFire[r]
  PROVE  /\ k \in Rules /\ r \in Covers[k]
         /\ Book[k].sid = {} => k \in ForNobody[r]
  <1>1. k \in Rules
    BY DEF MustFire, OfferedOn
  <1>2. PICK glob : \E choice \in Durations :
          /\ Book[k] = WithDuration(RuleFor(r.parsed.http, glob), choice, r.sid)
          /\ MatchesPath(glob, NormalisePath(r.parsed.http.url.path))
    BY OfferFits
  <1>3. /\ Book[k].when = RuleFor(r.parsed.http, glob).when /\ Book[k].command = {}
        /\ Book[k].sid # {} => Book[k].sid = r.sid
    BY <1>2, DurationKeeps
  <1>4. Fires(r.parsed, Book[k], r.sid) /\ (Book[k].sid = {} => Fires(r.parsed, Book[k], {}))
    <2>1. r.parsed.http.url.host \in Seq(STRING) /\ r.parsed.http.url.host # BareStar
      BY OfferedAssumption DEF MustFire
    <2>2. QED
      BY <1>2, <1>3, <2>1, RuleForFires
  <1>5. ASSUME Book[k].sid = {} PROVE ExplainAllows(<<Book[k]>>, r.parsed)
    <2>1. 1 \in DOMAIN <<Book[k]>> /\ <<Book[k]>>[1] = Book[k]
      OBVIOUS
    <2>2. QED
      BY <1>4, <1>5, <2>1 DEF ExplainAllows
  <1>6. QED
    BY <1>1, <1>4, <1>5, OfferedAssumption DEF ForNobody

(* A rule of the store that covers the request and has not ended decides.  *)
LEMMA CoveredIsAllowed ==
  ASSUME NEW list \in Seq(Rules), NEW r \in Requests \ Denied,
         NEW k \in Elems(Pruned(list)), r \in Covers[k]
  PROVE  Decide(list, r) = "allow"
  <1>1. k \in Elems(list) /\ k \in Rules /\ k \notin expired
    BY KeptElems DEF Pruned
  <1> DEFINE order == InTierOrder(list)
             hits == Kept(order, {j \in Elems(list) : Matches(j, r)})
  <1>2. order \in Seq(Rules) /\ k \in Elems(order)
    <2>1. PICK one, other : /\ one = Kept(list, Session) /\ other = Kept(list, Rules \ Session)
                            /\ order = one \o other
      BY DEF InTierOrder
    <2>2. /\ one \in Seq(Rules) /\ other \in Seq(Rules)
          /\ k \in Elems(one) \/ k \in Elems(other)
      BY <1>1, <2>1, KeptElems
    <2>3. order \in Seq(Rules) /\ Elems(one) \cup Elems(other) \subseteq Elems(order)
      <3>1. /\ Len(one) \in Nat /\ Len(other) \in Nat
            /\ Len(one \o other) = Len(one) + Len(other) /\ one \o other \in Seq(Rules)
            /\ \A i \in 1 .. Len(one) : (one \o other)[i] = one[i]
            /\ \A i \in 1 .. Len(other) : (one \o other)[Len(one) + i] = other[i]
        BY <2>2
      <3>2. /\ DOMAIN one = 1 .. Len(one) /\ DOMAIN other = 1 .. Len(other)
            /\ DOMAIN order = 1 .. Len(one) + Len(other)
        BY <2>1, <2>2, <3>1
      <3>3. ASSUME NEW i \in 1 .. Len(one) PROVE one[i] \in Elems(order)
        <4>1. i \in DOMAIN order /\ order[i] = one[i]
          BY <2>1, <3>1, <3>2
        <4>2. QED
          BY <4>1 DEF Elems
      <3>4. ASSUME NEW i \in 1 .. Len(other) PROVE other[i] \in Elems(order)
        <4>1. Len(one) + i \in DOMAIN order /\ order[Len(one) + i] = other[i]
          BY <2>1, <3>1, <3>2
        <4>2. QED
          BY <4>1 DEF Elems
      <3>5. Elems(one) = {one[i] : i \in 1 .. Len(one)} /\ Elems(other) = {other[i] : i \in 1 .. Len(other)}
        BY <3>2 DEF Elems
      <3>6. ASSUME NEW x \in Elems(one) \cup Elems(other) PROVE x \in Elems(order)
        BY <3>3, <3>4, <3>5
      <3>7. QED
        BY <2>1, <3>1, <3>6
    <2>4. QED
      BY <2>2, <2>3
  <1> HIDE DEF order
  <1>3. hits \in Seq(Rules) /\ k \in Elems(hits)
    BY <1>1, <1>2, KeptElems DEF Matches
  <1> HIDE DEF hits
  <1>4. hits # <<>> /\ Head(hits) \in Rules
    BY <1>3 DEF Elems
  <1>5. FirstMatch(list, r) = Head(hits)
    BY <1>4 DEF FirstMatch, hits, order
  <1>6. QED
    BY <1>4, <1>5, StoreAssumption DEF Decide

(* And what allows is a rule of the store that covers the request. *)
LEMMA AllowedIsCovered ==
  ASSUME NEW list \in Seq(Rules), NEW r \in Requests, Decide(list, r) = "allow"
  PROVE  \E k \in Elems(Pruned(list)) : k \in Rules /\ r \in Covers[k]
  <1> DEFINE order == InTierOrder(list)
             K == {j \in Elems(list) : Matches(j, r)}
             hits == Kept(order, K)
  <1>1. order \in Seq(Rules)
    <2>1. PICK one, other : /\ one = Kept(list, Session) /\ other = Kept(list, Rules \ Session)
                            /\ order = one \o other
      BY DEF InTierOrder
    <2>2. one \in Seq(Rules) /\ other \in Seq(Rules)
      BY <2>1, KeptElems
    <2>3. one \o other \in Seq(Rules)
      BY <2>2
    <2>4. QED
      BY <2>1, <2>3
  <1> HIDE DEF order, K
  <1>2. hits \in Seq(Rules) /\ Elems(hits) \subseteq K
    BY <1>1, KeptElems
  <1>3. hits # <<>>
    <2>1. FirstMatch(list, r) # NoRule
      BY DEF Decide
    <2>2. FirstMatch(list, r) = IF hits = <<>> THEN NoRule ELSE Head(hits)
      BY DEF FirstMatch, hits, order, K
    <2>3. QED
      BY <2>1, <2>2
  <1> HIDE DEF hits
  <1>4. PICK k : k = hits[1] /\ k \in Rules /\ k \in Elems(hits)
    BY <1>2, <1>3 DEF Elems
  <1>5. k \in Elems(list) /\ k \notin expired /\ r \in Covers[k]
    BY <1>2, <1>4 DEF K, Matches
  <1>6. k \in Elems(Pruned(list))
    BY <1>4, <1>5, KeptElems DEF Pruned
  <1>7. QED
    BY <1>4, <1>5, <1>6

(* A rule that fires was picked on the card of a request alike. *)
LEMMA FiresLike ==
  ASSUME NEW r \in Requests, NEW picked \in Requests, NEW k \in OfferedOn[picked],
         Fires(r.parsed, Book[k], r.sid)
  PROVE  Like(r, picked, k)
  <1>1. PICK a, b : a = r.parsed.http /\ b = picked.parsed.http
    OBVIOUS
  <1>2. PICK glob : \E choice \in Durations : Book[k] = WithDuration(RuleFor(b, glob), choice, picked.sid)
    <2>1. PICK o \in AllowlistSuggestions(picked.parsed), choice \in Durations :
            Book[k] = WithDuration(o.rule, choice, picked.sid)
      BY OfferIs
    <2>2. \E glob : o.rule = RuleFor(b, glob)
      BY <1>1 DEF AllowlistSuggestions
    <2>3. QED
      BY <2>1, <2>2
  <1>3. /\ Book[k].when = RuleFor(b, glob).when
        /\ Book[k].sid # {} => Book[k].sid = picked.sid
    BY <1>2, DurationKeeps
  <1> DEFINE host == HostPattern(b.url.host)
             target == [scheme |-> {b.url.scheme}, host |-> {{host}}, port |-> {}, path |-> {glob}]
             allow == ObservedHeaderNames(b.headers)
             follow == IF b.follow_redirects THEN {FALSE} ELSE {}
             clause == [method |-> {{b.method}}, url |-> {target}, headers_allow |-> allow,
                        no_body |-> {}, query |-> {}, no_redirects |-> follow]
  <1>4. Book[k].when.http = {clause}
    <2>1. Book[k].when = [http |-> {clause}, file_write |-> {}, file_read |-> {}]
      BY <1>3 DEF RuleFor
    <2> HIDE DEF clause
    <2>2. QED
      BY <2>1
  <1>5. MatchesHttp(a, clause) /\ (Book[k].sid # {} => r.sid = Book[k].sid)
    BY <1>1, <1>4 DEF Fires
  <1>6. /\ clause.method = {{b.method}} /\ clause.url = {target} /\ clause.headers_allow = allow
        /\ clause.no_redirects = follow
        /\ target.scheme = {b.url.scheme} /\ target.host = {{host}}
    OBVIOUS
  <1> HIDE DEF host, target, allow, follow, clause
  <1>7. /\ a.method = b.method /\ MatchesUrl(a.url, target) /\ MatchesHeaders(a.headers, allow)
        /\ FALSE \in follow \/ ~a.follow_redirects
    BY <1>5, <1>6 DEF MatchesHttp
  <1>8. a.url.scheme = b.url.scheme /\ HostLike(a.url.host, b.url.host)
    <2>1. a.url.scheme = b.url.scheme /\ MatchesHost(host, a.url.host)
      BY <1>6, <1>7 DEF MatchesUrl
    <2>2. a.url.host \in Seq(STRING) /\ b.url.host \in Seq(STRING)
      BY <1>1, OfferedAssumption
    <2>3. QED
      BY <2>1, <2>2, PatternFitsLike DEF host
  <1>9. "*" \in b.headers \/ a.headers \subseteq b.headers
    BY <1>7 DEF MatchesHeaders, ObservedHeaderNames, allow
  <1>10. a.follow_redirects => b.follow_redirects
    BY <1>7 DEF follow
  <1>11. QED
    BY <1>1, <1>3, <1>5, <1>7, <1>8, <1>9, <1>10 DEF Like

(* Whatever rules are in the store and in whatever order, a rule picked on *)
(* a card covers the request of that card, but for a path that ends in "/" *)
(* and the host "*."                                                       *)
(* (vetter-core/src/suggest/mod.rs, allowlist_suggestions).                *)
THEOREM PickedRulesFire == StoreSpec => []PickedRuleFires
  <1>1. ASSUME StoreTypeOK PROVE PickedRuleFires
    <2>1. live \in Seq(Rules) /\ disk \in Seq(Rules)
      BY <1>1 DEF StoreTypeOK
    <2>2. ASSUME NEW r \in Requests \ Denied, Elems(Pruned(live)) \cap MustFire[r] # {}
          PROVE  Decide(live, r) = "allow"
      BY <2>1, <2>2, OfferFires, CoveredIsAllowed
    <2>3. ASSUME NEW r \in Requests, NEW k \in MustFireForAll[r] PROVE k \in ForNobody[r]
      BY <2>3, OfferFires DEF MustFireForAll
    <2>4. QED
      BY <2>2, <2>3 DEF PickedRuleFires
  <1>2. QED
    BY <1>1, StoreTypes, PTL

(* And they cover nothing else: a request is allowed without asking only   *)
(* by a rule picked on the card of one like it: with the host shown there, *)
(* or a host below it where that was written with a leading "*."           *)
(* (vetter-core/src/matcher/decide.rs, decide and matches_http).           *)
THEOREM OnlyAlikeAllowed == StoreSpec => []AllowsOnlyAlike
  <1>1. ASSUME StoreTypeOK PROVE AllowsOnlyAlike
    <2>1. SUFFICES ASSUME NEW r \in Requests, Decide(live, r) = "allow"
                   PROVE  \E k \in Elems(Pruned(live)) : r \in Alike[k]
      BY DEF AllowsOnlyAlike
    <2>2. PICK k \in Elems(Pruned(live)) : k \in Rules /\ r \in Covers[k]
      BY <1>1, <2>1, AllowedIsCovered DEF StoreTypeOK
    <2>3. Fires(r.parsed, Book[k], r.sid)
      BY <2>2, OfferedAssumption
    <2>4. PICK picked \in Requests : k \in OfferedOn[picked]
      BY <2>2, OfferedAssumption
    <2>5. Like(r, picked, k)
      BY <2>3, <2>4, FiresLike
    <2>6. QED
      BY <2>2, <2>4, <2>5 DEF Alike
  <1>2. QED
    BY <1>1, StoreTypes, PTL

-----------------------------------------------------------------------------
(* What is known of a command after some of its tokens is what they mean.  *)

(* The kinds of token: a flag without a value, one with, or neither.       *)
BoolIds == {"Insecure", "NoClobber", "CreateDirs", "RemoteName", "RemoteHeaderName", "Location",
            "Netrc", "Get", "Head", "Silent", "Verbose", "Fail", "ShowError", "ProgressBar", "Next"}

MultiIds == {"Header", "Data", "DataRaw", "DataBinary", "DataAscii", "DataUrlencode", "Resolve",
             "Cookie", "Form", "FormString"}

LastIds == {"Request", "User", "Output", "OutputDir", "UploadFile", "Proxy", "UserAgent", "CaCert",
            "UnixSocket", "Config", "Cert", "Key", "CertType", "KeyType", "Pass", "Pubkey",
            "Engine", "CookieJar", "DumpHeader", "Trace", "TraceAscii", "EtagSave",
            "EtagCompare", "WriteOut"}

ValueIds == MultiIds \cup LastIds \cup {"positional"}

Tokens ==
  {tok \in [id : BoolIds \cup ValueIds \cup {"unknown"}, value : SUBSET Texts] :
     /\ AtMostOne(tok.value)
     /\ tok.id \in BoolIds => tok.value = {}
     /\ tok.id \in ValueIds => tok.value # {}}

LEMMA IdsAre ==
  /\ Ids(BoolSpecs) = BoolIds
  /\ SingleIds = LastIds
  /\ \A spec \in BoolSpecs : spec.id \in BoolIds
  /\ \A spec \in ValueSpecs : spec.id \in ValueIds
  <1>1. Ids(BoolSpecs) = BoolIds
    BY DEF Ids, BoolSpecs, BoolIds, Flag
  <1>2. Ids(MultiSpecs) = MultiIds
    BY DEF Ids, MultiSpecs, MultiIds, Flag
  <1>3. SingleIds = LastIds
    <2>1. Ids(RequestSpecs) = {"Request", "User", "Output", "OutputDir", "UploadFile", "Proxy",
                               "UserAgent", "CaCert", "UnixSocket", "Config"}
      BY DEF Ids, RequestSpecs, Flag
    <2>2. Ids(FileSpecs) = {"Cert", "Key", "CertType", "KeyType", "Pass", "Pubkey", "Engine",
                            "CookieJar", "DumpHeader", "Trace", "TraceAscii", "EtagSave",
                            "EtagCompare", "WriteOut"}
      BY DEF Ids, FileSpecs, Flag
    <2>3. SingleIds = Ids(RequestSpecs) \cup Ids(FileSpecs)
      BY DEF SingleIds, Ids
    <2>4. QED
      BY <2>1, <2>2, <2>3 DEF LastIds
  <1>4. \A spec \in ValueSpecs : spec.id \in ValueIds
    <2>1. SUFFICES ASSUME NEW spec \in ValueSpecs PROVE spec.id \in MultiIds \cup LastIds
      BY DEF ValueIds
    <2>2. CASE spec \in MultiSpecs
      BY <1>2, <2>2 DEF Ids
    <2>3. CASE spec \in RequestSpecs \cup FileSpecs
      BY <1>3, <2>3 DEF SingleIds, Ids
    <2>4. QED
      BY <2>1, <2>2, <2>3 DEF ValueSpecs
  <1>5. QED
    BY <1>1, <1>3, <1>4 DEF Ids

(* What one more item changes in what a list of items says.                *)
LEMMA OneMore ==
  ASSUME NEW items \in Seq(Tokens), NEW item \in Tokens, NEW id, NEW more,
         more = Append(items, item)
  PROVE  /\ Has(more, id) <=> Has(items, id) \/ item.id = id
         /\ Values(more, id) = Values(items, id) \cup (IF item.id = id THEN item.value ELSE {})
         /\ LastOf(more, id) = IF item.id = id THEN item.value ELSE LastOf(items, id)
  <1>1. PICK n \in Nat : /\ n = Len(items) /\ DOMAIN items = 1 .. n /\ DOMAIN more = 1 .. n + 1
                         /\ \A i \in 1 .. n : more[i] = items[i]
                         /\ more[n + 1] = item
    <2>1. Len(items) \in Nat /\ DOMAIN items = 1 .. Len(items)
      OBVIOUS
    <2>2. DOMAIN more = 1 .. Len(items) + 1
      OBVIOUS
    <2>3. \A i \in 1 .. Len(items) : more[i] = items[i]
      OBVIOUS
    <2>4. more[Len(items) + 1] = item
      OBVIOUS
    <2>5. QED
      BY <2>1, <2>2, <2>3, <2>4, Zenon
  <1>2. \A i \in 1 .. n + 1 : i \in 1 .. n \/ i = n + 1
    OBVIOUS
  <1>3. n + 1 \in 1 .. n + 1 /\ \A i \in 1 .. n : i \in 1 .. n + 1 /\ n + 1 > i
    OBVIOUS
  <1>4. Has(more, id) <=> Has(items, id) \/ item.id = id
    BY <1>1, <1>2, <1>3 DEF Has
  <1>5. Values(more, id) = Values(items, id) \cup (IF item.id = id THEN item.value ELSE {})
    BY <1>1, <1>2, <1>3 DEF Values, Positions
  <1>6. CASE item.id = id
    <2>1. {j \in DOMAIN more : more[j].id = id /\ \A k \in DOMAIN more : k > j => more[k].id # id} = {n + 1}
      BY <1>1, <1>2, <1>3, <1>6
    <2>2. LastOf(more, id) = item.value
      BY <1>1, <2>1 DEF LastOf
    <2>3. QED
      BY <1>4, <1>5, <1>6, <2>2
  <1>7. CASE item.id # id
    <2> DEFINE Lasts(list) == {j \in DOMAIN list : list[j].id = id /\ \A k \in DOMAIN list : k > j => list[k].id # id}
    <2>1. Lasts(more) = Lasts(items)
      <3>1. \A j \in Lasts(more) : j \in Lasts(items)
        BY <1>1, <1>2, <1>3, <1>7
      <3>2. \A j \in Lasts(items) : j \in Lasts(more)
        BY <1>1, <1>2, <1>3, <1>7
      <3>3. QED
        BY <3>1, <3>2
    <2>2. Lasts(items) \subseteq 1 .. n
      BY <1>1
    <2>3. LastOf(more, id) = UNION {more[i].value : i \in Lasts(more)}
      BY DEF LastOf
    <2>4. LastOf(items, id) = UNION {items[i].value : i \in Lasts(items)}
      BY DEF LastOf
    <2> HIDE DEF Lasts
    <2>5. LastOf(more, id) = LastOf(items, id)
      BY <1>1, <2>1, <2>2, <2>3, <2>4
    <2>6. QED
      BY <1>4, <1>5, <1>7, <2>5
  <1>8. QED
    BY <1>6, <1>7

LEMMA OneMorePosition ==
  ASSUME NEW items \in Seq(Tokens), NEW item \in Tokens, NEW ids
  PROVE  /\ item.id \in ids =>
              Positions(Append(items, item), ids) = Positions(items, ids) \cup {Len(items) + 1}
         /\ item.id \notin ids => Positions(Append(items, item), ids) = Positions(items, ids)
  <1>0. PICK more : more = Append(items, item)
    OBVIOUS
  <1>1. PICK n \in Nat : /\ n = Len(items) /\ DOMAIN items = 1 .. n /\ DOMAIN more = 1 .. n + 1
                         /\ \A i \in 1 .. n : more[i] = items[i]
                         /\ more[n + 1] = item
    BY <1>0
  <1>2. \A i \in 1 .. n + 1 : i \in 1 .. n \/ i = n + 1
    OBVIOUS
  <1>3. n + 1 \in 1 .. n + 1 /\ \A i \in 1 .. n : i \in 1 .. n + 1
    OBVIOUS
  <1>4. /\ item.id \in ids => Positions(more, ids) = Positions(items, ids) \cup {n + 1}
        /\ item.id \notin ids => Positions(more, ids) = Positions(items, ids)
    BY <1>1, <1>2, <1>3 DEF Positions
  <1>5. QED
    BY <1>0, <1>1, <1>4

(* The empty list says nothing.                                            *)
LEMMA NothingSaid ==
  ASSUME NEW id, NEW ids
  PROVE  /\ ~Has(<<>>, id) /\ Values(<<>>, id) = {} /\ LastOf(<<>>, id) = {}
         /\ Positions(<<>>, ids) = {}
  <1>1. DOMAIN <<>> = {}
    OBVIOUS
  <1>2. QED
    BY <1>1 DEF Has, Values, LastOf, Positions

(* The tokens up to one, and one more.                                     *)
LEMMA UpTo ==
  ASSUME NEW T, NEW list \in Seq(T), NEW k \in 1 .. Len(list)
  PROVE  SubSeq(list, 1, k) = Append(SubSeq(list, 1, k - 1), list[k])
  <1>1. QED
    BY SubSeqRecursiveSecond, SubSeqProperties

-----------------------------------------------------------------------------
(* tokenise *)

LEMMA OneToken ==
  ASSUME NEW id, NEW value \in SUBSET Texts, AtMostOne(value),
         id \in BoolIds \/ id \in ValueIds \/ id = "unknown",
         id \in BoolIds => value = {}, id \in ValueIds => value # {}
  PROVE  Tok(id, value) \in Tokens
  BY DEF Tok, Tokens

(* No flag both takes a value and does not.                                *)
LEMMA KindsApart ==
  /\ BoolIds \cap ValueIds = {}
  /\ "unknown" \notin BoolIds \cup ValueIds
  /\ "positional" \in ValueIds
  BY DEF BoolIds, ValueIds, MultiIds, LastIds

(* Reading on: the tokens grow by some, or the line is refused.            *)
ReadsOn ==
  /\ UNCHANGED <<words, got>>
  /\ \/ /\ tokens' \in Seq(Tokens) /\ at' \in Nat \ {0}
        /\ UNCHANGED <<stage, outcome>>
     \/ UNCHANGED <<tokens, at>> /\ stage' = "done" /\ outcome'.parsed = {}

LEMMA EmitReads ==
  ASSUME tokens \in Seq(Tokens), at \in Nat \ {0}, NEW new \in Seq(Tokens), NEW taken \in Nat,
         Emit(new, taken)
  PROVE  ReadsOn
  <1>1. tokens \o new \in Seq(Tokens) /\ at + taken \in Nat \ {0}
    OBVIOUS
  <1>2. QED
    BY <1>1 DEF Emit, ReadsOn

LEMMA RefuseReads ==
  ASSUME NEW error, Refuse(error)
  PROVE  ReadsOn
  BY DEF Refuse, ReadsOn

LEMMA TakeReads ==
  ASSUME words \in Seq(Words), tokens \in Seq(Tokens), at \in Nat \ {0},
         NEW spec \in ValueSpecs, NEW given \in SUBSET Texts, AtMostOne(given),
         TakeValue(spec, given)
  PROVE  ReadsOn
  <1>1. spec.id \in ValueIds /\ spec.id \notin BoolIds
    BY IdsAre, KindsApart
  <1>2. ASSUME given # {}, Emit(<<Tok(spec.id, given)>>, 1) PROVE ReadsOn
    <2>1. Tok(spec.id, given) \in Tokens
      BY <1>1, <1>2, OneToken
    <2>2. <<Tok(spec.id, given)>> \in Seq(Tokens)
      BY <2>1
    <2>3. QED
      BY <1>2, <2>2, EmitReads
  <1>3. ASSUME at < Len(words), Emit(<<Tok(spec.id, {words[at + 1].raw})>>, 2) PROVE ReadsOn
    <2>1. words[at + 1] \in Words
      BY <1>3
    <2>2. words[at + 1].raw \in Texts
      BY <2>1 DEF Words
    <2>3. PICK value : value = {words[at + 1].raw}
      OBVIOUS
    <2>4. Tok(spec.id, value) \in Tokens
      <3>1. value \in SUBSET Texts /\ AtMostOne(value) /\ value # {}
        BY <2>2, <2>3 DEF AtMostOne
      <3>2. QED
        BY <1>1, <3>1, OneToken
    <2>5. <<Tok(spec.id, value)>> \in Seq(Tokens) /\ Emit(<<Tok(spec.id, value)>>, 2)
      BY <1>3, <2>3, <2>4
    <2>6. QED
      BY <2>5, EmitReads
  <1>4. QED
    BY <1>2, <1>3, RefuseReads DEF TakeValue

LEMMA WordsReadOn ==
  ASSUME words \in Seq(Words), tokens \in Seq(Tokens), at \in Nat \ {0}, TokeniseWord
  PROVE  ReadsOn
  <1>1. PICK word \in Words : word = words[at]
    BY DEF TokeniseWord
  <1>2. /\ word.value \in SUBSET Texts /\ AtMostOne(word.value) /\ word.raw \in Texts
        /\ word.letters \in Seq(STRING)
    BY DEF Words
  <1>3. AtMostOne({}) /\ AtMostOne({word.raw})
    BY DEF AtMostOne
  <1>4. CASE afterDashes' = TRUE /\ at' = at + 1 /\ UNCHANGED <<words, tokens, got, stage, outcome>>
    BY <1>4 DEF ReadsOn
  <1>5. CASE Emit(<<Tok("positional", {word.raw})>>, 1)
    <2>1. Tok("positional", {word.raw}) \in Tokens
      BY <1>2, <1>3, OneToken, KindsApart
    <2>2. <<Tok("positional", {word.raw})>> \in Seq(Tokens)
      BY <2>1
    <2>3. QED
      BY <1>5, <2>2, EmitReads
  <1>6. ASSUME NEW letters \in Seq(STRING), NEW new, new = [i \in DOMAIN letters |-> new[i]],
               \A i \in DOMAIN letters : new[i] \in Tokens
        PROVE  new \in Seq(Tokens)
    BY <1>6
  <1>7. CASE ReadLong(word)
    <2>1. CASE Emit(<<Tok("unknown", word.value)>>, 1)
      <3>1. Tok("unknown", word.value) \in Tokens
        BY <1>2, OneToken, KindsApart
      <3>2. <<Tok("unknown", word.value)>> \in Seq(Tokens)
        BY <3>1
      <3>3. QED
        BY <2>1, <3>2, EmitReads
    <2>2. ASSUME NEW spec \in FlagSpecs, TakesValue(spec), TakeValue(spec, word.value) PROVE ReadsOn
      BY <1>2, <2>2, TakeReads DEF TakesValue
    <2>3. ASSUME NEW spec \in FlagSpecs, ~TakesValue(spec), Emit(<<Tok(spec.id, {})>>, 1) PROVE ReadsOn
      <3>1. spec.id \in BoolIds
        BY <2>3, IdsAre DEF FlagSpecs, TakesValue
      <3>2. Tok(spec.id, {}) \in Tokens
        BY <1>3, <3>1, OneToken, KindsApart
      <3>3. <<Tok(spec.id, {})>> \in Seq(Tokens)
        BY <3>2
      <3>4. QED
        BY <2>3, <3>3, EmitReads
    <2>4. QED
      BY <1>7, <2>1, <2>2, <2>3, RefuseReads DEF ReadLong, LookupLong
  <1>8. CASE ReadShort(word)
    <2>1. CASE Emit([i \in DOMAIN word.letters |-> Tok("unknown", {})], 1)
      <3>1. Tok("unknown", {}) \in Tokens
        BY <1>3, OneToken, KindsApart
      <3>2. PICK new : new = [i \in DOMAIN word.letters |-> Tok("unknown", {})]
        OBVIOUS
      <3>3. new \in Seq(Tokens)
        BY <1>2, <1>6, <3>1, <3>2
      <3>4. QED
        BY <2>1, <3>2, <3>3, EmitReads
    <2>2. ASSUME NEW spec \in FlagSpecs, TakesValue(spec), TakeValue(spec, word.value) PROVE ReadsOn
      BY <1>2, <2>2, TakeReads DEF TakesValue
    <2>3. ASSUME ~\E i \in DOMAIN word.letters : \E s1 \in LookupShort(word.letters[i]) : TakesValue(s1),
                 Emit([i \in DOMAIN word.letters |-> LetterToken(word.letters[i])], 1)
          PROVE  ReadsOn
      <3>1. ASSUME NEW i \in DOMAIN word.letters PROVE LetterToken(word.letters[i]) \in Tokens
        <4>1. PICK c : c = word.letters[i]
          OBVIOUS
        <4>2. CASE LookupShort(c) = {}
          <5>1. LetterToken(c) = Tok("unknown", {})
            BY <4>2 DEF LetterToken
          <5>2. Tok("unknown", {}) \in Tokens
            BY <1>3, OneToken, KindsApart
          <5>3. QED
            BY <4>1, <5>1, <5>2
        <4>3. CASE LookupShort(c) # {}
          <5>1. PICK spec \in LookupShort(c) : spec = CHOOSE x \in LookupShort(c) : TRUE
            BY <4>3
          <5>2. spec \in BoolSpecs
            BY <2>3, <4>1, <5>1 DEF LookupShort, FlagSpecs, TakesValue
          <5>3. spec.id \in BoolIds
            BY <5>2, IdsAre
          <5>4. LetterToken(c) = Tok(spec.id, {})
            BY <4>3, <5>1 DEF LetterToken
          <5>5. QED
            BY <1>3, <4>1, <5>3, <5>4, OneToken, KindsApart
        <4>4. QED
          BY <4>1, <4>2, <4>3
      <3>2. PICK new : new = [i \in DOMAIN word.letters |-> LetterToken(word.letters[i])]
        OBVIOUS
      <3>3. new \in Seq(Tokens)
        BY <1>2, <1>6, <3>1, <3>2
      <3>4. QED
        BY <2>3, <3>2, <3>3, EmitReads
    <2>4. QED
      BY <1>8, <2>1, <2>2, <2>3, RefuseReads DEF ReadShort, LookupShort
  <1>9. QED
    BY <1>1, <1>4, <1>5, <1>7, <1>8 DEF TokeniseWord

-----------------------------------------------------------------------------
(* absorb *)

Chunks == {Chunk(id, v) : id \in DataIds, v \in Texts}

OptionTexts == Texts \cup {CertOf[v].file : v \in Texts}

Gathered ==
  [opt : [LastIds -> SUBSET OptionTexts],
   seen : SUBSET BoolIds, method : SUBSET {MethodOf[v] : v \in Texts}, password : BOOLEAN,
   data : Seq(Chunks), headers : Seq({HeaderOf[v] : v \in Texts}), cookies : Seq(Texts),
   resolve : Seq(Texts), url : SUBSET Urls, extra : Seq(Texts), unknown : Seq(SUBSET Texts)]

(* What a value adds to what is known, field by field.                     *)
Adds(g, h, id, v) ==
  /\ h.seen = g.seen /\ h.unknown = g.unknown
  /\ h.method  = IF id = "Request" THEN {MethodOf[v]} ELSE g.method
  /\ h.headers = IF id = "Header" THEN Append(g.headers, HeaderOf[v]) ELSE g.headers
  /\ h.data    = IF id \in DataIds THEN Append(g.data, Chunk(id, v)) ELSE g.data
  /\ h.resolve = IF id = "Resolve" THEN Append(g.resolve, v) ELSE g.resolve
  /\ h.cookies = IF id = "Cookie" THEN Append(g.cookies, v) ELSE g.cookies
  /\ h.url     = IF id = "positional" /\ g.url = {} THEN {UrlOf[v]} ELSE g.url
  /\ h.extra   = IF id = "positional" /\ g.url # {} THEN Append(g.extra, v) ELSE g.extra

AddsOption(g, h, id, v) ==
  \A x \in LastIds :
    h.opt[x] = IF x # id \/ x \in {"Request", "Pass"} THEN g.opt[x]
               ELSE IF x = "Cert" THEN {CertOf[v].file}
               ELSE IF x = "WriteOut" THEN (IF v.at THEN {Rest(v)} ELSE {})
               ELSE {v} \ Streams(x)

LEMMA RestIsText ==
  ASSUME NEW v \in Texts
  PROVE  Rest(v) \in Texts
  BY DEF Rest, Texts

SameBut(g, h) ==
  /\ h.seen = g.seen /\ h.unknown = g.unknown /\ h.method = g.method /\ h.headers = g.headers
  /\ h.data = g.data /\ h.resolve = g.resolve /\ h.cookies = g.cookies
  /\ h.url = g.url /\ h.extra = g.extra

WithOption(g, x, value) == [g EXCEPT !.opt[x] = value]

LEMMA OptionAdds ==
  ASSUME NEW g \in Gathered, NEW x \in LastIds, NEW value \in SUBSET OptionTexts,
         NEW h, h = WithOption(g, x, value)
  PROVE  /\ h \in Gathered
         /\ h.opt[x] = value
         /\ \A y \in LastIds : y # x => h.opt[y] = g.opt[y]
         /\ SameBut(g, h)
  BY DEF Gathered, SameBut, WithOption

LEMMA ValueAdds ==
  ASSUME got \in Gathered, NEW id \in ValueIds, NEW v \in Texts, NEW h, h = Absorbed(id, v),
         id \notin {"Form", "FormString"},
         id = "positional" /\ got.url = {} => UrlOf[v] \in Urls
  PROVE  h \in Gathered /\ Adds(got, h, id, v) /\ AddsOption(got, h, id, v)
  <1>0. /\ "Request" \in LastIds /\ "Pass" \in LastIds /\ "Cert" \in LastIds /\ "WriteOut" \in LastIds
        /\ ({"Header", "Resolve", "Cookie", "positional"} \cup DataIds) \cap LastIds = {}
    BY DEF LastIds, DataIds
  <1>1. CASE id = "Request"
    <2>1. h = [got EXCEPT !.method = {MethodOf[v]}]
      BY <1>1 DEF Absorbed, DataIds
    <2>2. {MethodOf[v]} \in SUBSET {MethodOf[w] : w \in Texts}
      BY <1>1
    <2>3. h \in Gathered
      BY <2>1, <2>2 DEF Gathered
    <2>4. Adds(got, h, id, v) /\ h.opt = got.opt
      BY <1>1, <2>1 DEF Adds, Gathered, DataIds
    <2>5. QED
      BY <1>0, <1>1, <2>3, <2>4 DEF AddsOption, DataIds
  <1>2. CASE id = "Header"
    <2>1. h = [got EXCEPT !.headers = Append(got.headers, HeaderOf[v])]
      BY <1>2 DEF Absorbed, DataIds
    <2>2. Append(got.headers, HeaderOf[v]) \in Seq({HeaderOf[w] : w \in Texts})
      BY <1>2 DEF Gathered
    <2>3. h \in Gathered
      BY <2>1, <2>2 DEF Gathered
    <2>4. Adds(got, h, id, v) /\ h.opt = got.opt
      BY <1>2, <2>1 DEF Adds, Gathered, DataIds
    <2>5. QED
      BY <1>0, <1>2, <2>3, <2>4 DEF AddsOption, DataIds
  <1>3. CASE id \in DataIds
    <2>1. h = [got EXCEPT !.data = Append(got.data, Chunk(id, v))]
      BY <1>3 DEF Absorbed, DataIds
    <2>2. Append(got.data, Chunk(id, v)) \in Seq(Chunks)
      BY <1>3 DEF Gathered, Chunks
    <2>3. h \in Gathered
      BY <2>1, <2>2 DEF Gathered
    <2>4. Adds(got, h, id, v) /\ h.opt = got.opt
      BY <1>3, <2>1 DEF Adds, Gathered, DataIds
    <2>5. QED
      BY <1>0, <1>3, <2>3, <2>4 DEF AddsOption, DataIds
  <1>4. CASE id = "Resolve"
    <2>1. h = [got EXCEPT !.resolve = Append(got.resolve, v)]
      BY <1>4 DEF Absorbed, DataIds
    <2>2. Append(got.resolve, v) \in Seq(Texts)
      BY <1>4 DEF Gathered
    <2>3. h \in Gathered
      BY <2>1, <2>2 DEF Gathered
    <2>4. Adds(got, h, id, v) /\ h.opt = got.opt
      BY <1>4, <2>1 DEF Adds, Gathered, DataIds
    <2>5. QED
      BY <1>0, <1>4, <2>3, <2>4 DEF AddsOption, DataIds
  <1>5. CASE id = "Cookie"
    <2>1. h = [got EXCEPT !.cookies = Append(got.cookies, v)]
      BY <1>5 DEF Absorbed, DataIds
    <2>2. Append(got.cookies, v) \in Seq(Texts)
      BY <1>5 DEF Gathered
    <2>3. h \in Gathered
      BY <2>1, <2>2 DEF Gathered
    <2>4. Adds(got, h, id, v) /\ h.opt = got.opt
      BY <1>5, <2>1 DEF Adds, Gathered, DataIds
    <2>5. QED
      BY <1>0, <1>5, <2>3, <2>4 DEF AddsOption, DataIds
  <1>6. CASE id = "Pass"
    <2>1. h = [got EXCEPT !.password = TRUE]
      BY <1>6 DEF Absorbed, DataIds
    <2>2. TRUE \in BOOLEAN
      BY <1>6
    <2>3. h \in Gathered
      BY <2>1, <2>2 DEF Gathered
    <2>4. Adds(got, h, id, v) /\ h.opt = got.opt
      BY <1>6, <2>1 DEF Adds, Gathered, DataIds
    <2>5. QED
      BY <1>0, <1>6, <2>3, <2>4 DEF AddsOption, DataIds
  <1>7. CASE id = "Cert"
    <2>1. PICK password, file : /\ password = (got.password \/ CertOf[v].password)
                               /\ file = {CertOf[v].file}
                               /\ password \in BOOLEAN
      OBVIOUS
    <2>2. h = [got EXCEPT !.opt["Cert"] = file, !.password = password]
      BY <1>7, <2>1 DEF Absorbed, DataIds
    <2>3. PICK g : g = WithOption(got, "Cert", file)
      OBVIOUS
    <2>4. /\ g \in Gathered /\ g.opt["Cert"] = file
          /\ \A y \in LastIds : y # "Cert" => g.opt[y] = got.opt[y]
          /\ SameBut(got, g)
      <3>1. file \in SUBSET OptionTexts
        BY <2>1 DEF OptionTexts
      <3>2. QED
        BY <1>0, <2>3, <3>1, OptionAdds
    <2>5. h = [g EXCEPT !.password = password]
      BY <2>2, <2>3 DEF WithOption
    <2>6. h \in Gathered
      BY <2>1, <2>4, <2>5 DEF Gathered
    <2>7. Adds(g, h, id, v) /\ h.opt = g.opt
      BY <1>7, <2>4, <2>5 DEF Adds, Gathered, DataIds
    <2>8. Adds(got, h, id, v)
      BY <2>4, <2>7 DEF Adds, SameBut
    <2>9. QED
      BY <1>7, <2>1, <2>4, <2>6, <2>7, <2>8 DEF AddsOption
  <1>8. CASE id = "WriteOut"
    <2>1. PICK file : file = IF v.at THEN {Rest(v)} ELSE {}
      OBVIOUS
    <2>2. h = WithOption(got, "WriteOut", file)
      BY <1>8, <2>1 DEF Absorbed, DataIds, WithOption
    <2>3. file \in SUBSET OptionTexts
      BY <2>1, RestIsText DEF OptionTexts
    <2>4. /\ h \in Gathered /\ h.opt["WriteOut"] = file
          /\ \A y \in LastIds : y # "WriteOut" => h.opt[y] = got.opt[y]
          /\ SameBut(got, h)
      BY <1>0, <2>2, <2>3, OptionAdds
    <2>5. Adds(got, h, id, v)
      BY <1>8, <2>4 DEF Adds, SameBut, DataIds
    <2>6. QED
      BY <1>8, <2>1, <2>4, <2>5 DEF AddsOption
  <1>9. CASE id = "positional" /\ got.url = {}
    <2>1. h = [got EXCEPT !.url = {UrlOf[v]}]
      BY <1>9 DEF Absorbed, DataIds
    <2>2. {UrlOf[v]} \in SUBSET Urls
      BY <1>9
    <2>3. h \in Gathered
      BY <2>1, <2>2 DEF Gathered
    <2>4. Adds(got, h, id, v) /\ h.opt = got.opt
      BY <1>9, <2>1 DEF Adds, Gathered, DataIds
    <2>5. QED
      BY <1>0, <1>9, <2>3, <2>4 DEF AddsOption, DataIds
  <1>10. CASE id = "positional" /\ got.url # {}
    <2>1. h = [got EXCEPT !.extra = Append(got.extra, v)]
      BY <1>10 DEF Absorbed, DataIds
    <2>2. Append(got.extra, v) \in Seq(Texts)
      BY <1>10 DEF Gathered
    <2>3. h \in Gathered
      BY <2>1, <2>2 DEF Gathered
    <2>4. Adds(got, h, id, v) /\ h.opt = got.opt
      BY <1>10, <2>1 DEF Adds, Gathered, DataIds
    <2>5. QED
      BY <1>0, <1>10, <2>3, <2>4 DEF AddsOption, DataIds
  <1>11. CASE id \in LastIds \ {"Request", "Pass", "Cert", "WriteOut"}
    <2>1. id \notin {"Request", "Header", "Resolve", "Cookie", "Pass", "Cert", "WriteOut", "positional"} \cup DataIds
      BY <1>11 DEF LastIds, DataIds
    <2>2. h = WithOption(got, id, {v} \ Streams(id))
      BY <2>1 DEF Absorbed, WithOption
    <2>3. {v} \ Streams(id) \in SUBSET OptionTexts
      BY DEF OptionTexts
    <2>4. /\ h \in Gathered /\ h.opt[id] = {v} \ Streams(id)
          /\ \A y \in LastIds : y # id => h.opt[y] = got.opt[y]
          /\ SameBut(got, h)
      BY <1>11, <2>2, <2>3, OptionAdds
    <2>5. Adds(got, h, id, v)
      BY <2>1, <2>4 DEF Adds, SameBut
    <2>6. QED
      BY <1>11, <2>4, <2>5 DEF AddsOption
  <1>12. QED
    BY <1>1, <1>2, <1>3, <1>4, <1>5, <1>6, <1>7, <1>8, <1>9, <1>10, <1>11 DEF ValueIds, MultiIds, DataIds

(* What is known after a list of tokens is what the list says.             *)
PlainIds == LastIds \ {"Request", "Config", "Pass", "Cert", "WriteOut"}

MeansSeen(g, items) == \A id \in BoolIds : id \in g.seen <=> Has(items, id)

MeansMethod(g, items) ==
  g.method = {MethodOf[v] : v \in Values(items, "Request")} /\ AtMostOne(g.method)

ChunksSaid(items, id) == {Chunk(id, v) : v \in Values(items, id)}

MeansData(g, items) ==
  /\ Elems(g.data) = UNION {ChunksSaid(items, id) : id \in DataIds}
  /\ g.data = <<>> <=> Positions(items, DataIds) = {}
  /\ Len(g.data) <= 1 <=> AtMostOne(Positions(items, DataIds))

MeansHeaders(g, items) ==
  /\ Elems(g.headers) = {HeaderOf[v] : v \in Values(items, "Header")}
  /\ Values(items, "Header") \subseteq DOMAIN HeaderOf

MeansLists(g, items) ==
  /\ Elems(g.cookies) = Values(items, "Cookie")
  /\ g.resolve = <<>> <=> ~Has(items, "Resolve")
  /\ g.unknown = <<>> <=> ~Has(items, "unknown")

MeansUrl(g, items) ==
  /\ AtMostOne(g.url)
  /\ g.url = {} <=> Positions(items, {"positional"}) = {}
  /\ g.extra # <<>> => ~AtMostOne(Positions(items, {"positional"}))
  /\ g.extra = <<>> =>
       /\ AtMostOne(Positions(items, {"positional"}))
       /\ Values(items, "positional") \subseteq DOMAIN UrlOf
       /\ g.url = {UrlOf[v] : v \in Values(items, "positional")}

MeansOption(g, items) ==
  /\ \A x \in PlainIds : g.opt[x] = LastOf(items, x) \ Streams(x)
  /\ g.opt["Cert"] = {CertOf[v].file : v \in LastOf(items, "Cert")}
  /\ g.opt["WriteOut"] = {Rest(v) : v \in {w \in LastOf(items, "WriteOut") : w.at}}
  /\ \A x \in LastIds : LastOf(items, x) = {} <=> ~Has(items, x)

MeansRefused(items) ==
  /\ \A x \in {"nonsense", "Config", "Next", "Form", "FormString"} : ~Has(items, x)
  /\ Dash \notin Values(items, "UploadFile")
  /\ AtDash \notin Values(items, "Cookie") \cup Values(items, "WriteOut")
  /\ Values(items, "Proxy") \subseteq DOMAIN UrlOf

Means(g, items) ==
  /\ MeansSeen(g, items) /\ MeansMethod(g, items) /\ MeansData(g, items) /\ MeansHeaders(g, items)
  /\ MeansLists(g, items) /\ MeansUrl(g, items) /\ MeansOption(g, items) /\ MeansRefused(items)

(* What absorb lets pass.                                                  *)
Passes(g, id, v) ==
  /\ id = "Request" /\ g.method # {} => {MethodOf[v]} = g.method
  /\ id = "Header" => v \in DOMAIN HeaderOf
  /\ id \notin {"Config", "Form", "FormString"}
  /\ id = "UploadFile" => v # Dash
  /\ id \in {"Cookie", "WriteOut"} => v # AtDash
  /\ id = "Proxy" => v \in DOMAIN UrlOf
  /\ id = "positional" /\ g.url = {} => v \in DOMAIN UrlOf

LEMMA ErrorsAre ==
  NoError \notin {"ConflictingArgs", "Other", "StreamingUnsupported", "MissingArgument"}
  BY Zenon DEF NoError

LEMMA Passed ==
  ASSUME NEW tok, NEW v, tok.value = {v}, AbsorbError(tok) = NoError
  PROVE  Passes(got, tok.id, v)
  <1>1. PICK id : id = tok.id
    OBVIOUS
  <1>2. {MethodOf[w] : w \in tok.value} = {MethodOf[v]}
    OBVIOUS
  <1>3. CASE id = "Request"
    BY <1>1, <1>2, <1>3, ErrorsAre DEF AbsorbError, Passes
  <1>4. CASE id = "Header"
    BY <1>1, <1>4, ErrorsAre DEF AbsorbError, Passes
  <1>5. CASE id \in {"Config", "Next", "Form", "FormString"}
    BY <1>1, <1>5, ErrorsAre DEF AbsorbError, Passes
  <1>6. CASE id = "UploadFile"
    BY <1>1, <1>6, ErrorsAre DEF AbsorbError, Passes
  <1>7. CASE id \in {"Cookie", "WriteOut"}
    BY <1>1, <1>7, ErrorsAre DEF AbsorbError, Passes
  <1>8. CASE id = "Proxy"
    BY <1>1, <1>8, ErrorsAre DEF AbsorbError, Passes
  <1>9. CASE id = "positional"
    BY <1>1, <1>9, ErrorsAre DEF AbsorbError, Passes
  <1>10. CASE id \notin {"Request", "Header", "Config", "Next", "Form", "FormString", "UploadFile",
                         "Cookie", "WriteOut", "Proxy", "positional"}
    BY <1>1, <1>10 DEF Passes
  <1>11. QED
    BY <1>3, <1>4, <1>5, <1>6, <1>7, <1>8, <1>9, <1>10

LEMMA NothingMeans ==
  /\ NothingYet \in Gathered
  /\ Means(NothingYet, <<>>)
  <1>1. NothingYet \in Gathered
    <2>1. SingleIds = LastIds
      BY IdsAre
    <2>2. QED
      BY <2>1 DEF NothingYet, Gathered
  <1>2. /\ NothingYet.seen = {} /\ NothingYet.method = {} /\ NothingYet.data = <<>>
        /\ NothingYet.headers = <<>> /\ NothingYet.cookies = <<>> /\ NothingYet.resolve = <<>>
        /\ NothingYet.unknown = <<>> /\ NothingYet.url = {} /\ NothingYet.extra = <<>>
        /\ \A x \in LastIds : NothingYet.opt[x] = {}
    BY IdsAre DEF NothingYet
  <1>3. Elems(<<>>) = {} /\ AtMostOne({})
    BY DEF Elems, AtMostOne
  <1>4. /\ MeansSeen(NothingYet, <<>>) /\ MeansMethod(NothingYet, <<>>)
        /\ MeansHeaders(NothingYet, <<>>) /\ MeansLists(NothingYet, <<>>)
    BY <1>2, <1>3, NothingSaid DEF MeansSeen, MeansMethod, MeansHeaders, MeansLists
  <1>5. MeansData(NothingYet, <<>>)
    <2>1. \A x : ChunksSaid(<<>>, x) = {}
      BY NothingSaid DEF ChunksSaid
    <2>2. Positions(<<>>, DataIds) = {}
      BY NothingSaid
    <2>3. Len(<<>>) = 0
      OBVIOUS
    <2>4. Len(NothingYet.data) <= 1 /\ AtMostOne(Positions(<<>>, DataIds))
      <3>1. Len(NothingYet.data) = 0
        BY <1>2, <2>3
      <3>2. Len(NothingYet.data) <= 1
        BY <3>1
      <3>3. AtMostOne(Positions(<<>>, DataIds))
        BY <2>2 DEF AtMostOne
      <3>4. QED
        BY <3>2, <3>3
    <2>5. Elems(NothingYet.data) = UNION {ChunksSaid(<<>>, x) : x \in DataIds}
      BY <1>2, <1>3, <2>1
    <2>6. QED
      BY <1>2, <2>2, <2>4, <2>5 DEF MeansData
  <1>6. MeansUrl(NothingYet, <<>>) /\ MeansRefused(<<>>)
    BY <1>2, <1>3, NothingSaid DEF MeansUrl, MeansRefused
  <1>7. MeansOption(NothingYet, <<>>)
    <2>1. PlainIds \subseteq LastIds /\ "Cert" \in LastIds /\ "WriteOut" \in LastIds
      BY DEF PlainIds, LastIds
    <2>2. QED
      BY <1>2, <2>1, NothingSaid DEF MeansOption
  <1>8. QED
    BY <1>1, <1>4, <1>5, <1>6, <1>7 DEF Means

LEMMA AppendElems ==
  ASSUME NEW T, NEW s1 \in Seq(T), NEW e \in T
  PROVE  /\ Elems(Append(s1, e)) = Elems(s1) \cup {e}
         /\ Append(s1, e) # <<>> /\ Len(Append(s1, e)) = Len(s1) + 1 /\ Len(s1) \in Nat
         /\ Len(s1) = 0 <=> s1 = <<>>
  <1>1. PICK n \in Nat : Len(s1) = n /\ DOMAIN s1 = 1 .. n
    OBVIOUS
  <1>2. PICK more : more = Append(s1, e)
    OBVIOUS
  <1>3. DOMAIN more = 1 .. n + 1 /\ more[n + 1] = e /\ \A i \in 1 .. n : more[i] = s1[i]
    BY <1>1, <1>2
  <1>4. \A i \in 1 .. n + 1 : i \in 1 .. n \/ i = n + 1
    OBVIOUS
  <1>5. n + 1 \in 1 .. n + 1 /\ \A i \in 1 .. n : i \in 1 .. n + 1
    OBVIOUS
  <1>6. Elems(more) = Elems(s1) \cup {e}
    BY <1>1, <1>3, <1>4, <1>5 DEF Elems
  <1>7. QED
    BY <1>1, <1>2, <1>6

(* A value that passes is taken up.                                        *)
LEMMA ValueMeans ==
  ASSUME NEW g \in Gathered, NEW items \in Seq(Tokens), Means(g, items),
         NEW tok \in Tokens, NEW id \in ValueIds, tok.id = id, NEW v \in Texts, tok.value = {v},
         Passes(g, id, v), NEW h \in Gathered, Adds(g, h, id, v), AddsOption(g, h, id, v),
         NEW more, more = Append(items, tok)
  PROVE  Means(h, more)
  <1>1. \A x : /\ Has(more, x) <=> Has(items, x) \/ x = id
               /\ Values(more, x) = Values(items, x) \cup (IF x = id THEN {v} ELSE {})
               /\ LastOf(more, x) = IF x = id THEN {v} ELSE LastOf(items, x)
    <2>1. SUFFICES ASSUME NEW x
                   PROVE  /\ Has(more, x) <=> Has(items, x) \/ x = id
                          /\ Values(more, x) = Values(items, x) \cup (IF x = id THEN {v} ELSE {})
                          /\ LastOf(more, x) = IF x = id THEN {v} ELSE LastOf(items, x)
      OBVIOUS
    <2>2. /\ Has(more, x) <=> Has(items, x) \/ tok.id = x
          /\ Values(more, x) = Values(items, x) \cup (IF tok.id = x THEN tok.value ELSE {})
          /\ LastOf(more, x) = IF tok.id = x THEN tok.value ELSE LastOf(items, x)
      BY OneMore
    <2>3. QED
      BY <2>2
  <1>14. \A x : x # id => Values(more, x) = Values(items, x)
    BY <1>1
  <1>2. PICK n \in Nat : n = Len(items) + 1
    OBVIOUS
  <1>3. \A ids : id \in ids => Positions(more, ids) = Positions(items, ids) \cup {n}
    BY <1>2, OneMorePosition
  <1>15. \A ids : id \notin ids => Positions(more, ids) = Positions(items, ids)
    BY OneMorePosition
  <1>16. \A ids : n \notin Positions(items, ids)
    BY <1>2 DEF Positions
  <1>4. id \notin BoolIds /\ id \notin {"unknown", "nonsense", "Next"} /\ "unknown" \notin BoolIds
    BY KindsApart DEF BoolIds, ValueIds, MultiIds, LastIds
  <1>5. MeansSeen(h, more)
    BY <1>1, <1>4 DEF Means, MeansSeen, Adds
  <1>6. MeansMethod(h, more)
    <2>1. CASE id = "Request"
      <3>1. {MethodOf[w] : w \in Values(more, "Request")}
              = {MethodOf[w] : w \in Values(items, "Request")} \cup {MethodOf[v]}
        BY <1>1, <2>1
      <3>2. h.method = {MethodOf[v]}
        BY <2>1 DEF Adds
      <3>3. g.method = {} \/ g.method = {MethodOf[v]}
        BY <2>1 DEF Passes
      <3>4. AtMostOne({MethodOf[v]})
        BY DEF AtMostOne
      <3>5. QED
        BY <3>1, <3>2, <3>3, <3>4 DEF Means, MeansMethod
    <2>2. CASE id # "Request"
      BY <1>1, <2>2 DEF Means, MeansMethod, Adds
    <2>3. QED
      BY <2>1, <2>2
  <1>7. MeansData(h, more)
    <2>1. CASE id \in DataIds
      <3>1. h.data = Append(g.data, Chunk(id, v)) /\ g.data \in Seq(Chunks) /\ Chunk(id, v) \in Chunks
        <4>1. Chunk(id, v) \in Chunks
          BY <2>1 DEF Chunks
        <4>2. QED
          BY <2>1, <4>1 DEF Adds, Gathered
      <3>2. /\ Elems(h.data) = Elems(g.data) \cup {Chunk(id, v)} /\ h.data # <<>>
            /\ Len(h.data) = Len(g.data) + 1 /\ Len(g.data) \in Nat
            /\ Len(g.data) = 0 <=> g.data = <<>>
        BY <3>1, AppendElems
      <3>3. Positions(more, DataIds) = Positions(items, DataIds) \cup {n}
        BY <1>3, <2>1
      <3>4. UNION {ChunksSaid(more, x) : x \in DataIds}
              = (UNION {ChunksSaid(items, x) : x \in DataIds}) \cup {Chunk(id, v)}
        <4>1. \A x \in DataIds :
                ChunksSaid(more, x) = ChunksSaid(items, x) \cup (IF x = id THEN {Chunk(id, v)} ELSE {})
          BY <1>1 DEF ChunksSaid
        <4>2. QED
          BY <2>1, <4>1
      <3>5. Len(h.data) <= 1 <=> AtMostOne(Positions(more, DataIds))
        <4>1. Len(h.data) <= 1 <=> Positions(items, DataIds) = {}
          BY <3>2 DEF Means, MeansData
        <4>2. AtMostOne(Positions(items, DataIds) \cup {n}) <=> Positions(items, DataIds) = {}
          BY <1>16 DEF AtMostOne
        <4>3. QED
          BY <3>3, <4>1, <4>2
      <3>6. QED
        BY <3>2, <3>3, <3>4, <3>5 DEF Means, MeansData
    <2>2. CASE id \notin DataIds
      <3>1. \A x \in DataIds : Values(more, x) = Values(items, x)
        BY <1>1, <2>2
      <3>2. Positions(more, DataIds) = Positions(items, DataIds) /\ h.data = g.data
        BY <1>15, <2>2 DEF Adds
      <3>3. \A x \in DataIds : ChunksSaid(more, x) = ChunksSaid(items, x)
        BY <3>1 DEF ChunksSaid
      <3>4. QED
        BY <3>2, <3>3 DEF Means, MeansData
    <2>3. QED
      BY <2>1, <2>2
  <1>8. MeansHeaders(h, more)
    <2>1. CASE id = "Header"
      <3>1. h.headers = Append(g.headers, HeaderOf[v]) /\ g.headers \in Seq({HeaderOf[w] : w \in Texts})
        BY <2>1 DEF Adds, Gathered
      <3>2. Elems(h.headers) = Elems(g.headers) \cup {HeaderOf[v]}
        BY <3>1, AppendElems
      <3>3. {HeaderOf[w] : w \in Values(more, "Header")}
              = {HeaderOf[w] : w \in Values(items, "Header")} \cup {HeaderOf[v]}
        BY <1>1, <2>1
      <3>4. v \in DOMAIN HeaderOf
        BY <2>1 DEF Passes
      <3>5. QED
        BY <1>1, <2>1, <3>2, <3>3, <3>4 DEF Means, MeansHeaders
    <2>2. CASE id # "Header"
      BY <1>1, <2>2 DEF Means, MeansHeaders, Adds
    <2>3. QED
      BY <2>1, <2>2
  <1>9. MeansLists(h, more)
    <2>1. Elems(h.cookies) = Values(more, "Cookie")
      <3>1. CASE id = "Cookie"
        <4>1. h.cookies = Append(g.cookies, v) /\ g.cookies \in Seq(Texts)
          BY <3>1 DEF Adds, Gathered
        <4>2. Elems(h.cookies) = Elems(g.cookies) \cup {v}
          BY <4>1, AppendElems
        <4>3. QED
          BY <1>1, <3>1, <4>2 DEF Means, MeansLists
      <3>2. CASE id # "Cookie"
        <4>1. Values(more, "Cookie") = Values(items, "Cookie") /\ h.cookies = g.cookies
          BY <1>14, <3>2 DEF Adds
        <4>2. QED
          BY <4>1 DEF Means, MeansLists
      <3>3. QED
        BY <3>1, <3>2
    <2>2. h.resolve = <<>> <=> ~Has(more, "Resolve")
      <3>1. CASE id = "Resolve"
        <4>1. h.resolve = Append(g.resolve, v) /\ g.resolve \in Seq(Texts)
          BY <3>1 DEF Adds, Gathered
        <4>2. h.resolve # <<>>
          BY <4>1, AppendElems
        <4>3. QED
          BY <1>1, <3>1, <4>2
      <3>2. CASE id # "Resolve"
        BY <1>1, <3>2 DEF Means, MeansLists, Adds
      <3>3. QED
        BY <3>1, <3>2
    <2>3. h.unknown = <<>> <=> ~Has(more, "unknown")
      BY <1>1, <1>4 DEF Means, MeansLists, Adds
    <2>4. QED
      BY <2>1, <2>2, <2>3 DEF MeansLists
  <1>10. MeansUrl(h, more)
    <2>1. CASE id = "positional" /\ g.url = {}
      <3>1. Positions(more, {"positional"}) = {n}
        BY <1>3, <2>1 DEF Means, MeansUrl
      <3>2. h.url = {UrlOf[v]} /\ h.extra = g.extra /\ v \in DOMAIN UrlOf
        BY <2>1 DEF Adds, Passes
      <3>3. AtMostOne({n})
        BY DEF AtMostOne
      <3>4. g.extra = <<>> => {UrlOf[w] : w \in Values(more, "positional")} = {UrlOf[v]}
                              /\ Values(more, "positional") \subseteq DOMAIN UrlOf
        <4>1. g.extra = <<>> => {UrlOf[w] : w \in Values(items, "positional")} = {}
          BY <2>1 DEF Means, MeansUrl
        <4>2. g.extra = <<>> => Values(items, "positional") = {}
          BY <4>1
        <4>3. QED
          BY <1>1, <2>1, <3>2, <4>2
      <3>5. AtMostOne({UrlOf[v]})
        BY DEF AtMostOne
      <3>6. g.extra = <<>>
        <4>1. Positions(items, {"positional"}) = {}
          BY <2>1 DEF Means, MeansUrl
        <4>2. AtMostOne({})
          BY DEF AtMostOne
        <4>3. QED
          BY <4>1, <4>2 DEF Means, MeansUrl
      <3>7. QED
        BY <3>1, <3>2, <3>3, <3>4, <3>5, <3>6 DEF MeansUrl
    <2>2. CASE id = "positional" /\ g.url # {}
      <3>1. h.extra = Append(g.extra, v) /\ g.extra \in Seq(Texts) /\ h.url = g.url
        BY <2>2 DEF Adds, Gathered
      <3>2. h.extra # <<>>
        BY <3>1, AppendElems
      <3>3. Positions(more, {"positional"}) = Positions(items, {"positional"}) \cup {n}
        BY <1>3, <2>2
      <3>4. Positions(items, {"positional"}) # {}
        BY <2>2 DEF Means, MeansUrl
      <3>5. ~AtMostOne(Positions(more, {"positional"}))
        BY <1>16, <3>3, <3>4 DEF AtMostOne
      <3>6. QED
        BY <2>2, <3>1, <3>2, <3>3, <3>5 DEF Means, MeansUrl
    <2>3. CASE id # "positional"
      <3>1. Positions(more, {"positional"}) = Positions(items, {"positional"})
            /\ Values(more, "positional") = Values(items, "positional")
        BY <1>14, <1>15, <2>3
      <3>2. h.url = g.url /\ h.extra = g.extra
        BY <2>3 DEF Adds
      <3>3. QED
        BY <3>1, <3>2 DEF Means, MeansUrl
    <2>4. QED
      BY <2>1, <2>2, <2>3
  <1>11. MeansOption(h, more)
    <2>1. ASSUME NEW x \in PlainIds PROVE h.opt[x] = LastOf(more, x) \ Streams(x)
      <3>1. x \in LastIds /\ x \notin {"Request", "Config", "Pass", "Cert", "WriteOut"}
        BY DEF PlainIds
      <3>2. CASE x = id
        <4>1. h.opt[x] = {v} \ Streams(x)
          BY <3>1, <3>2 DEF AddsOption
        <4>2. QED
          BY <1>1, <3>2, <4>1
      <3>3. CASE x # id
        <4>1. h.opt[x] = g.opt[x]
          BY <3>1, <3>3 DEF AddsOption
        <4>2. QED
          BY <1>1, <3>3, <4>1 DEF Means, MeansOption
      <3>4. QED
        BY <3>2, <3>3
    <2>2. "Cert" \in LastIds /\ "WriteOut" \in LastIds
      BY DEF LastIds
    <2>3. h.opt["Cert"] = {CertOf[w].file : w \in LastOf(more, "Cert")}
      <3>1. CASE id = "Cert"
        <4>1. h.opt["Cert"] = {CertOf[v].file}
          BY <2>2, <3>1 DEF AddsOption
        <4>2. LastOf(more, "Cert") = {v}
          BY <1>1, <3>1
        <4>3. QED
          BY <4>1, <4>2
      <3>2. CASE id # "Cert"
        <4>1. h.opt["Cert"] = g.opt["Cert"] /\ LastOf(more, "Cert") = LastOf(items, "Cert")
          BY <1>1, <2>2, <3>2 DEF AddsOption
        <4>2. QED
          BY <4>1 DEF Means, MeansOption
      <3>3. QED
        BY <3>1, <3>2
    <2>4. h.opt["WriteOut"] = {Rest(w) : w \in {u \in LastOf(more, "WriteOut") : u.at}}
      <3>1. CASE id = "WriteOut"
        <4>1. h.opt["WriteOut"] = IF v.at THEN {Rest(v)} ELSE {}
          BY <2>2, <3>1 DEF AddsOption
        <4>2. LastOf(more, "WriteOut") = {v}
          BY <1>1, <3>1
        <4>3. QED
          BY <4>1, <4>2
      <3>2. CASE id # "WriteOut"
        <4>1. h.opt["WriteOut"] = g.opt["WriteOut"] /\ LastOf(more, "WriteOut") = LastOf(items, "WriteOut")
          BY <1>1, <2>2, <3>2 DEF AddsOption
        <4>2. QED
          BY <4>1 DEF Means, MeansOption
      <3>3. QED
        BY <3>1, <3>2
    <2>5. \A x \in LastIds : LastOf(more, x) = {} <=> ~Has(more, x)
      BY <1>1 DEF Means, MeansOption
    <2>6. QED
      BY <2>1, <2>3, <2>4, <2>5 DEF MeansOption
  <1>12. MeansRefused(more)
    <2>1. \A x \in {"nonsense", "Config", "Next", "Form", "FormString"} : ~Has(more, x)
      <3>1. id \notin {"nonsense", "Config", "Next", "Form", "FormString"}
        BY <1>4 DEF Passes
      <3>2. QED
        BY <1>1, <3>1 DEF Means, MeansRefused
    <2>2. Dash \notin Values(more, "UploadFile")
      BY <1>1 DEF Means, MeansRefused, Passes
    <2>3. AtDash \notin Values(more, "Cookie") \cup Values(more, "WriteOut")
      BY <1>1 DEF Means, MeansRefused, Passes
    <2>4. Values(more, "Proxy") \subseteq DOMAIN UrlOf
      BY <1>1 DEF Means, MeansRefused, Passes
    <2>5. QED
      BY <2>1, <2>2, <2>3, <2>4 DEF MeansRefused
  <1>13. QED
    BY <1>5, <1>6, <1>7, <1>8, <1>9, <1>10, <1>11, <1>12 DEF Means

(* So is a flag without a value, and one that is not known.                *)
LEMMA FlagMeans ==
  ASSUME NEW g \in Gathered, NEW items \in Seq(Tokens), Means(g, items),
         NEW tok \in Tokens, NEW id, tok.id = id, id \notin ValueIds \cup {"Next"},
         NEW h, NEW more, more = Append(items, tok),
         \/ id \in BoolIds /\ h = [g EXCEPT !.seen = @ \cup {id}]
         \/ id = "unknown" /\ h = [g EXCEPT !.unknown = Append(@, tok.value)]
  PROVE  h \in Gathered /\ Means(h, more)
  <1>1. \A x : x # id => /\ Has(more, x) <=> Has(items, x)
                         /\ Values(more, x) = Values(items, x)
                         /\ LastOf(more, x) = LastOf(items, x)
    <2>1. SUFFICES ASSUME NEW x, x # id
                   PROVE  /\ Has(more, x) <=> Has(items, x)
                          /\ Values(more, x) = Values(items, x)
                          /\ LastOf(more, x) = LastOf(items, x)
      OBVIOUS
    <2>2. /\ Has(more, x) <=> Has(items, x) \/ tok.id = x
          /\ Values(more, x) = Values(items, x) \cup (IF tok.id = x THEN tok.value ELSE {})
          /\ LastOf(more, x) = IF tok.id = x THEN tok.value ELSE LastOf(items, x)
      BY OneMore
    <2>3. QED
      BY <2>1, <2>2
  <1>2. Has(more, id)
    BY OneMore
  <1>3. \A ids : id \notin ids => Positions(more, ids) = Positions(items, ids)
    <2>1. SUFFICES ASSUME NEW ids, id \notin ids
                   PROVE  Positions(more, ids) = Positions(items, ids)
      OBVIOUS
    <2>2. QED
      BY <2>1, OneMorePosition
  <1>4. /\ h.method = g.method /\ h.headers = g.headers /\ h.data = g.data /\ h.resolve = g.resolve
        /\ h.cookies = g.cookies /\ h.url = g.url /\ h.extra = g.extra /\ h.opt = g.opt
    BY DEF Gathered
  <1>5. /\ "positional" # id /\ "Request" # id /\ "Header" # id /\ "Cookie" # id /\ "Resolve" # id
        /\ id \notin DataIds /\ id \notin LastIds
        /\ id \notin {"nonsense", "Config", "Next", "Form", "FormString", "UploadFile", "WriteOut",
                      "Proxy", "Cert"}
    BY DEF ValueIds, MultiIds, LastIds, DataIds, BoolIds
  <1>6. h \in Gathered
    <2>1. CASE id = "unknown"
      <3>1. "unknown" \notin BoolIds /\ tok.value \in SUBSET Texts
        BY KindsApart DEF Tokens
      <3>2. h = [g EXCEPT !.unknown = Append(@, tok.value)]
        BY <2>1, <3>1
      <3>3. Append(g.unknown, tok.value) \in Seq(SUBSET Texts)
        BY <3>1 DEF Gathered
      <3>4. QED
        BY <3>2, <3>3 DEF Gathered
    <2>2. CASE id # "unknown"
      <3>1. h = [g EXCEPT !.seen = @ \cup {id}] /\ id \in BoolIds
        BY <2>2
      <3>2. g.seen \cup {id} \in SUBSET BoolIds
        BY <3>1 DEF Gathered
      <3>3. QED
        BY <3>1, <3>2 DEF Gathered
    <2>3. QED
      BY <2>1, <2>2
  <1>7. MeansSeen(h, more) /\ (h.unknown = <<>> <=> ~Has(more, "unknown"))
    <2>1. CASE id = "unknown"
      <3>1. id \notin BoolIds
        BY <2>1, KindsApart
      <3>2. h = [g EXCEPT !.unknown = Append(@, tok.value)]
        BY <3>1
      <3>3. h.seen = g.seen /\ h.unknown = Append(g.unknown, tok.value)
        BY <3>2 DEF Gathered
      <3>4. h.unknown # <<>>
        <4>1. g.unknown \in Seq(SUBSET Texts) /\ tok.value \in SUBSET Texts
          BY DEF Gathered, Tokens
        <4>2. PICK U, value : U = SUBSET Texts /\ value = tok.value
          OBVIOUS
        <4>3. g.unknown \in Seq(U) /\ value \in U
          BY <4>1, <4>2
        <4>4. QED
          BY <3>3, <4>2, <4>3, AppendElems
      <3>5. QED
        BY <1>1, <1>2, <2>1, <3>1, <3>3, <3>4 DEF Means, MeansSeen
    <2>2. CASE id # "unknown"
      <3>1. h.seen = g.seen \cup {id} /\ h.unknown = g.unknown
        BY <2>2 DEF Gathered
      <3>2. QED
        BY <1>1, <1>2, <2>2, <3>1 DEF Means, MeansSeen, MeansLists
    <2>3. QED
      BY <2>1, <2>2
  <1>8. MeansMethod(h, more) /\ MeansHeaders(h, more)
    BY <1>1, <1>4, <1>5 DEF Means, MeansMethod, MeansHeaders
  <1>9. MeansData(h, more)
    <2>1. \A x \in DataIds : ChunksSaid(more, x) = ChunksSaid(items, x)
      BY <1>1, <1>5 DEF ChunksSaid
    <2>2. Positions(more, DataIds) = Positions(items, DataIds)
      BY <1>3, <1>5
    <2>3. QED
      BY <1>4, <2>1, <2>2 DEF Means, MeansData
  <1>10. MeansLists(h, more)
    BY <1>1, <1>4, <1>5, <1>7 DEF Means, MeansLists
  <1>11. MeansUrl(h, more)
    <2>1. Positions(more, {"positional"}) = Positions(items, {"positional"})
      BY <1>3, <1>5
    <2>2. QED
      BY <1>1, <1>4, <1>5, <2>1 DEF Means, MeansUrl
  <1>12. MeansOption(h, more)
    <2>1. PlainIds \subseteq LastIds
      BY DEF PlainIds
    <2>2. \A x \in LastIds : LastOf(more, x) = LastOf(items, x) /\ (Has(more, x) <=> Has(items, x))
      BY <1>1, <1>5
    <2>3. QED
      BY <1>1, <1>4, <1>5, <2>1, <2>2 DEF Means, MeansOption
  <1>13. MeansRefused(more)
    BY <1>1, <1>5 DEF Means, MeansRefused
  <1>14. QED
    BY <1>6, <1>7, <1>8, <1>9, <1>10, <1>11, <1>12, <1>13 DEF Means

(* One token is absorbed, or the command is refused.                       *)
LEMMA AbsorbMeans ==
  ASSUME tokens \in Seq(Tokens), at \in Nat \ {0}, got \in Gathered,
         Means(got, SubSeq(tokens, 1, at - 1)), AbsorbToken
  PROVE  /\ UNCHANGED <<words, tokens>>
         /\ \/ /\ at' = at + 1 /\ at <= Len(tokens) /\ UNCHANGED <<stage, outcome>>
               /\ got' \in Gathered /\ Means(got', SubSeq(tokens, 1, at))
            \/ stage' = "done" /\ outcome'.parsed = {} /\ UNCHANGED <<got, at>>
  <1>1. PICK tok \in Tokens : tok = tokens[at]
    BY DEF AbsorbToken
  <1>2. CASE AbsorbError(tok) # NoError
    BY <1>1, <1>2 DEF AbsorbToken, Refuse
  <1>3. CASE AbsorbError(tok) = NoError
    <2> DEFINE items == SubSeq(tokens, 1, at - 1)
               more == SubSeq(tokens, 1, at)
    <2>1. /\ UNCHANGED <<words, tokens, stage, outcome>> /\ at' = at + 1 /\ at <= Len(tokens)
          /\ \/ \E v \in tok.value : tok.id # "unknown" /\ got' = Absorbed(tok.id, v)
             \/ tok.id = "unknown" /\ got' = [got EXCEPT !.unknown = Append(@, tok.value)]
             \/ tok.id \in Ids(BoolSpecs) /\ got' = [got EXCEPT !.seen = @ \cup {tok.id}]
      BY <1>1, <1>3 DEF AbsorbToken
    <2>2. at \in 1 .. Len(tokens)
      BY <2>1
    <2>3. items \in Seq(Tokens) /\ more = Append(items, tok)
      <3>1. items \in Seq(Tokens)
        BY <2>2, SubSeqProperties
      <3>2. QED
        BY <1>1, <2>2, <3>1, UpTo
    <2>4. PICK id : id = tok.id
      OBVIOUS
    <2>5. /\ id \in BoolIds \/ id \in ValueIds \/ id = "unknown"
          /\ tok.value \in SUBSET Texts /\ AtMostOne(tok.value)
          /\ id \in BoolIds => tok.value = {}
      BY <2>4 DEF Tokens
    <2>6. ASSUME NEW v \in tok.value, id # "unknown", got' = Absorbed(id, v)
          PROVE  got' \in Gathered /\ Means(got', more)
      <3>1. tok.value = {v} /\ v \in Texts /\ id \in ValueIds
        BY <2>5, <2>6 DEF AtMostOne
      <3>2. Passes(got, id, v)
        BY <1>3, <2>4, <3>1, Passed
      <3>3. id \notin {"Form", "FormString"}
        BY <3>2 DEF Passes
      <3>4. id = "positional" /\ got.url = {} => UrlOf[v] \in Urls
        BY <3>2, AdmissionAssumption DEF Passes, AdmissionAssumption
      <3>5. PICK h : h = got'
        OBVIOUS
      <3>6. h \in Gathered /\ Adds(got, h, id, v) /\ AddsOption(got, h, id, v)
        BY <2>6, <3>1, <3>3, <3>4, <3>5, ValueAdds
      <3> HIDE DEF items, more
      <3>7. Means(got, items)
        BY DEF items
      <3>8. Means(h, more)
        BY <2>3, <2>4, <3>1, <3>2, <3>6, <3>7, ValueMeans
      <3>9. QED
        BY <3>5, <3>6, <3>8
    <2>7. ASSUME \/ id = "unknown" /\ got' = [got EXCEPT !.unknown = Append(@, tok.value)]
                 \/ id \in Ids(BoolSpecs) /\ got' = [got EXCEPT !.seen = @ \cup {id}]
          PROVE  got' \in Gathered /\ Means(got', more)
      <3>1. id \notin ValueIds \cup {"Next"}
        <4>1. id # "Next"
          BY <1>3, <2>4, ErrorsAre DEF AbsorbError
        <4>2. QED
          BY <2>7, <4>1, IdsAre, KindsApart
      <3>2. PICK h : h = got'
        OBVIOUS
      <3>3. \/ id \in BoolIds /\ h = [got EXCEPT !.seen = @ \cup {id}]
            \/ id = "unknown" /\ h = [got EXCEPT !.unknown = Append(@, tok.value)]
        BY <2>7, <3>2, IdsAre
      <3> HIDE DEF items, more
      <3>4. Means(got, items)
        BY DEF items
      <3>5. h \in Gathered /\ Means(h, more)
        BY <2>3, <2>4, <3>1, <3>3, <3>4, FlagMeans
      <3>6. QED
        BY <3>2, <3>5
    <2>8. QED
      BY <2>1, <2>4, <2>6, <2>7
  <1>4. QED
    BY <1>2, <1>3

-----------------------------------------------------------------------------
(* finalise *)

(* Every token is absorbed, and the first of the checks that follow finds  *)
(* nothing to refuse.                                                      *)
Finalising(url) ==
  /\ tokens \in Seq(Tokens) /\ got \in Gathered /\ Means(got, tokens)
  /\ FinaliseError = NoError /\ url \in got.url

LEMMA LastIsValue ==
  ASSUME NEW items, NEW x
  PROVE  /\ LastOf(items, x) \subseteq Values(items, x)
         /\ Values(items, x) # {} => Has(items, x)
         /\ Has(items, x) <=> Positions(items, {x}) # {}
  <1>1. LastOf(items, x) \subseteq Values(items, x)
    BY DEF LastOf, Values, Positions
  <1>2. Values(items, x) # {} => Has(items, x)
    BY DEF Values, Positions, Has
  <1>3. Has(items, x) <=> Positions(items, {x}) # {}
    BY DEF Positions, Has
  <1>4. QED
    BY <1>1, <1>2, <1>3

(* A chunk of a kind was said by a flag.                                   *)
LEMMA KindSaid ==
  ASSUME got \in Gathered, Means(got, tokens), NEW kind
  PROVE  ChunksOf(kind) # {} <=>
           \E id \in DataIds : \E v \in Values(tokens, id) : Chunk(id, v).kind = kind
  <1>1. Elems(got.data) = UNION {ChunksSaid(tokens, id) : id \in DataIds}
    BY DEF Means, MeansData
  <1>2. ChunksOf(kind) # {} <=> \E c \in Elems(got.data) : c.kind = kind
    BY DEF ChunksOf, Elems
  <1>3. \A c : c \in Elems(got.data) <=> \E id \in DataIds : \E v \in Values(tokens, id) : c = Chunk(id, v)
    BY <1>1 DEF ChunksSaid
  <1>4. QED
    BY <1>2, <1>3

LEMMA NothingRefused ==
  ASSUME NEW url, Finalising(url)
  PROVE  /\ got.extra = <<>> /\ got.url = {url}
         /\ \A i \in DOMAIN got.headers :
              ~(got.headers[i].name = "transfer-encoding" /\ got.headers[i].chunked)
         /\ ChunksOf("stdin") = {}
         /\ ChunksOf("file") # {} => Len(got.data) <= 1
  <1>1. got.url # {} /\ AtMostOne(got.url)
    BY DEF Finalising, Means, MeansUrl
  <1>2. got.url = {url}
    BY <1>1 DEF Finalising, AtMostOne
  <1>3. FinaliseError = NoError
    BY DEF Finalising
  <1>4. got.extra = <<>>
    BY <1>3, ErrorsAre DEF FinaliseError
  <1>5. \A i \in DOMAIN got.headers :
          ~(got.headers[i].name = "transfer-encoding" /\ got.headers[i].chunked)
    BY <1>1, <1>3, <1>4, ErrorsAre DEF FinaliseError
  <1>6. BodyError = NoError
    BY <1>1, <1>3, <1>4, <1>5 DEF FinaliseError
  <1>7. got.data \in Seq(Chunks)
    BY DEF Finalising, Gathered
  <1>8. Len(got.data) \in Nat
    BY <1>7
  <1>9. ChunksOf("stdin") = {} /\ (ChunksOf("file") # {} => ~(Len(got.data) > 1))
    BY <1>6, ErrorsAre DEF BodyError
  <1>10. QED
    BY <1>2, <1>4, <1>5, <1>8, <1>9

(* The chunk kinds say whether a file is meant.                            *)
LEMMA FileMeant ==
  ASSUME got \in Gathered, Means(got, tokens), ChunksOf("stdin") = {}
  PROVE  /\ ChunksOf("file") # {} <=> MeantAt(tokens, FromFile) # {}
         /\ AtDash \notin MeantAt(tokens, FromFile)
  <1>1. \A id \in DataIds : \A v \in Values(tokens, id) : Chunk(id, v).kind # "stdin"
    BY KindSaid
  <1>2. AtDash \notin MeantAt(tokens, FromFile)
    <2>1. \A id \in FromFile : id \in DataIds /\ id # "DataRaw"
      BY DEF FromFile
    <2>2. AtDash.at
      BY DEF AtDash
    <2>3. \A id \in FromFile : Chunk(id, AtDash).kind = "stdin"
      BY <2>1, <2>2 DEF Chunk
    <2>4. \A id \in FromFile : AtDash \notin Values(tokens, id)
      BY <1>1, <2>1, <2>3
    <2>5. QED
      BY <2>4 DEF MeantAt
  <1>3. ChunksOf("file") # {} => MeantAt(tokens, FromFile) # {}
    <2>1. SUFFICES ASSUME NEW id \in DataIds, NEW v \in Values(tokens, id), Chunk(id, v).kind = "file"
                   PROVE  MeantAt(tokens, FromFile) # {}
      BY KindSaid
    <2>2. id # "DataRaw" /\ v.at
      BY <2>1 DEF Chunk
    <2>3. id \in FromFile
      BY <2>2 DEF FromFile
    <2>4. v \in MeantAt(tokens, FromFile)
      BY <2>2, <2>3 DEF MeantAt
    <2>5. QED
      BY <2>4
  <1>4. MeantAt(tokens, FromFile) # {} => ChunksOf("file") # {}
    <2>1. SUFFICES ASSUME NEW v \in MeantAt(tokens, FromFile) PROVE ChunksOf("file") # {}
      OBVIOUS
    <2>2. PICK id \in FromFile : v \in Values(tokens, id) /\ v.at
      BY DEF MeantAt
    <2>3. id \in DataIds /\ id # "DataRaw"
      BY DEF FromFile
    <2>4. v # AtDash
      BY <1>2, <2>1
    <2>5. Chunk(id, v).kind = "file"
      BY <2>2, <2>3, <2>4 DEF Chunk
    <2>6. QED
      BY <2>2, <2>3, <2>5, KindSaid
  <1>5. QED
    BY <1>2, <1>3, <1>4

(* What is shown can be shown.                                             *)
LEMMA CanBeShown ==
  ASSUME NEW url, Finalising(url)
  PROVE  ~CannotBeShown(tokens)
  <1>1. Means(got, tokens) /\ got \in Gathered /\ tokens \in Seq(Tokens)
    BY DEF Finalising
  <1>2. \A id \in {"nonsense", "Config", "Next", "Form", "FormString"} : ~Has(tokens, id)
    BY <1>1 DEF Means, MeansRefused
  <1>3. Has(tokens, "positional") /\ AtMostOne(Positions(tokens, {"positional"}))
        /\ Values(tokens, "positional") \subseteq DOMAIN UrlOf
    <2>1. got.extra = <<>> /\ got.url # {}
      BY NothingRefused
    <2>2. QED
      BY <1>1, <2>1, LastIsValue DEF Means, MeansUrl
  <1>4. Values(tokens, "Proxy") \subseteq DOMAIN UrlOf /\ Values(tokens, "Header") \subseteq DOMAIN HeaderOf
        /\ Dash \notin Values(tokens, "UploadFile")
    BY <1>1 DEF Means, MeansRefused, MeansHeaders
  <1>5. ASSUME NEW v \in Values(tokens, "Header")
        PROVE  ~(HeaderOf[v].name = "transfer-encoding" /\ HeaderOf[v].chunked)
    <2>1. HeaderOf[v] \in Elems(got.headers)
      BY <1>1 DEF Means, MeansHeaders
    <2>2. PICK i \in DOMAIN got.headers : HeaderOf[v] = got.headers[i]
      BY <2>1 DEF Elems
    <2>3. QED
      BY <2>2, NothingRefused
  <1>6. AtMostOne({MethodOf[v] : v \in Values(tokens, "Request")})
    BY <1>1 DEF Means, MeansMethod
  <1>7. ChunksOf("stdin") = {} /\ (ChunksOf("file") # {} => Len(got.data) <= 1)
    BY NothingRefused
  <1>8. AtDash \notin MeantAt(tokens, FromFile \cup {"Cookie", "WriteOut"})
    <2>1. AtDash \notin MeantAt(tokens, FromFile)
      BY <1>1, <1>7, FileMeant
    <2>2. AtDash \notin Values(tokens, "Cookie") \cup Values(tokens, "WriteOut") /\ AtDash.at
      BY <1>1 DEF Means, MeansRefused, AtDash
    <2>3. QED
      BY <2>1, <2>2 DEF MeantAt
  <1>9. ~(MeantAt(tokens, FromFile) # {} /\ ~AtMostOne(Positions(tokens, DataIds)))
    BY <1>1, <1>7, FileMeant DEF Means, MeansData
  <1>10. QED
    BY <1>2, <1>3, <1>4, <1>5, <1>6, <1>8, <1>9 DEF CannotBeShown

(* What was said before some token is said by all of them.                 *)
LEMMA EarlierValues ==
  ASSUME NEW list \in Seq(Tokens), NEW k \in 0 .. Len(list), NEW items, items = SubSeq(list, 1, k), NEW id
  PROVE  Values(items, id) \subseteq Values(list, id)
  <1>1. DOMAIN items = 1 .. k /\ \A i \in 1 .. k : i \in DOMAIN list /\ items[i] = list[i]
    OBVIOUS
  <1>2. QED
    BY <1>1 DEF Values, Positions

(* A token is refused for what the command says.                           *)
LEMMA RefusedToken ==
  ASSUME tokens \in Seq(Tokens), at \in Nat \ {0}, at <= Len(tokens), got \in Gathered,
         Means(got, SubSeq(tokens, 1, at - 1)), AbsorbError(tokens[at]) # NoError
  PROVE  CannotBeShown(tokens)
  <1>1. PICK tok \in Tokens : tok = tokens[at]
    OBVIOUS
  <1>2. PICK id : id = tok.id
    OBVIOUS
  <1>3. Has(tokens, id) /\ \A v \in tok.value : v \in Values(tokens, id)
    <2>1. at \in Positions(tokens, {id})
      BY <1>1, <1>2 DEF Positions
    <2>2. QED
      BY <1>1, <1>2, <2>1 DEF Has, Values, Positions
  <1>4. AbsorbError(tok) # NoError
    BY <1>1
  <1>5. id \in ValueIds => \E v \in Texts : tok.value = {v}
    BY <1>2 DEF Tokens, AtMostOne
  <1>6. CASE id = "Request"
    <2>1. got.method # {} /\ {MethodOf[v] : v \in tok.value} # got.method
      BY <1>2, <1>4, <1>6 DEF AbsorbError
    <2>2. PICK v \in Texts : tok.value = {v}
      BY <1>5, <1>6 DEF ValueIds, LastIds
    <2>3. PICK items : items = SubSeq(tokens, 1, at - 1)
      OBVIOUS
    <2>4. got.method = {MethodOf[w] : w \in Values(items, "Request")} /\ AtMostOne(got.method)
      BY <2>3 DEF Means, MeansMethod
    <2>5. PICK w \in Values(items, "Request") : got.method = {MethodOf[w]}
      <3>1. PICK w \in Values(items, "Request") : MethodOf[w] \in got.method
        BY <2>1, <2>4
      <3>2. \A m \in got.method : m = MethodOf[w]
        BY <2>4, <3>1 DEF AtMostOne
      <3>3. got.method = {MethodOf[w]}
        BY <3>1, <3>2
      <3>4. QED
        BY <3>3
    <2>6. MethodOf[w] # MethodOf[v]
      BY <2>1, <2>2, <2>5
    <2>7. at - 1 \in 0 .. Len(tokens)
      OBVIOUS
    <2>8. w \in Values(tokens, "Request") /\ v \in Values(tokens, "Request")
      BY <1>3, <1>6, <2>2, <2>3, <2>7, EarlierValues
    <2>9. ~AtMostOne({MethodOf[u] : u \in Values(tokens, "Request")})
      BY <2>6, <2>8 DEF AtMostOne
    <2>10. QED
      BY <2>9 DEF CannotBeShown
  <1>7. CASE id = "Header"
    <2>1. \A v \in tok.value : v \notin DOMAIN HeaderOf
      BY <1>2, <1>4, <1>7 DEF AbsorbError
    <2>2. PICK v \in Texts : tok.value = {v}
      BY <1>5, <1>7 DEF ValueIds, MultiIds
    <2>3. ~(Values(tokens, "Header") \subseteq DOMAIN HeaderOf)
      BY <1>3, <1>7, <2>1, <2>2
    <2>4. QED
      BY <2>3 DEF CannotBeShown
  <1>8. CASE id \in {"Config", "Next", "Form", "FormString"}
    BY <1>3, <1>8 DEF CannotBeShown
  <1>9. CASE id = "UploadFile"
    <2>1. tok.value = {Dash}
      BY <1>2, <1>4, <1>9 DEF AbsorbError
    <2>2. QED
      BY <1>3, <1>9, <2>1 DEF CannotBeShown
  <1>10. CASE id \in {"Cookie", "WriteOut"}
    <2>1. tok.value = {AtDash}
      BY <1>2, <1>4, <1>10 DEF AbsorbError
    <2>2. AtDash \in MeantAt(tokens, FromFile \cup {"Cookie", "WriteOut"})
      BY <1>3, <1>10, <2>1 DEF MeantAt, AtDash
    <2>3. QED
      BY <2>2 DEF CannotBeShown
  <1>11. CASE id \in {"Proxy", "positional"}
    <2>1. \A v \in tok.value : v \notin DOMAIN UrlOf
      BY <1>2, <1>4, <1>11 DEF AbsorbError
    <2>2. PICK v \in Texts : tok.value = {v}
      BY <1>5, <1>11 DEF ValueIds, LastIds
    <2>3. ~(Values(tokens, "positional") \cup Values(tokens, "Proxy") \subseteq DOMAIN UrlOf)
      BY <1>3, <1>11, <2>1, <2>2
    <2>4. QED
      BY <2>3 DEF CannotBeShown
  <1>12. CASE id \notin {"Request", "Header", "Config", "Next", "Form", "FormString", "UploadFile",
                         "Cookie", "WriteOut", "Proxy", "positional"}
    BY <1>2, <1>4, <1>12 DEF AbsorbError
  <1>13. QED
    BY <1>6, <1>7, <1>8, <1>9, <1>10, <1>11, <1>12

(* So is a command of which every token was taken.                         *)
LEMMA RefusedInTheEnd ==
  ASSUME tokens \in Seq(Tokens), got \in Gathered, Means(got, tokens), FinaliseError # NoError
  PROVE  CannotBeShown(tokens)
  <1>1. CASE got.extra # <<>>
    BY <1>1 DEF Means, MeansUrl, CannotBeShown
  <1>2. CASE got.url = {}
    BY <1>2, LastIsValue DEF Means, MeansUrl, CannotBeShown
  <1>3. CASE \E i \in DOMAIN got.headers : got.headers[i].name = "transfer-encoding" /\ got.headers[i].chunked
    <2>1. PICK i \in DOMAIN got.headers : got.headers[i].name = "transfer-encoding" /\ got.headers[i].chunked
      BY <1>3
    <2>2. got.headers[i] \in Elems(got.headers)
      BY DEF Elems
    <2>3. PICK v \in Values(tokens, "Header") : HeaderOf[v] = got.headers[i]
      BY <2>2 DEF Means, MeansHeaders
    <2>4. HeaderOf[v].name = "transfer-encoding" /\ HeaderOf[v].chunked
      BY <2>1, <2>3
    <2>5. QED
      BY <2>4 DEF CannotBeShown
  <1>4. CASE ChunksOf("stdin") # {}
    <2>1. PICK id \in DataIds : \E v \in Values(tokens, id) : Chunk(id, v).kind = "stdin"
      BY <1>4, KindSaid
    <2>2. PICK v \in Values(tokens, id) : Chunk(id, v).kind = "stdin"
      BY <2>1
    <2>3. id # "DataRaw" /\ v = AtDash
      BY <2>2 DEF Chunk
    <2>4. AtDash \in MeantAt(tokens, FromFile \cup {"Cookie", "WriteOut"})
      BY <2>2, <2>3 DEF MeantAt, FromFile, AtDash
    <2>5. QED
      BY <2>4 DEF CannotBeShown
  <1>5. CASE ChunksOf("stdin") = {} /\ ChunksOf("file") # {} /\ Len(got.data) > 1
    <2>1. got.data \in Seq(Chunks)
      BY DEF Gathered
    <2>2. ~(Len(got.data) <= 1)
      BY <1>5, <2>1
    <2>3. MeantAt(tokens, FromFile) # {} /\ ~AtMostOne(Positions(tokens, DataIds))
      BY <1>5, <2>2, FileMeant DEF Means, MeansData
    <2>4. QED
      BY <2>3 DEF CannotBeShown
  <1>6. QED
    BY <1>1, <1>2, <1>3, <1>4, <1>5 DEF FinaliseError, BodyError

(* The options that are looked at alone.                                   *)
LEMMA OptionSaid ==
  ASSUME got \in Gathered, Means(got, tokens)
  PROVE  /\ \A x \in LastIds : LastOf(tokens, x) = {} <=> ~Has(tokens, x)
         /\ Opt("Proxy") = LastOf(tokens, "Proxy") /\ Opt("User") = LastOf(tokens, "User")
         /\ Opt("UploadFile") = LastOf(tokens, "UploadFile") /\ Opt("Key") = LastOf(tokens, "Key")
         /\ Opt("Pubkey") = LastOf(tokens, "Pubkey") /\ Opt("EtagCompare") = LastOf(tokens, "EtagCompare")
         /\ Opt("CookieJar") = LastOf(tokens, "CookieJar") /\ Opt("EtagSave") = LastOf(tokens, "EtagSave")
         /\ Opt("Output") = LastOf(tokens, "Output") /\ Opt("OutputDir") = LastOf(tokens, "OutputDir")
         /\ Opt("DumpHeader") = LastOf(tokens, "DumpHeader") \ {Dash}
         /\ \A x \in {"Trace", "TraceAscii"} :
              Opt(x) = LastOf(tokens, x) \ {Dash, [Dash EXCEPT !.text = <<"%">>]}
         /\ Opt("Cert") = {CertOf[v].file : v \in LastOf(tokens, "Cert")}
         /\ Opt("WriteOut") = {Rest(v) : v \in {w \in LastOf(tokens, "WriteOut") : w.at}}
  <1> DEFINE Plainly == {"Proxy", "User", "UploadFile", "Key", "Pubkey", "EtagCompare", "CookieJar",
                       "EtagSave", "Output", "OutputDir"}
  <1>1. Plainly \cup {"DumpHeader", "Trace", "TraceAscii"} \subseteq PlainIds
    BY DEF PlainIds, LastIds
  <1>2. \A x \in Plainly : Streams(x) = {}
    BY DEF Streams
  <1>3. \A x \in PlainIds : Opt(x) = LastOf(tokens, x) \ Streams(x)
    BY DEF Means, MeansOption, Opt
  <1>4. \A x \in Plainly : Opt(x) = LastOf(tokens, x)
    <2> HIDE DEF Plainly
    <2>1. SUFFICES ASSUME NEW x \in Plainly PROVE Opt(x) = LastOf(tokens, x)
      OBVIOUS
    <2>2. Opt(x) = LastOf(tokens, x) \ Streams(x) /\ Streams(x) = {}
      BY <1>1, <1>2, <1>3
    <2>3. QED
      BY <2>2
  <1>5. PICK percent : percent = [Dash EXCEPT !.text = <<"%">>]
    OBVIOUS
  <1>6. Streams("DumpHeader") = {Dash} /\ percent = [at |-> FALSE, text |-> <<"%">>]
    BY <1>5 DEF Streams, Dash
  <1>7. \A x \in {"Trace", "TraceAscii"} : Streams(x) = {Dash, percent}
    BY <1>6 DEF Streams
  <1>8. /\ Opt("DumpHeader") = LastOf(tokens, "DumpHeader") \ {Dash}
        /\ \A x \in {"Trace", "TraceAscii"} : Opt(x) = LastOf(tokens, x) \ {Dash, percent}
    BY <1>1, <1>3, <1>6, <1>7
  <1>9. /\ \A x \in LastIds : LastOf(tokens, x) = {} <=> ~Has(tokens, x)
        /\ Opt("Cert") = {CertOf[v].file : v \in LastOf(tokens, "Cert")}
        /\ Opt("WriteOut") = {Rest(v) : v \in {w \in LastOf(tokens, "WriteOut") : w.at}}
    BY DEF Means, MeansOption, Opt
  <1>10. QED
    BY <1>4, <1>5, <1>8, <1>9

LEMMA MethodShown ==
  ASSUME NEW url, Finalising(url)
  PROVE  {InferMethod} = MeantMethod(tokens)
  <1>1. Means(got, tokens) /\ got \in Gathered
    BY DEF Finalising
  <1>2. /\ got.method = {MethodOf[v] : v \in Values(tokens, "Request")} /\ AtMostOne(got.method)
        /\ Seen("Head") <=> Has(tokens, "Head")
        /\ Seen("Get") <=> Has(tokens, "Get")
        /\ got.data = <<>> <=> Positions(tokens, DataIds) = {}
    BY <1>1 DEF Means, MeansMethod, MeansSeen, MeansData, Seen, BoolIds
  <1>3. Opt("UploadFile") # {} <=> Has(tokens, "UploadFile")
    BY <1>1, OptionSaid DEF LastIds
  <1>4. got.method # {} <=> Has(tokens, "Request")
    <2>1. LastOf(tokens, "Request") # {} <=> Has(tokens, "Request")
      BY <1>1, OptionSaid DEF LastIds
    <2>2. Values(tokens, "Request") # {} <=> Has(tokens, "Request")
      BY <2>1, LastIsValue
    <2>3. QED
      BY <1>2, <2>2
  <1>5. CASE got.method # {}
    <2>1. PICK m \in got.method : m = CHOOSE method \in got.method : TRUE
      BY <1>5
    <2>2. got.method = {m}
      BY <1>2, <2>1 DEF AtMostOne
    <2>3. InferMethod = m
      BY <1>5, <2>1 DEF InferMethod
    <2>4. MeantMethod(tokens) = got.method
      BY <1>2, <1>4, <1>5 DEF MeantMethod
    <2>5. QED
      BY <2>2, <2>3, <2>4
  <1>6. CASE got.method = {}
    BY <1>2, <1>3, <1>4, <1>6 DEF InferMethod, MeantMethod
  <1>7. QED
    BY <1>5, <1>6

LEMMA RequestShown ==
  ASSUME NEW url, Finalising(url)
  PROVE  LET req == CommandFor(url).http IN RequestTrue(tokens, req) /\ req.url.path = url.path
  <1>1. Means(got, tokens) /\ got \in Gathered /\ tokens \in Seq(Tokens) /\ url \in Urls
    BY DEF Finalising, Gathered
  <1>2. PICK req : req = CommandFor(url).http
    OBVIOUS
  <1>3. /\ req.method = InferMethod
        /\ req.url = [url EXCEPT !.fragment = FALSE]
        /\ req.headers = {got.headers[i].name : i \in DOMAIN got.headers}
        /\ req.body = BodyKind /\ req.tls = TlsPolicy(url)
        /\ req.follow_redirects = Seen("Location")
        /\ req.proxy = {UrlOf[v] : v \in Opt("Proxy")}
        /\ req.auth = DeriveAuth
    BY <1>2 DEF CommandFor
  <1>4. {req.method} = MeantMethod(tokens)
    BY <1>3, MethodShown
  <1>5. {req.url} = {[UrlOf[v] EXCEPT !.fragment = FALSE] : v \in Values(tokens, "positional")}
    <2>1. {url} = {UrlOf[v] : v \in Values(tokens, "positional")}
      BY <1>1, NothingRefused DEF Means, MeansUrl
    <2> DEFINE Cut(u) == [u EXCEPT !.fragment = FALSE]
    <2>2. req.url = Cut(url)
      BY <1>3
    <2> HIDE DEF Cut
    <2>3. {Cut(url)} = {Cut(UrlOf[v]) : v \in Values(tokens, "positional")}
      <3>1. \A v \in Values(tokens, "positional") : UrlOf[v] = url
        BY <2>1
      <3>2. \E v \in Values(tokens, "positional") : UrlOf[v] = url
        BY <2>1
      <3>3. QED
        BY <3>1, <3>2
    <2>4. QED
      BY <2>2, <2>3 DEF Cut
  <1>6. req.headers = {HeaderOf[v].name : v \in Values(tokens, "Header")}
    <2>1. Elems(got.headers) = {HeaderOf[v] : v \in Values(tokens, "Header")}
      BY <1>1 DEF Means, MeansHeaders
    <2>2. req.headers = {c.name : c \in Elems(got.headers)}
      BY <1>3 DEF Elems
    <2>3. QED
      BY <2>1, <2>2
  <1>7. ChunksOf("stdin") = {}
    BY NothingRefused
  <1>8. req.body = "none" <=> Positions(tokens, DataIds) = {}
    <2>1. BodyKind = "none" <=> got.data = <<>>
      BY DEF BodyKind
    <2>2. QED
      BY <1>1, <1>3, <2>1 DEF Means, MeansData
  <1>9. req.body = "file" <=> MeantAt(tokens, FromFile) # {}
    <2>1. ChunksOf("file") # {} => got.data # <<>>
      BY DEF ChunksOf
    <2>2. BodyKind = "file" <=> ChunksOf("file") # {}
      BY <2>1 DEF BodyKind
    <2>3. QED
      BY <1>1, <1>3, <1>7, <2>2, FileMeant
  <1>10. req.tls = "insecure" <=> Has(tokens, "Insecure")
    <2>1. TlsPolicy(url) = "insecure" <=> Seen("Insecure")
      BY DEF TlsPolicy
    <2>2. QED
      BY <1>1, <1>3, <2>1 DEF Means, MeansSeen, Seen, BoolIds
  <1>11. Seen("Location") <=> Has(tokens, "Location")
    BY <1>1 DEF Means, MeansSeen, Seen, BoolIds
  <1>12. req.follow_redirects = Has(tokens, "Location")
    <2>1. Seen("Location") \in BOOLEAN /\ Has(tokens, "Location") \in BOOLEAN
      BY DEF Seen, Has
    <2>2. QED
      BY <1>3, <1>11, <2>1
  <1>13. req.proxy = {UrlOf[v] : v \in LastOf(tokens, "Proxy")}
    BY <1>1, <1>3, OptionSaid
  <1>14. req.url.path = url.path
    BY <1>1, <1>3 DEF Urls
  <1>15. RequestTrue(tokens, req)
    BY <1>4, <1>5, <1>6, <1>8, <1>9, <1>10, <1>12, <1>13 DEF RequestTrue, Has
  <1>16. QED
    BY <1>2, <1>14, <1>15

(* Lists of any length and their elements.                                 *)
IsList(list) == list \in Seq(Elems(list))

LEMMA ListElems ==
  ASSUME NEW list
  PROVE  IsList(list) <=> \E n \in Nat : list = [i \in 1 .. n |-> list[i]]
  <1>1. PICK S : S = Elems(list)
    OBVIOUS
  <1>2. ASSUME list \in Seq(S) PROVE \E n \in Nat : list = [i \in 1 .. n |-> list[i]]
    <2>1. Len(list) \in Nat /\ list = [i \in 1 .. Len(list) |-> list[i]]
      BY <1>2
    <2>2. QED
      BY <2>1
  <1>3. ASSUME NEW n \in Nat, list = [i \in 1 .. n |-> list[i]] PROVE list \in Seq(S)
    <2>1. DOMAIN list = 1 .. n
      BY <1>3
    <2>2. \A i \in 1 .. n : list[i] \in S
      BY <1>1, <2>1 DEF Elems
    <2>3. list \in [1 .. n -> S]
      BY <1>3, <2>2
    <2>4. QED
      BY <2>3
  <1>4. QED
    BY <1>1, <1>2, <1>3 DEF IsList

LEMMA JoinElems ==
  ASSUME NEW list, NEW tail, IsList(list), IsList(tail)
  PROVE  IsList(list \o tail) /\ Elems(list \o tail) = Elems(list) \cup Elems(tail)
  <1>1. PICK S, T : S = Elems(list) /\ T = Elems(tail)
    OBVIOUS
  <1>2. list \in Seq(S) /\ tail \in Seq(T)
    BY <1>1 DEF IsList
  <1>3. PICK m \in Nat, n \in Nat : /\ m = Len(list) /\ n = Len(tail)
                                    /\ DOMAIN list = 1 .. m /\ DOMAIN tail = 1 .. n
    BY <1>2
  <1>4. /\ list \o tail \in Seq(S \cup T) /\ DOMAIN (list \o tail) = 1 .. m + n
        /\ \A i \in 1 .. m : (list \o tail)[i] = list[i]
        /\ \A i \in 1 .. n : (list \o tail)[m + i] = tail[i]
    <2>1. list \in Seq(S \cup T) /\ tail \in Seq(S \cup T)
      BY <1>2
    <2>2. QED
      BY <1>3, <2>1
  <1>5. \A i \in 1 .. m + n : i \in 1 .. m \/ \E j \in 1 .. n : i = m + j
    <2>1. SUFFICES ASSUME NEW i \in 1 .. m + n, i \notin 1 .. m PROVE \E j \in 1 .. n : i = m + j
      OBVIOUS
    <2>2. i - m \in 1 .. n /\ i = m + (i - m)
      BY <2>1
    <2>3. QED
      BY <2>2
  <1>6. /\ \A i \in 1 .. m : i \in 1 .. m + n
        /\ \A i \in 1 .. n : m + i \in 1 .. m + n
    OBVIOUS
  <1>7. \A c : c \in Elems(list \o tail) <=> c \in S \cup T
    <2>1. \A c : c \in Elems(list \o tail) <=> \E i \in 1 .. m + n : c = (list \o tail)[i]
      BY <1>4 DEF Elems
    <2>2. \A c : (c \in S <=> \E i \in 1 .. m : c = list[i]) /\ (c \in T <=> \E i \in 1 .. n : c = tail[i])
      BY <1>1, <1>3 DEF Elems
    <2>3. PICK r : r = list \o tail
      OBVIOUS
    <2>4. /\ \A i \in 1 .. m : r[i] = list[i]
          /\ \A i \in 1 .. n : r[m + i] = tail[i]
          /\ \A c : c \in Elems(r) <=> \E i \in 1 .. m + n : c = r[i]
      BY <1>4, <2>1, <2>3
    <2>5. ASSUME NEW c, c \in Elems(r) PROVE c \in S \cup T
      <3>1. PICK i \in 1 .. m + n : c = r[i]
        BY <2>4, <2>5
      <3>2. CASE i \in 1 .. m
        BY <2>2, <2>4, <3>1, <3>2
      <3>3. CASE \E j \in 1 .. n : i = m + j
        BY <2>2, <2>4, <3>1, <3>3
      <3>4. QED
        BY <1>5, <3>2, <3>3
    <2>6. ASSUME NEW c, c \in S \cup T PROVE c \in Elems(r)
      <3>1. CASE c \in S
        BY <1>6, <2>2, <2>4, <3>1
      <3>2. CASE c \in T
        BY <1>6, <2>2, <2>4, <3>2
      <3>3. QED
        BY <2>6, <3>1, <3>2
    <2>7. QED
      BY <2>3, <2>5, <2>6
  <1>8. Elems(list \o tail) = S \cup T
    BY <1>7
  <1>9. QED
    BY <1>1, <1>4, <1>8 DEF IsList

LEMMA KeptList ==
  ASSUME NEW T, NEW K, NEW list \in Seq(T)
  PROVE  IsList(Kept(list, K)) /\ Elems(Kept(list, K)) = {c \in Elems(list) : c \in K}
  <1>1. PICK kept : kept = Kept(list, K)
    OBVIOUS
  <1>2. kept \in Seq(T) /\ Elems(kept) = Elems(list) \cap K
    BY <1>1, KeptElems
  <1>3. kept = [i \in 1 .. Len(kept) |-> kept[i]] /\ Len(kept) \in Nat
    BY <1>2
  <1>4. IsList(kept)
    BY <1>3, ListElems
  <1>5. QED
    BY <1>1, <1>2, <1>4

(* The files of the options that are set; each has one value at most.      *)
LEMMA LastOne ==
  ASSUME NEW items \in Seq(Tokens), NEW x
  PROVE  AtMostOne(LastOf(items, x))
  <1>1. PICK n \in Nat : n = Len(items) /\ DOMAIN items = 1 .. n
    OBVIOUS
  <1>2. \A i \in 1 .. n : AtMostOne(items[i].value)
    BY <1>1 DEF Tokens
  <1> DEFINE Lasts == {j \in DOMAIN items : items[j].id = x /\ \A k \in DOMAIN items : k > j => items[k].id # x}
  <1>3. \A i, j \in Lasts : i \in 1 .. n /\ i = j
    BY <1>1
  <1>4. LastOf(items, x) = UNION {items[i].value : i \in Lasts}
    BY DEF LastOf
  <1> HIDE DEF Lasts
  <1>5. QED
    BY <1>2, <1>3, <1>4 DEF AtMostOne

LEMMA OptionOne ==
  ASSUME NEW url, Finalising(url), NEW x \in PlainIds \cup {"Cert", "WriteOut"}
  PROVE  AtMostOne(Opt(x))
  <1>1. got \in Gathered /\ Means(got, tokens) /\ tokens \in Seq(Tokens)
    BY DEF Finalising
  <1>2. AtMostOne(LastOf(tokens, x))
    BY <1>1, LastOne
  <1>3. CASE x \in PlainIds
    <2>1. Opt(x) = LastOf(tokens, x) \ Streams(x)
      BY <1>1, <1>3 DEF Means, MeansOption, Opt
    <2>2. QED
      BY <1>2, <2>1 DEF AtMostOne
  <1>4. CASE x = "Cert"
    <2>1. Opt(x) = {CertOf[v].file : v \in LastOf(tokens, x)}
      BY <1>1, <1>4, OptionSaid
    <2>2. QED
      BY <1>2, <2>1 DEF AtMostOne
  <1>5. CASE x = "WriteOut"
    <2>1. Opt(x) = {Rest(v) : v \in {w \in LastOf(tokens, x) : w.at}}
      BY <1>1, <1>5, OptionSaid
    <2>2. QED
      BY <1>2, <2>1 DEF AtMostOne
  <1>6. QED
    BY <1>3, <1>4, <1>5

LEMMA NamedElems ==
  ASSUME NEW url, Finalising(url), NEW ids, IsList(ids), Elems(ids) \subseteq PlainIds \cup {"Cert", "WriteOut"}
  PROVE  /\ IsList(Named(ids))
         /\ Elems(Named(ids)) = UNION {Opt(id) : id \in Elems(ids)}
  <1>1. PICK set : set = Kept(ids, {id \in SingleIds : Opt(id) # {}})
    OBVIOUS
  <1>2. IsList(set) /\ Elems(set) = {id \in Elems(ids) : Opt(id) # {}}
    <2>1. Elems(ids) \subseteq SingleIds
      BY IdsAre DEF PlainIds, LastIds
    <2>2. QED
      BY <1>1, <2>1, KeptList DEF IsList
  <1>3. PICK n \in Nat : DOMAIN set = 1 .. n /\ \A i \in 1 .. n : set[i] \in Elems(set)
    <2>1. PICK n \in Nat : set = [i \in 1 .. n |-> set[i]]
      BY <1>2, ListElems
    <2>2. DOMAIN set = 1 .. n
      BY <2>1
    <2>3. QED
      BY <2>2 DEF Elems
  <1>4. PICK t : t = Named(ids)
    OBVIOUS
  <1>5. t = [i \in 1 .. n |-> CHOOSE text \in Opt(set[i]) : TRUE]
    BY <1>1, <1>3, <1>4 DEF Named
  <1>6. \A i \in 1 .. n : t[i] \in Opt(set[i]) /\ Opt(set[i]) = {t[i]}
    <2>1. SUFFICES ASSUME NEW i \in 1 .. n PROVE t[i] \in Opt(set[i]) /\ Opt(set[i]) = {t[i]}
      OBVIOUS
    <2>2. Opt(set[i]) # {} /\ AtMostOne(Opt(set[i]))
      BY <1>2, <1>3, OptionOne
    <2>3. t[i] \in Opt(set[i])
      BY <1>5, <2>2
    <2>4. QED
      BY <2>2, <2>3 DEF AtMostOne
  <1>7. \A c : c \in Elems(t) <=> \E i \in 1 .. n : c = t[i]
    BY <1>5 DEF Elems
  <1>8. \A id \in Elems(set) : \E i \in 1 .. n : id = set[i]
    BY <1>3 DEF Elems
  <1>9. \A c : c \in Elems(t) <=> \E id \in Elems(ids) : c \in Opt(id)
    BY <1>2, <1>3, <1>6, <1>7, <1>8
  <1>10. IsList(t)
    <2>1. t = [i \in 1 .. n |-> t[i]]
      BY <1>5
    <2>2. QED
      BY <2>1, ListElems
  <1>11. QED
    BY <1>4, <1>9, <1>10

(* What is read of a list of texts.                                        *)
LEMMA ReadElems ==
  ASSUME NEW texts, IsList(texts)
  PROVE  /\ IsList(Reads(texts))
         /\ Elems(Reads(texts)) = {File("read", PathOf[v], FALSE) : v \in Elems(texts)}
  <1>1. PICK n \in Nat : DOMAIN texts = 1 .. n
    BY ListElems
  <1>2. PICK t : t = Reads(texts)
    OBVIOUS
  <1>3. t = [i \in 1 .. n |-> File("read", PathOf[texts[i]], FALSE)] /\ t = [i \in 1 .. n |-> t[i]]
    BY <1>1, <1>2 DEF Reads
  <1>4. \A c : c \in Elems(t) <=> \E i \in 1 .. n : c = t[i]
    BY <1>3 DEF Elems
  <1>5. \A v : v \in Elems(texts) <=> \E i \in 1 .. n : v = texts[i]
    BY <1>1 DEF Elems
  <1> DEFINE F(v) == File("read", PathOf[v], FALSE)
  <1>6. \A i \in 1 .. n : t[i] = F(texts[i])
    BY <1>3
  <1> HIDE DEF F
  <1>7. \A c : c \in Elems(t) <=> \E v \in Elems(texts) : c = F(v)
    <2>1. ASSUME NEW c, c \in Elems(t) PROVE \E v \in Elems(texts) : c = F(v)
      BY <1>4, <1>5, <1>6, <2>1
    <2>2. ASSUME NEW v \in Elems(texts) PROVE F(v) \in Elems(t)
      BY <1>4, <1>5, <1>6
    <2>3. QED
      BY <2>1, <2>2
  <1>8. IsList(t)
    BY <1>3, ListElems
  <1>9. Elems(t) = {File("read", PathOf[v], FALSE) : v \in Elems(texts)}
    BY <1>7 DEF F
  <1>10. QED
    BY <1>2, <1>8, <1>9

LEMMA WriteElems ==
  ASSUME NEW ids, IsList(Named(ids))
  PROVE  /\ IsList(Writes(ids))
         /\ Elems(Writes(ids)) = {File("write", PathOf[v], TRUE) : v \in Elems(Named(ids))}
  <1>0. PICK texts : texts = Named(ids)
    OBVIOUS
  <1>1. PICK n \in Nat : DOMAIN texts = 1 .. n
    BY <1>0, ListElems
  <1>2. PICK t : t = Writes(ids)
    OBVIOUS
  <1>3. t = [i \in 1 .. n |-> File("write", PathOf[texts[i]], TRUE)] /\ t = [i \in 1 .. n |-> t[i]]
    BY <1>0, <1>1, <1>2 DEF Writes
  <1>4. \A c : c \in Elems(t) <=> \E i \in 1 .. n : c = t[i]
    BY <1>3 DEF Elems
  <1>5. \A v : v \in Elems(texts) <=> \E i \in 1 .. n : v = texts[i]
    BY <1>1 DEF Elems
  <1> DEFINE F(v) == File("write", PathOf[v], TRUE)
  <1>6. \A i \in 1 .. n : t[i] = F(texts[i])
    BY <1>3
  <1> HIDE DEF F
  <1>7. \A c : c \in Elems(t) <=> \E v \in Elems(texts) : c = F(v)
    <2>1. ASSUME NEW c, c \in Elems(t) PROVE \E v \in Elems(texts) : c = F(v)
      BY <1>4, <1>5, <1>6, <2>1
    <2>2. ASSUME NEW v \in Elems(texts) PROVE F(v) \in Elems(t)
      BY <1>4, <1>5, <1>6
    <2>3. QED
      BY <2>1, <2>2
  <1>8. IsList(t)
    BY <1>3, ListElems
  <1>9. Elems(t) = {File("write", PathOf[v], TRUE) : v \in Elems(texts)}
    BY <1>7 DEF F
  <1>10. QED
    BY <1>0, <1>2, <1>8, <1>9

LEMMA DataRead ==
  ASSUME NEW url, Finalising(url)
  PROVE  LET bodies == Kept(got.data, {got.data[i] : i \in ChunksOf("file")})
             texts == [i \in DOMAIN bodies |-> bodies[i].value]
         IN  IsList(texts) /\ Elems(texts) = {Rest(v) : v \in MeantAt(tokens, FromFile)}
  <1>1. PICK bodies : bodies = Kept(got.data, {got.data[i] : i \in ChunksOf("file")})
    OBVIOUS
  <1>2. PICK texts : texts = [i \in DOMAIN bodies |-> bodies[i].value]
    OBVIOUS
  <1>3. got.data \in Seq(Chunks) /\ got \in Gathered /\ Means(got, tokens) /\ ChunksOf("stdin") = {}
    BY NothingRefused DEF Finalising, Gathered
  <1>4. \A c \in Elems(got.data) : c \in {got.data[i] : i \in ChunksOf("file")} <=> c.kind = "file"
    BY DEF ChunksOf, Elems
  <1>5. IsList(bodies) /\ Elems(bodies) = {c \in Elems(got.data) : c.kind = "file"}
    <2>1. IsList(bodies) /\ Elems(bodies) = {c \in Elems(got.data) : c \in {got.data[i] : i \in ChunksOf("file")}}
      BY <1>1, <1>3, KeptList
    <2>2. QED
      BY <1>4, <2>1
  <1>6. IsList(texts) /\ Elems(texts) = {c.value : c \in Elems(bodies)}
    <2>1. PICK n \in Nat : DOMAIN bodies = 1 .. n
      BY <1>5, ListElems
    <2>2. IsList(texts)
      <3>1. texts = [i \in 1 .. n |-> texts[i]]
        BY <1>2, <2>1
      <3>2. QED
        BY <3>1, ListElems
    <2>3. Elems(texts) = {c.value : c \in Elems(bodies)}
      BY <1>2 DEF Elems
    <2>4. QED
      BY <2>2, <2>3
  <1>7. \A c : c \in Elems(got.data) <=> \E id \in DataIds : \E v \in Values(tokens, id) : c = Chunk(id, v)
    BY <1>3 DEF Means, MeansData, ChunksSaid
  <1>8. AtDash \notin MeantAt(tokens, FromFile)
    BY <1>3, FileMeant
  <1>9. ASSUME NEW id \in DataIds, NEW v \in Values(tokens, id)
        PROVE  /\ Chunk(id, v).kind = "file" <=> id \in FromFile /\ v.at
               /\ Chunk(id, v).value = Rest(v)
    <2>1. id \in FromFile <=> id # "DataRaw"
      BY DEF FromFile
    <2>2. id \in FromFile /\ v.at => v # AtDash
      BY <1>8 DEF MeantAt
    <2>3. QED
      BY <2>1, <2>2 DEF Chunk
  <1>10. ASSUME NEW w, w \in Elems(texts) PROVE w \in {Rest(v) : v \in MeantAt(tokens, FromFile)}
    <2>1. PICK c \in Elems(got.data) : c.kind = "file" /\ w = c.value
      BY <1>5, <1>6, <1>10
    <2>2. PICK id \in DataIds : \E v \in Values(tokens, id) : c = Chunk(id, v)
      BY <1>7
    <2>3. PICK v \in Values(tokens, id) : c = Chunk(id, v)
      BY <2>2
    <2>4. id \in FromFile /\ v.at /\ w = Rest(v)
      BY <1>9, <2>1, <2>3
    <2>5. v \in MeantAt(tokens, FromFile)
      BY <2>3, <2>4 DEF MeantAt
    <2>6. QED
      BY <2>4, <2>5
  <1>11. ASSUME NEW v \in MeantAt(tokens, FromFile) PROVE Rest(v) \in Elems(texts)
    <2>1. PICK id \in FromFile : v \in Values(tokens, id) /\ v.at
      BY DEF MeantAt
    <2>2. id \in DataIds
      BY DEF FromFile
    <2>3. Chunk(id, v).kind = "file" /\ Chunk(id, v).value = Rest(v)
      BY <1>9, <2>1, <2>2
    <2>4. Chunk(id, v) \in Elems(got.data)
      BY <1>7, <2>1, <2>2
    <2>5. QED
      BY <1>5, <1>6, <2>3, <2>4
  <1>12. QED
    BY <1>1, <1>2, <1>6, <1>10, <1>11

LEMMA CookiesRead ==
  ASSUME NEW url, Finalising(url)
  PROVE  LET cookies == Kept(got.cookies, {v \in Texts : v.at})
             texts == [i \in DOMAIN cookies |-> Rest(cookies[i])]
         IN  IsList(texts) /\ Elems(texts) = {Rest(v) : v \in MeantAt(tokens, {"Cookie"})}
  <1>1. PICK cookies : cookies = Kept(got.cookies, {v \in Texts : v.at})
    OBVIOUS
  <1>2. PICK texts : texts = [i \in DOMAIN cookies |-> Rest(cookies[i])]
    OBVIOUS
  <1>3. got.cookies \in Seq(Texts) /\ Elems(got.cookies) = Values(tokens, "Cookie")
    BY DEF Finalising, Gathered, Means, MeansLists
  <1>4. Elems(got.cookies) \subseteq Texts
    BY <1>3 DEF Elems
  <1>5. IsList(cookies) /\ Elems(cookies) = {v \in Elems(got.cookies) : v.at}
    <2>1. PICK K : K = {v \in Texts : v.at}
      OBVIOUS
    <2>2. IsList(cookies) /\ Elems(cookies) = {v \in Elems(got.cookies) : v \in K}
      BY <1>1, <1>3, <2>1, KeptList
    <2>3. QED
      BY <1>4, <2>1, <2>2
  <1>6. Elems(cookies) = MeantAt(tokens, {"Cookie"})
    BY <1>3, <1>5 DEF MeantAt
  <1>7. IsList(texts) /\ Elems(texts) = {Rest(v) : v \in Elems(cookies)}
    <2>1. PICK n \in Nat : DOMAIN cookies = 1 .. n
      BY <1>5, ListElems
    <2>2. IsList(texts)
      <3>1. texts = [i \in 1 .. n |-> texts[i]]
        BY <1>2, <2>1
      <3>2. QED
        BY <3>1, ListElems
    <2>3. Elems(texts) = {Rest(v) : v \in Elems(cookies)}
      BY <1>2 DEF Elems
    <2>4. QED
      BY <2>2, <2>3
  <1>8. QED
    BY <1>1, <1>2, <1>6, <1>7

(* Where the response goes is one place at most.                           *)
LEMMA OutputShown ==
  ASSUME NEW url, Finalising(url)
  PROVE  /\ IsList(FileWrites(url))
         /\ Elems(FileWrites(url)) =
              {File("write", target, ~Has(tokens, "NoClobber")) : target \in MeantOutput(tokens)}
  <1>1. Means(got, tokens) /\ got \in Gathered /\ tokens \in Seq(Tokens) /\ url \in Urls
    BY DEF Finalising, Gathered
  <1>2. PICK raw : raw = IF Opt("Output") # {} THEN {PathOf[text] : text \in Opt("Output")}
                         ELSE IF Seen("RemoteName") \/ Seen("RemoteHeaderName")
                         THEN {[absolute |-> FALSE, parts |-> <<LastSegment(url.path)>>]} ELSE {}
    OBVIOUS
  <1>3. PICK dir : dir = {PathOf[text] : text \in Opt("OutputDir")}
    OBVIOUS
  <1> DEFINE Under(d, q) == [absolute |-> d.absolute, parts |-> d.parts \o q.parts]
             places == {q \in raw : q.absolute \/ dir = {}} \cup {Under(d, q) : d \in dir, q \in {r \in raw : ~r.absolute}}
  <1> DEFINE place == CHOOSE q \in places : TRUE
  <1>4. FileWrites(url) = IF raw = {} THEN <<>> ELSE <<File("write", place, ~Seen("NoClobber"))>>
    BY <1>2, <1>3 DEF FileWrites
  <1>5. places # {} => place \in places
    <2>1. \A S : S # {} => (CHOOSE q \in S : TRUE) \in S
      OBVIOUS
    <2> HIDE DEF places
    <2>2. QED
      BY <2>1
  <1> HIDE DEF place
  <1>6. AtMostOne(Opt("Output")) /\ AtMostOne(Opt("OutputDir"))
    BY OptionOne DEF PlainIds, LastIds
  <1>7. AtMostOne(raw) /\ AtMostOne(dir)
    BY <1>2, <1>3, <1>6 DEF AtMostOne
  <1>8. Opt("Output") = LastOf(tokens, "Output") /\ Opt("OutputDir") = LastOf(tokens, "OutputDir")
    BY <1>1, OptionSaid
  <1>9. Opt("Output") # {} <=> Has(tokens, "Output")
    BY <1>1, <1>8, OptionSaid DEF LastIds
  <1>10. dir # {} <=> Has(tokens, "OutputDir")
    <2>1. Opt("OutputDir") # {} <=> Has(tokens, "OutputDir")
      BY <1>1, <1>8, OptionSaid DEF LastIds
    <2>2. QED
      BY <1>3, <2>1
  <1>11. \A x \in {"RemoteName", "RemoteHeaderName", "NoClobber"} : Seen(x) <=> Has(tokens, x)
    BY <1>1 DEF Means, MeansSeen, Seen, BoolIds
  <1>12. {SavedAs(UrlOf[v].path) : v \in Values(tokens, "positional")} = {LastSegment(url.path)}
    <2>1. {url} = {UrlOf[v] : v \in Values(tokens, "positional")}
      BY <1>1, NothingRefused DEF Means, MeansUrl
    <2>2. \A segments : SavedAs(segments) = LastSegment(segments)
      BY Zenon DEF SavedAs, LastSegment
    <2>3. QED
      BY <2>1, <2>2
  <1> DEFINE targets == IF Has(tokens, "Output") THEN {PathOf[v] : v \in LastOf(tokens, "Output")}
                 ELSE IF Has(tokens, "RemoteName") \/ Has(tokens, "RemoteHeaderName")
                 THEN {[absolute |-> FALSE, parts |-> <<name>>] :
                         name \in {SavedAs(UrlOf[v].path) : v \in Values(tokens, "positional")}} ELSE {}
             Placed(t) == IF t.absolute \/ ~Has(tokens, "OutputDir") THEN {t}
                          ELSE {[absolute |-> d.absolute, parts |-> d.parts \o t.parts] :
                                  d \in {PathOf[v] : v \in LastOf(tokens, "OutputDir")}}
  <1>13. MeantOutput(tokens) = UNION {Placed(t) : t \in targets}
    BY Zenon DEF MeantOutput
  <1>14. targets = raw
    BY <1>2, <1>8, <1>9, <1>11, <1>12
  <1>15. \A t : Placed(t) = IF t.absolute \/ dir = {} THEN {t} ELSE {Under(d, t) : d \in dir}
    BY <1>3, <1>8, <1>10
  <1> HIDE DEF targets, Placed, Under
  <1>16. MeantOutput(tokens) = places
    BY <1>13, <1>14, <1>15
  <1>17. AtMostOne(places) /\ (raw = {} <=> places = {})
    BY <1>7 DEF AtMostOne
  <1> HIDE DEF places
  <1>18. Seen("NoClobber") = Has(tokens, "NoClobber")
    <2>1. Seen("NoClobber") \in BOOLEAN /\ Has(tokens, "NoClobber") \in BOOLEAN
      BY DEF Seen, Has
    <2>2. QED
      BY <1>11, <2>1
  <1>19. CASE raw = {}
    <2>1. FileWrites(url) = <<>> /\ MeantOutput(tokens) = {}
      BY <1>4, <1>16, <1>17, <1>19
    <2>2. IsList(<<>>) /\ Elems(<<>>) = {}
      BY DEF IsList, Elems
    <2>3. QED
      BY <2>1, <2>2
  <1>20. CASE raw # {}
    <2>1. places = {place}
      BY <1>5, <1>17, <1>20 DEF AtMostOne
    <2>2. PICK file : file = File("write", place, ~Has(tokens, "NoClobber"))
      OBVIOUS
    <2>3. FileWrites(url) = <<file>>
      BY <1>4, <1>18, <1>20, <2>2
    <2>4. IsList(<<file>>) /\ Elems(<<file>>) = {file}
      BY DEF IsList, Elems
    <2>5. QED
      BY <1>16, <2>1, <2>2, <2>3, <2>4
  <1>21. QED
    BY <1>19, <1>20

LEMMA FilesShown ==
  ASSUME NEW url, Finalising(url)
  PROVE  FilesTrue(tokens, CommandFor(url))
  <1>1. Means(got, tokens) /\ got \in Gathered
    BY DEF Finalising
  <1> DEFINE Read(texts) == {File("read", PathOf[v], FALSE) : v \in texts}
             Written(texts) == {File("write", PathOf[v], TRUE) : v \in texts}
  <1>2. PICK a : IsList(a) /\ Elems(a) = Read({Rest(v) : v \in MeantAt(tokens, FromFile)})
                 /\ LET bodies == Kept(got.data, {got.data[i] : i \in ChunksOf("file")})
                    IN  a = Reads([i \in DOMAIN bodies |-> bodies[i].value])
    BY DataRead, ReadElems
  <1>3. PICK b : IsList(b) /\ Elems(b) = Read({Rest(v) : v \in MeantAt(tokens, {"Cookie"})})
                 /\ LET cookies == Kept(got.cookies, {v \in Texts : v.at})
                    IN  b = Reads([i \in DOMAIN cookies |-> Rest(cookies[i])])
    BY CookiesRead, ReadElems
  <1>4. /\ IsList(<<"UploadFile", "Cert", "Key", "Pubkey">>)
        /\ Elems(<<"UploadFile", "Cert", "Key", "Pubkey">>) = {"UploadFile", "Cert", "Key", "Pubkey"}
    BY DEF IsList, Elems
  <1>5. /\ IsList(<<"CookieJar", "DumpHeader", "Trace", "TraceAscii", "EtagSave">>)
        /\ Elems(<<"CookieJar", "DumpHeader", "Trace", "TraceAscii", "EtagSave">>) =
             {"CookieJar", "DumpHeader", "Trace", "TraceAscii", "EtagSave"}
    BY DEF IsList, Elems
  <1>6. /\ IsList(<<"EtagCompare", "WriteOut">>)
        /\ Elems(<<"EtagCompare", "WriteOut">>) = {"EtagCompare", "WriteOut"}
    BY DEF IsList, Elems
  <1>7. {"UploadFile", "Cert", "Key", "Pubkey", "EtagCompare", "WriteOut"} \cup
        {"CookieJar", "DumpHeader", "Trace", "TraceAscii", "EtagSave"} \subseteq PlainIds \cup {"Cert", "WriteOut"}
    BY DEF PlainIds, LastIds
  <1>8. PICK c : /\ IsList(c) /\ c = Reads(Named(<<"UploadFile", "Cert", "Key", "Pubkey">>))
                 /\ Elems(c) = Read(UNION {Opt(id) : id \in {"UploadFile", "Cert", "Key", "Pubkey"}})
    BY <1>4, <1>7, NamedElems, ReadElems
  <1>9. PICK d : /\ IsList(d) /\ d = Writes(<<"CookieJar", "DumpHeader", "Trace", "TraceAscii", "EtagSave">>)
                 /\ Elems(d) = Written(UNION {Opt(id) : id \in {"CookieJar", "DumpHeader", "Trace", "TraceAscii", "EtagSave"}})
    BY <1>5, <1>7, NamedElems, WriteElems
  <1>10. PICK e : /\ IsList(e) /\ e = Reads(Named(<<"EtagCompare", "WriteOut">>))
                  /\ Elems(e) = Read(UNION {Opt(id) : id \in {"EtagCompare", "WriteOut"}})
    BY <1>6, <1>7, NamedElems, ReadElems
  <1>11. PICK f : f = FileWrites(url) /\ IsList(f) /\
           Elems(f) = {File("write", target, ~Has(tokens, "NoClobber")) : target \in MeantOutput(tokens)}
    BY OutputShown
  <1>12. FilesOf(url) = a \o c \o b \o d \o e \o f
    BY <1>2, <1>3, <1>8, <1>9, <1>10, <1>11 DEF FilesOf
  <1>13. Elems(a \o c \o b \o d \o e \o f) =
           Elems(a) \cup Elems(c) \cup Elems(b) \cup Elems(d) \cup Elems(e) \cup Elems(f)
    <2>1. IsList(a \o c) /\ Elems(a \o c) = Elems(a) \cup Elems(c)
      BY <1>2, <1>8, JoinElems
    <2>2. PICK ac : ac = a \o c
      OBVIOUS
    <2>3. IsList(ac \o b) /\ Elems(ac \o b) = Elems(ac) \cup Elems(b)
      BY <1>3, <2>1, <2>2, JoinElems
    <2>4. PICK acb : acb = ac \o b
      OBVIOUS
    <2>5. IsList(acb \o d) /\ Elems(acb \o d) = Elems(acb) \cup Elems(d)
      BY <1>9, <2>3, <2>4, JoinElems
    <2>6. PICK acbd : acbd = acb \o d
      OBVIOUS
    <2>7. IsList(acbd \o e) /\ Elems(acbd \o e) = Elems(acbd) \cup Elems(e)
      BY <1>10, <2>5, <2>6, JoinElems
    <2>8. PICK acbde : acbde = acbd \o e
      OBVIOUS
    <2>9. Elems(acbde \o f) = Elems(acbde) \cup Elems(f)
      BY <1>11, <2>7, <2>8, JoinElems
    <2>10. QED
      BY <2>1, <2>2, <2>3, <2>4, <2>5, <2>6, <2>7, <2>8, <2>9
  <1>14. MeantReads(tokens) =
           {Rest(v) : v \in MeantAt(tokens, FromFile)} \cup {Rest(v) : v \in MeantAt(tokens, {"Cookie"})}
           \cup (UNION {Opt(id) : id \in {"UploadFile", "Cert", "Key", "Pubkey"}})
           \cup (UNION {Opt(id) : id \in {"EtagCompare", "WriteOut"}})
    <2>1. MeantAt(tokens, FromFile \cup {"Cookie"}) = MeantAt(tokens, FromFile) \cup MeantAt(tokens, {"Cookie"})
      BY DEF MeantAt
    <2>2. UNION {LastOf(tokens, id) : id \in {"UploadFile", "Key", "Pubkey", "EtagCompare"}} =
            Opt("UploadFile") \cup Opt("Key") \cup Opt("Pubkey") \cup Opt("EtagCompare")
      BY <1>1, OptionSaid
    <2>3. /\ {CertOf[v].file : v \in LastOf(tokens, "Cert")} = Opt("Cert")
          /\ {Rest(v) : v \in {w \in LastOf(tokens, "WriteOut") : w.at}} = Opt("WriteOut")
      BY <1>1, OptionSaid
    <2>4. /\ UNION {Opt(id) : id \in {"UploadFile", "Cert", "Key", "Pubkey"}} =
               Opt("UploadFile") \cup Opt("Cert") \cup Opt("Key") \cup Opt("Pubkey")
          /\ UNION {Opt(id) : id \in {"EtagCompare", "WriteOut"}} = Opt("EtagCompare") \cup Opt("WriteOut")
      OBVIOUS
    <2>5. PICK X : X = {Rest(v) : v \in MeantAt(tokens, FromFile)}
      OBVIOUS
    <2>6. PICK Y : Y = {Rest(v) : v \in MeantAt(tokens, {"Cookie"})}
      OBVIOUS
    <2>7. {Rest(v) : v \in MeantAt(tokens, FromFile \cup {"Cookie"})} = X \cup Y
      BY <2>1, <2>5, <2>6
    <2>8. MeantReads(tokens) = X \cup Y \cup Opt("WriteOut") \cup Opt("Cert")
            \cup (Opt("UploadFile") \cup Opt("Key") \cup Opt("Pubkey") \cup Opt("EtagCompare"))
      BY <2>2, <2>3, <2>7 DEF MeantReads
    <2>9. QED
      BY <2>4, <2>5, <2>6, <2>8
  <1>15. MeantSideWrites(tokens) =
           UNION {Opt(id) : id \in {"CookieJar", "DumpHeader", "Trace", "TraceAscii", "EtagSave"}}
    BY <1>1, OptionSaid DEF MeantSideWrites
  <1>16. PICK command : command = CommandFor(url)
    OBVIOUS
  <1>17. command.files = FilesOf(url)
    BY <1>16 DEF CommandFor
  <1>18. {command.files[i] : i \in DOMAIN command.files} = Elems(FilesOf(url))
    BY <1>17 DEF Elems
  <1>19. PICK A, B, C, D, E :
           /\ A = {Rest(v) : v \in MeantAt(tokens, FromFile)}
           /\ B = {Rest(v) : v \in MeantAt(tokens, {"Cookie"})}
           /\ C = UNION {Opt(id) : id \in {"UploadFile", "Cert", "Key", "Pubkey"}}
           /\ D = MeantSideWrites(tokens)
           /\ E = UNION {Opt(id) : id \in {"EtagCompare", "WriteOut"}}
    OBVIOUS
  <1>20. MeantReads(tokens) = A \cup B \cup C \cup E
    BY <1>14, <1>19
  <1>21. /\ Elems(a) = Read(A) /\ Elems(b) = Read(B) /\ Elems(c) = Read(C)
         /\ Elems(d) = Written(D) /\ Elems(e) = Read(E)
    BY <1>2, <1>3, <1>8, <1>9, <1>10, <1>15, <1>19
  <1>22. FilesTrue(tokens, command) <=>
           {command.files[i] : i \in DOMAIN command.files} =
             Read(MeantReads(tokens)) \cup Written(MeantSideWrites(tokens))
             \cup {File("write", target, ~Has(tokens, "NoClobber")) : target \in MeantOutput(tokens)}
    BY DEF FilesTrue
  <1>23. \A M : M = A \cup B \cup C \cup E => Read(M) = Read(A) \cup Read(B) \cup Read(C) \cup Read(E)
    OBVIOUS
  <1> HIDE DEF Read, Written
  <1>24. {command.files[i] : i \in DOMAIN command.files} =
           Read(A) \cup Read(C) \cup Read(B) \cup Written(D) \cup Read(E) \cup Elems(f)
    BY <1>12, <1>13, <1>18, <1>21
  <1>25. PICK M : M = MeantReads(tokens)
    OBVIOUS
  <1>26. PICK R : R = Read(M)
    OBVIOUS
  <1>27. PICK W : W = Written(D)
    OBVIOUS
  <1>28. PICK O : O = {File("write", target, ~Has(tokens, "NoClobber")) : target \in MeantOutput(tokens)}
    OBVIOUS
  <1>29. {command.files[i] : i \in DOMAIN command.files} = R \cup W \cup O
    BY <1>11, <1>20, <1>23, <1>24, <1>25, <1>26, <1>27, <1>28
  <1>30. FilesTrue(tokens, command)
    BY <1>19, <1>22, <1>25, <1>26, <1>27, <1>28, <1>29
  <1>31. QED
    BY <1>16, <1>30

LEMMA NothingLeftOut ==
  ASSUME NEW url, Finalising(url)
  PROVE  NothingHidden(tokens, CommandFor(url))
  <1>1. Means(got, tokens) /\ got \in Gathered
    BY DEF Finalising
  <1>2. PICK command : command = CommandFor(url)
    OBVIOUS
  <1>3. command.extras = Extras /\ command.http.auth = DeriveAuth
    BY <1>2 DEF CommandFor
  <1>4. PICK made : command.signals = FlagSignals \cup Analyze(made)
    BY <1>2 DEF CommandFor
  <1>5. "ClientCertificate" \notin Analyze(made) /\ "ResolveOverride" \notin Analyze(made)
    BY GenericSignals DEF HttpKinds, FileKinds
  <1>6. "unknown_flags" \in Extras <=> got.unknown # <<>>
    BY DEF Extras
  <1>7. /\ "ClientCertificate" \in FlagSignals <=> Opt("Cert") # {} \/ Opt("Key") # {}
        /\ "ResolveOverride" \in FlagSignals <=> got.resolve # <<>>
    BY DEF FlagSignals
  <1>8. (got.unknown # <<>> <=> Has(tokens, "unknown")) /\ (got.resolve # <<>> <=> Has(tokens, "Resolve"))
    BY <1>1 DEF Means, MeansLists
  <1>9. /\ Opt("Key") # {} <=> Has(tokens, "Key")
        /\ Opt("User") # {} <=> Has(tokens, "User")
    BY <1>1, OptionSaid DEF LastIds
  <1>10. Opt("Cert") # {} <=> Has(tokens, "Cert")
    <2>1. Opt("Cert") # {} <=> LastOf(tokens, "Cert") # {}
      BY <1>1, OptionSaid
    <2>2. QED
      BY <1>1, <2>1, OptionSaid DEF LastIds
  <1>11. Has(tokens, "User") => DeriveAuth = "basic"
    BY <1>9 DEF DeriveAuth
  <1>12. \A x : Has(tokens, x) \in BOOLEAN
    BY DEF Has
  <1>13. /\ ("unknown_flags" \in command.extras) = Has(tokens, "unknown")
         /\ ("ClientCertificate" \in command.signals) = (Has(tokens, "Cert") \/ Has(tokens, "Key"))
         /\ ("ResolveOverride" \in command.signals) = Has(tokens, "Resolve")
    BY <1>3, <1>4, <1>5, <1>6, <1>7, <1>8, <1>9, <1>10, <1>12
  <1>14. QED
    BY <1>2, <1>3, <1>11, <1>13 DEF NothingHidden

-----------------------------------------------------------------------------
(* All the steps.                                                          *)

Shown(parsed) ==
  /\ ~CannotBeShown(tokens)
  /\ RequestTrue(tokens, parsed.http) /\ FilesTrue(tokens, parsed) /\ NothingHidden(tokens, parsed)
  /\ parsed.http.url.path \in Seq(STRING)

ParsedTypes ==
  /\ setup \in Setups /\ words \in Seq(Words) /\ at \in Nat \ {0}
  /\ tokens \in Seq(Tokens) /\ got \in Gathered

(* While tokens are absorbed, what is known is what those before the next  *)
(* one mean; and a command there is only once all of them are.             *)
ReadTrue ==
  /\ stage \in {"idle", "tokenise"} => got = NothingYet
  /\ stage = "absorb" => at <= Len(tokens) + 1 /\ Means(got, SubSeq(tokens, 1, at - 1))
  /\ outcome.parsed # {} => stage = "done"
  /\ \A parsed \in outcome.parsed : Shown(parsed)

ParserInv == ParsedTypes /\ ReadTrue

LEMMA ParserInitInv == AdmissionInit => ParserInv
  <1> SUFFICES ASSUME AdmissionInit PROVE ParserInv
    OBVIOUS
  <1>1. words = <<>> /\ tokens = <<>> /\ at = 1 /\ got = NothingYet /\ stage = "idle" /\ outcome.parsed = {}
    BY DEF AdmissionInit, ParserInit
  <1>2. setup \in Setups
    BY DEF AdmissionInit
  <1>3. QED
    BY <1>1, <1>2, NothingMeans DEF ParserInv, ParsedTypes, ReadTrue

LEMMA TokeniseInv ==
  ASSUME ParserInv, setup' = setup, TokeniseWord
  PROVE  ParserInv'
  <1>1. ReadsOn
    BY WordsReadOn DEF ParserInv, ParsedTypes
  <1>2. stage = "tokenise" /\ outcome.parsed = {} /\ got' = NothingYet
    BY <1>1 DEF TokeniseWord, ParserInv, ReadTrue, ReadsOn
  <1>3. outcome'.parsed = {} /\ stage' \in {"tokenise", "done"}
    BY <1>1, <1>2 DEF ReadsOn
  <1>4. QED
    BY <1>1, <1>2, <1>3 DEF ParserInv, ParsedTypes, ReadTrue, ReadsOn

LEMMA TokenisedInv ==
  ASSUME ParserInv, setup' = setup, Tokenised
  PROVE  ParserInv'
  <1>1. /\ stage' = "absorb" /\ at' = 1 /\ tokens' = tokens /\ got' = got /\ words' = words
        /\ got = NothingYet /\ outcome'.parsed = {}
    BY DEF Tokenised, ParserInv, ReadTrue
  <1>2. tokens \in Seq(Tokens) /\ Len(tokens) \in Nat /\ SubSeq(tokens, 1, 1 - 1) = <<>>
    BY SubSeqEmpty DEF ParserInv, ParsedTypes
  <1>3. at' <= Len(tokens') + 1 /\ Means(got', SubSeq(tokens', 1, at' - 1))
    <2>1. 1 <= Len(tokens) + 1
      BY <1>2
    <2>2. SubSeq(tokens', 1, at' - 1) = <<>>
      BY <1>1, <1>2
    <2>3. Means(got', SubSeq(tokens', 1, at' - 1))
      BY <1>1, <2>2, NothingMeans
    <2>4. QED
      BY <1>1, <2>1, <2>3
  <1>4. QED
    BY <1>1, <1>3 DEF ParserInv, ParsedTypes, ReadTrue

LEMMA AbsorbInv ==
  ASSUME ParserInv, setup' = setup, AbsorbToken
  PROVE  ParserInv'
  <1>1. stage = "absorb" /\ outcome.parsed = {} /\ Means(got, SubSeq(tokens, 1, at - 1))
    BY DEF AbsorbToken, ParserInv, ReadTrue
  <1>2. tokens \in Seq(Tokens) /\ at \in Nat \ {0} /\ got \in Gathered
    BY DEF ParserInv, ParsedTypes
  <1>3. /\ UNCHANGED <<words, tokens>>
        /\ \/ /\ at' = at + 1 /\ at <= Len(tokens) /\ UNCHANGED <<stage, outcome>>
              /\ got' \in Gathered /\ Means(got', SubSeq(tokens, 1, at))
           \/ stage' = "done" /\ outcome'.parsed = {} /\ UNCHANGED <<got, at>>
    BY <1>1, <1>2, AbsorbMeans
  <1>4. CASE /\ at' = at + 1 /\ at <= Len(tokens) /\ UNCHANGED <<stage, outcome>>
             /\ got' \in Gathered /\ Means(got', SubSeq(tokens, 1, at))
    <2>1. at' - 1 = at /\ at' \in Nat \ {0} /\ at' <= Len(tokens) + 1
      BY <1>2, <1>4
    <2>2. tokens' = tokens /\ words' = words /\ stage' = "absorb" /\ outcome'.parsed = {}
      BY <1>1, <1>3, <1>4
    <2>3. Means(got', SubSeq(tokens', 1, at' - 1))
      BY <1>4, <2>1, <2>2
    <2>4. QED
      BY <1>4, <2>1, <2>2, <2>3 DEF ParserInv, ParsedTypes, ReadTrue
  <1>5. CASE stage' = "done" /\ outcome'.parsed = {} /\ UNCHANGED <<got, at>>
    BY <1>3, <1>5 DEF ParserInv, ParsedTypes, ReadTrue
  <1>6. QED
    BY <1>3, <1>4, <1>5

LEMMA FinaliseInv ==
  ASSUME ParserInv, setup' = setup, Finalise
  PROVE  ParserInv'
  <1>1. stage = "absorb" /\ at > Len(tokens)
    BY DEF Finalise
  <1>2. tokens \in Seq(Tokens) /\ at \in Nat \ {0} /\ got \in Gathered
    BY DEF ParserInv, ParsedTypes
  <1>3. Means(got, tokens)
    <2>1. at - 1 = Len(tokens) /\ SubSeq(tokens, 1, Len(tokens)) = tokens
      BY <1>1, <1>2, SubSeqFull DEF ParserInv, ReadTrue
    <2>2. QED
      BY <1>1, <2>1 DEF ParserInv, ReadTrue
  <1>4. UNCHANGED <<words, at, tokens, got>> /\ stage' = "done"
    BY DEF Finalise, Refuse
  <1>5. CASE FinaliseError # NoError
    <2>1. outcome'.parsed = {}
      BY <1>5 DEF Finalise, Refuse
    <2>2. QED
      BY <1>4, <2>1 DEF ParserInv, ParsedTypes, ReadTrue
  <1>6. CASE FinaliseError = NoError
    <2>1. PICK url \in got.url : outcome' = [error |-> NoError, parsed |-> {CommandFor(url)}]
      BY <1>6 DEF Finalise
    <2>2. Finalising(url)
      BY <1>2, <1>3, <1>6 DEF Finalising
    <2>3. PICK command : command = CommandFor(url)
      OBVIOUS
    <2>4. outcome'.parsed = {command}
      BY <2>1, <2>3
    <2>5. ~CannotBeShown(tokens) /\ NothingHidden(tokens, command) /\ FilesTrue(tokens, command)
      BY <2>2, <2>3, CanBeShown, NothingLeftOut, FilesShown
    <2>6. RequestTrue(tokens, command.http) /\ command.http.url.path = url.path
      BY <2>2, <2>3, RequestShown
    <2>7. url.path \in Seq(STRING)
      BY <1>2 DEF Gathered, Urls
    <2>8. Shown(command)
      BY <2>5, <2>6, <2>7 DEF Shown
    <2>9. Shown(command)'
      BY <1>4, <2>8 DEF Shown
    <2>10. QED
      BY <1>4, <2>4, <2>9 DEF ParserInv, ParsedTypes, ReadTrue
  <1>7. QED
    BY <1>5, <1>6

LEMMA ParserStepInv ==
  ASSUME ParserInv, setup' = setup, ParserStep \/ StartParse(setup.argv) \/ UNCHANGED parserVars
  PROVE  ParserInv'
  <1>1. CASE StartParse(setup.argv)
    <2>1. /\ words' = setup.argv /\ at' = 1 /\ tokens' = <<>> /\ got' = NothingYet
          /\ stage' = "tokenise" /\ outcome'.parsed = {}
      BY <1>1 DEF StartParse
    <2>2. setup.argv \in Seq(Words)
      BY AdmissionAssumption DEF ParserInv, ParsedTypes, AdmissionAssumption
    <2>3. QED
      BY <2>1, <2>2, NothingMeans DEF ParserInv, ParsedTypes, ReadTrue
  <1>2. CASE UNCHANGED parserVars
    BY <1>2 DEF parserVars, ParserInv, ParsedTypes, ReadTrue, Shown
  <1>3. QED
    BY <1>1, <1>2, TokeniseInv, TokenisedInv, AbsorbInv, FinaliseInv DEF ParserStep

(* The words are read in two of the steps, and the setup stays.            *)
LEMMA OnlyParsing ==
  ASSUME [AdmissionNext]_vars
  PROVE  setup' = setup /\ (ParserStep \/ StartParse(setup.argv) \/ UNCHANGED parserVars)
  <1>1. CASE ResolveArgv0
    BY <1>1, Zenon DEF ResolveArgv0, Unparsed
  <1>2. CASE ParseRequest
    BY <1>2, Zenon DEF ParseRequest, Unparsed
  <1>3. CASE Parse
    BY <1>3 DEF Parse
  <1>4. CASE LockStores \/ Evaluate \/ Match \/ BuildSummary \/ Submit \/ UserDecides
    BY <1>4 DEF LockStores, Evaluate, Match, BuildSummary, Submit, UserDecides, Unparsed
  <1>5. CASE \E t \in Adders : AddKnownHost(t) \/ AddGoesOn(t) \/ RefreshCards(t)
    BY <1>5 DEF AddKnownHost, AddGoesOn, RefreshCards, Unparsed
  <1>6. CASE UNCHANGED vars
    BY <1>6 DEF vars
  <1>7. QED
    BY <1>1, <1>2, <1>3, <1>4, <1>5, <1>6 DEF AdmissionNext

LEMMA ParserHolds == AdmissionSpec => []ParserInv
  <1>1. ParserInv /\ [AdmissionNext]_vars => ParserInv'
    <2> SUFFICES ASSUME ParserInv, [AdmissionNext]_vars PROVE ParserInv'
      OBVIOUS
    <2>1. QED
      BY OnlyParsing, ParserStepInv
  <1>2. QED
    BY ParserInitInv, <1>1, PTL DEF AdmissionSpec

(* For every list of words: a command whose words had a reading is refused *)
(* only when one of the things its tokens say has no faithful picture,     *)
(* whichever token or final check it is refused at; and the request and    *)
(* the files on its card are those the tokens say.                         *)
THEOREM ReadAsWritten == AdmissionSpec => ShownIsRead
  <1>1. ParserInv /\ ParserInv' /\ [AdmissionNext]_vars
          => [stage = "absorb" /\ stage' = "done" => ShownFor(tokens, outcome')]_vars
    <2> SUFFICES ASSUME ParserInv, ParserInv', [AdmissionNext]_vars,
                        stage = "absorb", stage' = "done"
                 PROVE  ShownFor(tokens, outcome')
      OBVIOUS
    <2>1. tokens \in Seq(Tokens) /\ at \in Nat \ {0} /\ got \in Gathered
          /\ Means(got, SubSeq(tokens, 1, at - 1))
      BY DEF ParserInv, ParsedTypes, ReadTrue
    <2>2. ParserStep
      BY OnlyParsing DEF StartParse, parserVars
    <2>3. AbsorbToken \/ Finalise
      BY <2>2 DEF ParserStep, TokeniseWord, Tokenised
    <2>4. tokens' = tokens
      BY <2>3 DEF AbsorbToken, Finalise, Refuse
    <2>5. CASE AbsorbToken /\ outcome'.parsed = {}
      <3>1. at <= Len(tokens) /\ AbsorbError(tokens[at]) # NoError
        BY <2>5 DEF AbsorbToken
      <3>2. CannotBeShown(tokens)
        BY <2>1, <3>1, RefusedToken
      <3>3. QED
        BY <2>5, <3>2 DEF ShownFor
    <2>6. CASE Finalise /\ outcome'.parsed = {}
      <3>1. at = Len(tokens) + 1
        BY <2>1, <2>6 DEF Finalise, ParserInv, ReadTrue
      <3>2. Means(got, tokens)
        <4>1. at - 1 = Len(tokens) /\ SubSeq(tokens, 1, Len(tokens)) = tokens
          BY <2>1, <3>1, SubSeqFull
        <4>2. QED
          BY <2>1, <4>1
      <3>3. FinaliseError # NoError
        <4>1. SUFFICES ASSUME FinaliseError = NoError PROVE FALSE
          OBVIOUS
        <4>2. PICK url \in got.url : outcome' = [error |-> NoError, parsed |-> {CommandFor(url)}]
          BY <2>6, <4>1 DEF Finalise
        <4>3. PICK command : command = CommandFor(url)
          OBVIOUS
        <4>4. outcome'.parsed = {command}
          BY <4>2, <4>3
        <4>5. QED
          BY <2>6, <4>4
      <3>4. CannotBeShown(tokens)
        BY <2>1, <3>2, <3>3, RefusedInTheEnd
      <3>5. QED
        BY <2>6, <3>4 DEF ShownFor
    <2>7. CASE outcome'.parsed # {}
      <3>1. \A parsed \in outcome'.parsed : Shown(parsed)'
        BY DEF ParserInv, ReadTrue
      <3>2. \A parsed \in outcome'.parsed :
              /\ ~CannotBeShown(tokens)
              /\ RequestTrue(tokens, parsed.http) /\ FilesTrue(tokens, parsed)
              /\ NothingHidden(tokens, parsed)
        BY <2>4, <3>1 DEF Shown
      <3>3. QED
        BY <2>7, <3>2 DEF ShownFor
    <2>8. QED
      BY <2>3, <2>5, <2>6, <2>7
  <1>2. QED
    BY ParserHolds, <1>1, PTL DEF AdmissionSpec, ShownIsRead

-----------------------------------------------------------------------------
(* The loop a worker starts is the loop.                                   *)

(* It is started once, after the words are read, on a path of names.       *)
Unasked == pc \in {"resolve", "parse", "evaluate"} => fits = "unasked"

LEMMA UnaskedHolds == AdmissionSpec => []Unasked
  <1>1. AdmissionInit => Unasked
    BY DEF AdmissionInit, GlobInit, Unasked
  <1>2. Unasked /\ [AdmissionNext]_vars => Unasked'
    <2> SUFFICES ASSUME Unasked, [AdmissionNext]_vars PROVE Unasked'
      OBVIOUS
    <2>1. CASE ResolveArgv0
      <3>1. pc = "resolve" /\ fits' = fits
        BY <2>1, Zenon DEF ResolveArgv0, Unmatched, globVars
      <3>2. QED
        BY <3>1 DEF Unasked
    <2>2. CASE ParseRequest
      <3>1. pc = "parse" /\ fits' = fits
        BY <2>2, Zenon DEF ParseRequest, Unmatched, globVars
      <3>2. QED
        BY <3>1 DEF Unasked
    <2>3. CASE Parse \/ LockStores
      BY <2>3 DEF Parse, LockStores, workerVars, Unmatched, globVars, Unasked
    <2>4. CASE Evaluate \/ Match \/ BuildSummary \/ Submit \/ UserDecides
      <3>1. pc' \in {"match", "summary", "submit", "pending", "resolved"}
        BY <2>4 DEF Evaluate, Match, BuildSummary, Submit, UserDecides, workerVars
      <3>2. QED
        BY <3>1 DEF Unasked
    <2>5. CASE UNCHANGED <<pc, fits>>
      BY <2>5 DEF Unasked
    <2>6. CASE \E t \in Adders : AddKnownHost(t) \/ AddGoesOn(t) \/ RefreshCards(t)
      BY <2>5, <2>6 DEF AddKnownHost, AddGoesOn, RefreshCards, workerVars, Unmatched, globVars
    <2>7. CASE UNCHANGED vars
      BY <2>5, <2>7 DEF vars, workerVars, globVars
    <2>8. QED
      BY <2>1, <2>2, <2>3, <2>4, <2>6, <2>7 DEF AdmissionNext
  <1>3. QED
    BY <1>1, <1>2, PTL DEF AdmissionSpec

(* In every behaviour of a request the loop runs as Glob says, so what it  *)
(* is proved to answer there holds of the rule that decides a request.     *)
THEOREM WorkerRunsGlob == AdmissionSpec => GlobSpec
  <1>1. AdmissionInit => GlobInit
    BY DEF AdmissionInit
  <1>2. Unasked /\ ParserInv /\ [AdmissionNext]_vars => [GlobNext]_globVars
    <2> SUFFICES ASSUME Unasked, ParserInv, [AdmissionNext]_vars PROVE [GlobNext]_globVars
      OBVIOUS
    <2>1. CASE Unmatched
      BY <2>1 DEF Unmatched
    <2>2. CASE ResolveArgv0 \/ ParseRequest
      BY <2>1, <2>2, Zenon DEF ResolveArgv0, ParseRequest
    <2>3. CASE Evaluate /\ ~Unmatched
      <3>1. PICK r \in setup.rules, parsed \in outcome.parsed :
              StartGlob(r.glob, NormalisePath(parsed.http.url.path))
        BY <2>3 DEF Evaluate
      <3>2. r.glob \in Seq(STRING)
        BY AdmissionAssumption DEF AdmissionAssumption, ParserInv, ParsedTypes
      <3>3. NormalisePath(parsed.http.url.path) \in Seq(STRING)
        BY NormalForm DEF ParserInv, ReadTrue, Shown
      <3>4. fits # "looping"
        BY <2>3 DEF Evaluate, Unasked
      <3>5. QED
        BY <3>1, <3>2, <3>3, <3>4 DEF GlobNext
    <2>4. CASE Match
      BY <2>1, <2>4 DEF Match, GlobNext
    <2>5. CASE Parse \/ LockStores \/ BuildSummary \/ Submit \/ UserDecides
      BY <2>1, <2>5 DEF Parse, LockStores, BuildSummary, Submit, UserDecides
    <2>6. CASE \E t \in Adders : AddKnownHost(t) \/ AddGoesOn(t) \/ RefreshCards(t)
      BY <2>1, <2>6 DEF AddKnownHost, AddGoesOn, RefreshCards
    <2>7. CASE UNCHANGED vars
      BY <2>7 DEF vars, globVars
    <2>8. QED
      BY <2>1, <2>2, <2>3, <2>4, <2>5, <2>6, <2>7 DEF AdmissionNext
  <1>3. QED
    BY <1>1, <1>2, UnaskedHolds, ParserHolds, PTL DEF AdmissionSpec, GlobSpec

(* So the answer a worker gets is what the glob of its rule means.         *)
THEOREM WorkerGlobAgrees == AdmissionSpec => []GlobAgrees
  BY WorkerRunsGlob, GlobAnswers, PTL
=============================================================================
