---------------------------- MODULE Lists_proofs -----------------------------
(***************************************************************************)
(* What Kept keeps: the elements of s in K, each as often as s has it, in  *)
(* the order of s.                                                         *)
(*                                                                         *)
(* Induction is by sets: a set of naturals that is not empty has a         *)
(* smallest member (WFMin of the library), so a set that has 0 and is      *)
(* closed under + 1 has them all.  To show that something holds of every n *)
(* one collects the n it holds of in a set.                                *)
(***************************************************************************)
EXTENDS Lists, SequenceTheorems, WellFoundedInduction, TLAPS

(* A set of naturals that is not empty has a smallest member. *)
LEMMA SmallestMember ==
  ASSUME NEW T \in SUBSET Nat, T # {}
  PROVE  \E x \in T : \A y \in T : x <= y
  <1>1. IsWellFoundedOn(OpToRel(<,Nat), Nat)
    BY NatLessThanWellFounded
  <1>2. PICK x \in T : \A y \in T : ~(<<y, x>> \in OpToRel(<,Nat))
    BY <1>1, WFMin
  <1>3. \A y \in T : ~(y < x)
    BY <1>2 DEF OpToRel
  <1>4. QED
    BY <1>3

(* Induction over the naturals. *)
LEMMA AllNaturals ==
  ASSUME NEW T, 0 \in T, \A n \in Nat : n \in T => n + 1 \in T
  PROVE  Nat \subseteq T
  <1>1. SUFFICES ASSUME Nat \ T # {} PROVE FALSE
    OBVIOUS
  <1>2. PICK x \in Nat \ T : \A y \in Nat \ T : x <= y
    BY <1>1, SmallestMember
  <1>3. x # 0 /\ x - 1 \in Nat /\ x - 1 \in T
    BY <1>2
  <1>4. QED
    BY <1>2, <1>3

-----------------------------------------------------------------------------
(* The recursion of Kept, as a property of a function. *)
Filters(f, s, n, K) ==
  f = [i \in 0 .. n |-> IF i = 0 THEN <<>>
                        ELSE IF s[i] \in K THEN Append(f[i - 1], s[i]) ELSE f[i - 1]]

(* Its first value, and the others from the one before. *)
LEMMA FilterFirst ==
  ASSUME NEW s, NEW n \in Nat, NEW K, NEW f, Filters(f, s, n, K)
  PROVE  f[0] = <<>>
  <1>1. 0 \in 0 .. n
    OBVIOUS
  <1>2. QED
    BY <1>1 DEF Filters

(* One more element is looked at: kept at the end, or passed over. *)
LEMMA FilterNext ==
  ASSUME NEW s, NEW n \in Nat, NEW K, NEW f, Filters(f, s, n, K),
         NEW i \in 1 .. n
  PROVE  f[i] = IF s[i] \in K THEN Append(f[i - 1], s[i]) ELSE f[i - 1]
  <1>1. i \in 0 .. n /\ i # 0
    OBVIOUS
  <1>2. QED
    BY <1>1 DEF Filters

(* There is such a function, and it is one of sequences. *)
LEMMA FilterExists ==
  ASSUME NEW T, NEW s \in Seq(T), NEW K
  PROVE  \E f \in [0 .. Len(s) -> Seq(T)] : Filters(f, s, Len(s), K)
  <1> DEFINE Good == {n \in Nat : n <= Len(s) => \E f \in [0 .. n -> Seq(T)] : Filters(f, s, n, K)}
  <1>1. 0 \in Good
    <2> DEFINE f == [i \in 0 .. 0 |-> <<>>]
    <2>1. f \in [0 .. 0 -> Seq(T)]
      OBVIOUS
    <2>2. Filters(f, s, 0, K)
      BY DEF Filters
    <2>3. QED
      BY <2>1, <2>2
  <1>2. ASSUME NEW n \in Nat, n \in Good PROVE n + 1 \in Good
    <2>1. SUFFICES ASSUME n + 1 <= Len(s)
                   PROVE  \E f \in [0 .. n + 1 -> Seq(T)] : Filters(f, s, n + 1, K)
      OBVIOUS
    <2>2. PICK g \in [0 .. n -> Seq(T)] : Filters(g, s, n, K)
      BY <1>2, <2>1
    <2>3. \A i \in 1 .. n : g[i] = IF s[i] \in K THEN Append(g[i - 1], s[i]) ELSE g[i - 1]
      <3>1. Filters(g, s, n, K)
        BY <2>2
      <3>2. QED
        BY <3>1, FilterNext
    <2>4. s[n + 1] \in T
      BY <2>1
    <2> DEFINE last == IF s[n + 1] \in K THEN Append(g[n], s[n + 1]) ELSE g[n]
               f == [i \in 0 .. n + 1 |-> IF i <= n THEN g[i] ELSE last]
    <2>5. last \in Seq(T)
      BY <2>4
    <2>6. f \in [0 .. n + 1 -> Seq(T)]
      BY <2>5
    <2>7. Filters(f, s, n + 1, K)
      <3>1. ASSUME NEW i \in 0 .. n + 1
            PROVE  f[i] = IF i = 0 THEN <<>>
                          ELSE IF s[i] \in K THEN Append(f[i - 1], s[i]) ELSE f[i - 1]
        <4>1. CASE i = 0
          <5>1. g[0] = <<>>
            BY <2>2, FilterFirst
          <5>2. QED
            BY <4>1, <5>1
        <4>2. CASE i \in 1 .. n
          <5>1. i - 1 \in 0 .. n /\ (i - 1) + 1 = i /\ i # 0
            BY <4>2
          <5>2. g[i] = IF s[i] \in K THEN Append(g[i - 1], s[i]) ELSE g[i - 1]
            BY <2>3, <4>2
          <5>3. f[i] = g[i] /\ f[i - 1] = g[i - 1]
            BY <4>2, <5>1
          <5>4. QED
            BY <5>1, <5>2, <5>3
        <4>3. CASE i = n + 1
          BY <4>3
        <4>4. QED
          BY <4>1, <4>2, <4>3
      <3>2. QED
        BY <3>1 DEF Filters
    <2>8. QED
      BY <2>6, <2>7
  <1>3. Nat \subseteq Good
    BY <1>1, <1>2, AllNaturals
  <1>4. QED
    BY <1>3

(* Only one: two that filter the same elements agree. *)
LEMMA FilterUnique ==
  ASSUME NEW s, NEW t, NEW K, NEW m \in Nat, NEW n \in Nat, m <= n,
         NEW f, NEW g, Filters(f, s, m, K), Filters(g, t, n, K),
         \A i \in 1 .. m : s[i] = t[i]
  PROVE  \A i \in 0 .. m : f[i] = g[i]
  <1> DEFINE Good == {i \in Nat : i <= m => f[i] = g[i]}
  <1>1. 0 \in Good
    <2>1. f[0] = <<>> /\ g[0] = <<>>
      BY FilterFirst
    <2>2. QED
      BY <2>1
  <1>2. ASSUME NEW i \in Nat, i \in Good PROVE i + 1 \in Good
    <2>1. SUFFICES ASSUME i + 1 <= m PROVE f[i + 1] = g[i + 1]
      OBVIOUS
    <2>2. f[i] = g[i] /\ s[i + 1] = t[i + 1]
      BY <1>2, <2>1
    <2>3. i + 1 \in 1 .. m /\ i + 1 \in 1 .. n /\ (i + 1) - 1 = i
      BY <2>1
    <2>4. f[i + 1] = IF s[i + 1] \in K THEN Append(f[(i + 1) - 1], s[i + 1]) ELSE f[(i + 1) - 1]
      BY <2>3, FilterNext
    <2>5. g[i + 1] = IF t[i + 1] \in K THEN Append(g[(i + 1) - 1], t[i + 1]) ELSE g[(i + 1) - 1]
      BY <2>3, FilterNext
    <2>6. QED
      BY <2>2, <2>3, <2>4, <2>5
  <1>3. Nat \subseteq Good
    BY <1>1, <1>2, AllNaturals
  <1>4. QED
    BY <1>3

(* Kept is the last value of it. *)
LEMMA KeptFilters ==
  ASSUME NEW T, NEW s \in Seq(T), NEW K
  PROVE  \E f \in [0 .. Len(s) -> Seq(T)] : Filters(f, s, Len(s), K) /\ Kept(s, K) = f[Len(s)]
  <1> DEFINE f == CHOOSE f : Filters(f, s, Len(s), K)
  <1>1. PICK h \in [0 .. Len(s) -> Seq(T)] : Filters(h, s, Len(s), K)
    BY FilterExists
  <1>2. Filters(f, s, Len(s), K)
    BY <1>1
  <1>3. Kept(s, K) = f[Len(s)]
    BY DEF Kept, Filters
  <1>4. \A i \in 0 .. Len(s) : f[i] = h[i]
    BY <1>1, <1>2, FilterUnique
  <1>5. Len(s) \in 0 .. Len(s)
    OBVIOUS
  <1>6. QED
    BY <1>1, <1>3, <1>4, <1>5

-----------------------------------------------------------------------------
(* Induction over sequences, from the empty one. *)
LEMMA AllSequences ==
  ASSUME NEW T, NEW G, <<>> \in G,
         \A s \in Seq(T), e \in T : s \in G => Append(s, e) \in G
  PROVE  Seq(T) \subseteq G
  <1> DEFINE Good == {n \in Nat : \A s \in Seq(T) : Len(s) = n => s \in G}
  <1>1. 0 \in Good
    <2>1. ASSUME NEW s \in Seq(T), Len(s) = 0 PROVE s = <<>>
      BY <2>1
    <2>2. QED
      BY <2>1
  <1>2. ASSUME NEW n \in Nat, n \in Good PROVE n + 1 \in Good
    <2>1. SUFFICES ASSUME NEW s \in Seq(T), Len(s) = n + 1 PROVE s \in G
      OBVIOUS
    <2>2. PICK front \in Seq(T), e \in T : s = Append(front, e) /\ Len(front) = n
      <3> DEFINE front == SubSeq(s, 1, n)
      <3>1. front \in Seq(T) /\ Len(front) = n /\ \A i \in 1 .. n : front[i] = s[i]
        BY <2>1
      <3>2. s[n + 1] \in T
        BY <2>1
      <3>3. Append(front, s[n + 1]) = s
        <4>1. Append(front, s[n + 1]) \in Seq(T) /\ Len(Append(front, s[n + 1])) = Len(s)
          BY <2>1, <3>1, <3>2
        <4>2. \A i \in 1 .. Len(s) : Append(front, s[n + 1])[i] = s[i]
          BY <2>1, <3>1, <3>2
        <4>3. QED
          BY <4>1, <4>2, SeqEqual
      <3>4. QED
        BY <3>1, <3>2, <3>3
    <2>3. front \in G
      BY <1>2, <2>2
    <2>4. QED
      BY <2>2, <2>3
  <1>3. Nat \subseteq Good
    BY <1>1, <1>2, AllNaturals
  <1>4. ASSUME NEW s \in Seq(T) PROVE s \in G
    <2>1. Len(s) \in Nat
      OBVIOUS
    <2>2. QED
      BY <1>3, <2>1
  <1>5. QED
    BY <1>4

(* Of nothing, nothing is kept. *)
LEMMA KeptEmpty ==
  ASSUME NEW K
  PROVE  Kept(<<>>, K) = <<>>
  <1>1. <<>> \in Seq({}) /\ Len(<<>>) = 0
    OBVIOUS
  <1>2. PICK f \in [0 .. Len(<<>>) -> Seq({})] :
          Filters(f, <<>>, Len(<<>>), K) /\ Kept(<<>>, K) = f[Len(<<>>)]
    <2>1. <<>> \in Seq({})
      BY <1>1
    <2>2. QED
      BY <2>1, KeptFilters
  <1>3. Filters(f, <<>>, 0, K) /\ Kept(<<>>, K) = f[0]
    BY <1>1, <1>2
  <1>4. f[0] = <<>>
    BY <1>3, FilterFirst
  <1>5. QED
    BY <1>3, <1>4

(* What is kept of a longer sequence. *)
LEMMA KeptAppend ==
  ASSUME NEW T, NEW s \in Seq(T), NEW e \in T, NEW K
  PROVE  Kept(Append(s, e), K) = IF e \in K THEN Append(Kept(s, K), e) ELSE Kept(s, K)
  <1> DEFINE t == Append(s, e)
             n == Len(s)
  <1>1. t \in Seq(T) /\ Len(t) = n + 1 /\ n \in Nat /\ t[n + 1] = e
    OBVIOUS
  <1>2. \A i \in 1 .. n : s[i] = t[i]
    OBVIOUS
  <1> HIDE DEF t
  <1>3. PICK f \in [0 .. n -> Seq(T)] : Filters(f, s, n, K) /\ Kept(s, K) = f[n]
    BY KeptFilters
  <1>4. PICK g : Filters(g, t, n + 1, K) /\ Kept(t, K) = g[n + 1]
    <2>1. PICK g \in [0 .. Len(t) -> Seq(T)] : Filters(g, t, Len(t), K) /\ Kept(t, K) = g[Len(t)]
      <3>1. t \in Seq(T)
        BY <1>1
      <3>2. QED
        BY <3>1, KeptFilters
    <2>2. QED
      BY <1>1, <2>1
  <1>5. \A i \in 0 .. n : f[i] = g[i]
    <2> HIDE DEF n
    <2>1. n \in Nat /\ n + 1 \in Nat /\ n <= n + 1
      BY <1>1
    <2>2. Filters(f, s, n, K)
      BY <1>3
    <2>3. Filters(g, t, n + 1, K)
      BY <1>4
    <2>4. QED
      BY <1>2, <2>1, <2>2, <2>3, FilterUnique, SMTT(30)
  <1>6. g[n + 1] = IF t[n + 1] \in K THEN Append(g[(n + 1) - 1], t[n + 1]) ELSE g[(n + 1) - 1]
    <2>1. Filters(g, t, n + 1, K) /\ n + 1 \in Nat /\ n + 1 \in 1 .. n + 1
      BY <1>1, <1>4
    <2>2. QED
      BY <2>1, FilterNext
  <1>7. (n + 1) - 1 = n /\ n \in 0 .. n
    BY <1>1
  <1>8. QED
    BY <1>1, <1>3, <1>4, <1>5, <1>6, <1>7 DEF t

(* A list of what is asked for is kept whole. *)
LEMMA KeptAll ==
  ASSUME NEW T, NEW K, NEW s \in Seq(T), \A i \in 1 .. Len(s) : s[i] \in K
  PROVE  Kept(s, K) = s
  <1> DEFINE G == {u \in Seq(T) : (\A i \in 1 .. Len(u) : u[i] \in K) => Kept(u, K) = u}
  <1>1. <<>> \in G
    BY KeptEmpty
  <1>2. ASSUME NEW u \in Seq(T), NEW e \in T, u \in G PROVE Append(u, e) \in G
    <2> DEFINE v == Append(u, e)
    <2>1. /\ v \in Seq(T) /\ Len(v) = Len(u) + 1 /\ Len(u) \in Nat
          /\ v[Len(u) + 1] = e /\ \A i \in 1 .. Len(u) : v[i] = u[i]
      OBVIOUS
    <2>2. Kept(v, K) = IF e \in K THEN Append(Kept(u, K), e) ELSE Kept(u, K)
      BY KeptAppend
    <2>3. ASSUME \A i \in 1 .. Len(v) : v[i] \in K PROVE Kept(v, K) = v
      <3>1. e \in K
        BY <2>1, <2>3
      <3>2. \A i \in 1 .. Len(u) : u[i] \in K
        BY <2>1, <2>3
      <3>3. Kept(u, K) = u
        BY <1>2, <3>2
      <3>4. QED
        BY <2>2, <3>1, <3>3
    <2>4. QED
      BY <2>1, <2>3
  <1>3. Seq(T) \subseteq G
    <2> HIDE DEF G
    <2>1. QED
      BY <1>1, <1>2, AllSequences
  <1>4. QED
    BY <1>3

(* Kept is an order-preserving choice of the places of s whose element is  *)
(* in K, and of all of them.                                               *)
Picks(h, s, t, K) ==
  /\ h \in [1 .. Len(t) -> 1 .. Len(s)]
  /\ \A i \in 1 .. Len(t) : t[i] = s[h[i]] /\ t[i] \in K
  /\ \A i, j \in 1 .. Len(t) : i < j => h[i] < h[j]
  /\ \A k \in 1 .. Len(s) : s[k] \in K => \E i \in 1 .. Len(t) : h[i] = k

(* What is kept is picked out of the list, in its order. *)
LEMMA KeptPicks ==
  ASSUME NEW T, NEW K, NEW s \in Seq(T)
  PROVE  /\ Kept(s, K) \in Seq(T)
         /\ \E h : Picks(h, s, Kept(s, K), K)
  <1> DEFINE G == {u \in Seq(T) : Kept(u, K) \in Seq(T) /\ \E h : Picks(h, u, Kept(u, K), K)}
  <1>1. <<>> \in G
    <2>1. Kept(<<>>, K) = <<>> /\ <<>> \in Seq(T) /\ Len(<<>>) = 0
      BY KeptEmpty
    <2>2. Picks([i \in 1 .. 0 |-> i], <<>>, <<>>, K)
      BY DEF Picks
    <2>3. QED
      BY <2>1, <2>2
  <1>2. ASSUME NEW u \in Seq(T), NEW e \in T, u \in G PROVE Append(u, e) \in G
    <2> DEFINE v == Append(u, e)
               m == Len(u)
    <2>1. PICK h : Picks(h, u, Kept(u, K), K)
      BY <1>2
    <2>2. v \in Seq(T) /\ Len(v) = m + 1 /\ m \in Nat /\ v[m + 1] = e /\ \A i \in 1 .. m : v[i] = u[i]
      OBVIOUS
    <2>3. Kept(v, K) = IF e \in K THEN Append(Kept(u, K), e) ELSE Kept(u, K)
      BY KeptAppend
    <2> HIDE DEF v
    <2>4. Kept(u, K) \in Seq(T)
      BY <1>2
    <2> DEFINE t == Kept(u, K)
               n == Len(t)
    <2>5. n \in Nat
      BY <2>4
    <2> HIDE DEF t
    <2>6. CASE e \in K
      <3> DEFINE w == Append(t, e)
                 g == [i \in 1 .. n + 1 |-> IF i <= n THEN h[i] ELSE m + 1]
      <3>1. w \in Seq(T) /\ Len(w) = n + 1 /\ w[n + 1] = e /\ \A i \in 1 .. n : w[i] = t[i]
        BY <2>4 DEF t
      <3> HIDE DEF w
      <3>2. Picks(h, u, t, K)
        BY <2>1 DEF t
      <3>3. g \in [1 .. n + 1 -> 1 .. m + 1]
        BY <2>2, <2>5, <3>2 DEF Picks
      <3>4. \A i \in 1 .. n + 1 : w[i] = v[g[i]] /\ w[i] \in K
        <4>1. ASSUME NEW i \in 1 .. n PROVE w[i] = v[g[i]] /\ w[i] \in K
          <5>1. w[i] = t[i] /\ g[i] = h[i]
            BY <2>5, <3>1
          <5>2. t[i] = u[h[i]] /\ t[i] \in K /\ h[i] \in 1 .. m
            BY <3>2 DEF Picks
          <5>3. QED
            BY <2>2, <5>1, <5>2
        <4>2. g[n + 1] = m + 1
          BY <2>5
        <4>3. \A i \in 1 .. n + 1 : i \in 1 .. n \/ i = n + 1
          BY <2>5
        <4>4. QED
          BY <2>2, <2>6, <3>1, <4>1, <4>2, <4>3
      <3>5. \A i, j \in 1 .. n + 1 : i < j => g[i] < g[j]
        BY <2>2, <2>5, <3>2 DEF Picks
      <3>6. \A k \in 1 .. m + 1 : v[k] \in K => \E i \in 1 .. n + 1 : g[i] = k
        <4>1. ASSUME NEW k \in 1 .. m, v[k] \in K PROVE \E i \in 1 .. n + 1 : g[i] = k
          <5>1. PICK i \in 1 .. n : h[i] = k
            BY <2>2, <3>2, <4>1 DEF Picks
          <5>2. i \in 1 .. n + 1 /\ g[i] = k
            BY <2>5, <5>1
          <5>3. QED
            BY <5>2
        <4>2. n + 1 \in 1 .. n + 1 /\ g[n + 1] = m + 1
          BY <2>5
        <4>3. QED
          BY <2>2, <4>1, <4>2, SMTT(30)
      <3>7. Picks(g, v, w, K)
        BY <2>2, <3>1, <3>3, <3>4, <3>5, <3>6 DEF Picks
      <3>8. QED
        BY <2>2, <2>3, <2>6, <3>1, <3>7 DEF t, v, w
    <2>7. CASE e \notin K
      <3>1. Picks(h, u, t, K)
        BY <2>1 DEF t
      <3>2. Picks(h, v, t, K)
        <4>1. h \in [1 .. n -> 1 .. m]
          BY <3>1 DEF Picks
        <4>2. h \in [1 .. n -> 1 .. m + 1]
          BY <2>2, <4>1
        <4>3. \A i \in 1 .. n : t[i] = u[h[i]] /\ t[i] \in K
          BY <3>1 DEF Picks
        <4>4. \A i \in 1 .. n : t[i] = v[h[i]] /\ t[i] \in K
          BY <2>2, <4>1, <4>3
        <4>5. \A i, j \in 1 .. n : i < j => h[i] < h[j]
          BY <3>1 DEF Picks
        <4>6. \A k \in 1 .. m : u[k] \in K => \E i \in 1 .. n : h[i] = k
          BY <3>1 DEF Picks
        <4>7. \A k \in 1 .. m + 1 : v[k] \in K => \E i \in 1 .. n : h[i] = k
          BY <2>2, <2>7, <4>6
        <4>8. QED
          BY <2>2, <4>2, <4>4, <4>5, <4>7 DEF Picks
      <3>3. QED
        BY <2>2, <2>3, <2>4, <2>7, <3>2 DEF t, v
    <2>8. QED
      BY <2>6, <2>7
  <1>3. Seq(T) \subseteq G
    BY <1>1, <1>2, AllSequences
  <1>4. QED
    BY <1>3

(* u is the end of t. *)
IsEnd(t, u) ==
  \E n \in Nat : Len(t) = n + Len(u) /\ \A k \in 1 .. Len(u) : t[n + k] = u[k]

(* Nothing is the end of anything. *)
LEMMA IsEndEmpty ==
  ASSUME NEW T, NEW t \in Seq(T)
  PROVE  IsEnd(t, <<>>)
  <1>1. Len(t) \in Nat /\ Len(<<>>) = 0
    OBVIOUS
  <1>2. QED
    BY <1>1 DEF IsEnd

(* Both grow alike. *)
LEMMA IsEndAppend ==
  ASSUME NEW T, NEW t \in Seq(T), NEW u \in Seq(T), NEW e \in T, IsEnd(t, u)
  PROVE  IsEnd(Append(t, e), Append(u, e))
  <1>1. PICK n \in Nat : Len(t) = n + Len(u) /\ \A k \in 1 .. Len(u) : t[n + k] = u[k]
    BY DEF IsEnd
  <1> DEFINE tt == Append(t, e)
             uu == Append(u, e)
  <1>2. /\ Len(tt) = Len(t) + 1 /\ tt[Len(t) + 1] = e
        /\ \A k \in 1 .. Len(t) : tt[k] = t[k]
    OBVIOUS
  <1>3. /\ Len(uu) = Len(u) + 1 /\ uu[Len(u) + 1] = e
        /\ \A k \in 1 .. Len(u) : uu[k] = u[k]
    OBVIOUS
  <1>4. Len(u) \in Nat
    OBVIOUS
  <1> HIDE DEF tt, uu
  <1>5. Len(tt) = n + Len(uu)
    BY <1>1, <1>2, <1>3, <1>4
  <1>6. ASSUME NEW k \in 1 .. Len(uu) PROVE tt[n + k] = uu[k]
    <2>1. CASE k \in 1 .. Len(u)
      <3>1. n + k \in 1 .. Len(t)
        BY <1>1, <1>4, <2>1
      <3>2. QED
        BY <1>1, <1>2, <1>3, <2>1, <3>1
    <2>2. CASE k = Len(u) + 1
      <3>1. n + k = Len(t) + 1
        BY <1>1, <1>4, <2>2
      <3>2. QED
        BY <1>2, <1>3, <2>2, <3>1
    <2>3. QED
      BY <1>3, <1>4, <2>1, <2>2
  <1>7. IsEnd(tt, uu)
    BY <1>5, <1>6 DEF IsEnd
  <1>8. QED
    BY <1>7 DEF tt, uu

(* From place p + 1 on J takes what K takes, and before it nothing. *)
EndsAlike(s, K, J, p) ==
  /\ \A i \in 1 .. p : s[i] \notin J
  /\ \A i \in p + 1 .. Len(s) : s[i] \in K <=> s[i] \in J

(* Keeping less: what is kept of the end of s is an end of what is kept.  *)
LEMMA KeptEnd ==
  ASSUME NEW T, NEW s \in Seq(T), NEW K, NEW J, NEW p \in Nat, EndsAlike(s, K, J, p)
  PROVE  IsEnd(Kept(s, K), Kept(s, J))
  <1> DEFINE n == Len(s)
  <1>1. n \in Nat
    OBVIOUS
  <1>2. PICK f \in [0 .. n -> Seq(T)] : Filters(f, s, n, K) /\ Kept(s, K) = f[n]
    BY KeptFilters
  <1>3. PICK g \in [0 .. n -> Seq(T)] : Filters(g, s, n, J) /\ Kept(s, J) = g[n]
    BY KeptFilters
  <1> DEFINE Good == {i \in Nat : i <= n => IsEnd(f[i], g[i]) /\ (i <= p => g[i] = <<>>)}
  <1>4. 0 \in Good
    <2>1. Filters(g, s, n, J)
      BY <1>3
    <2>2. g[0] = <<>>
      BY <1>1, <2>1, FilterFirst
    <2>3. f[0] \in Seq(T)
      BY <1>1, <1>2
    <2>4. IsEnd(f[0], g[0])
      BY <2>2, <2>3, IsEndEmpty
    <2>5. QED
      BY <2>2, <2>4
  <1>5. ASSUME NEW i \in Nat, i \in Good PROVE i + 1 \in Good
    <2>1. SUFFICES ASSUME i + 1 <= n
                   PROVE  IsEnd(f[i + 1], g[i + 1]) /\ (i + 1 <= p => g[i + 1] = <<>>)
      OBVIOUS
    <2>2. PICK k \in 1 .. n : k = i + 1 /\ k - 1 = i
      BY <1>1, <2>1
    <2>3. IsEnd(f[k - 1], g[k - 1]) /\ (k - 1 <= p => g[k - 1] = <<>>)
      BY <1>1, <1>5, <2>2
    <2> HIDE DEF Good
    <2>4. f[k] = IF s[k] \in K THEN Append(f[k - 1], s[k]) ELSE f[k - 1]
      <3>1. Filters(f, s, n, K)
        BY <1>2
      <3>2. QED
        BY <1>1, <3>1, FilterNext
    <2>5. g[k] = IF s[k] \in J THEN Append(g[k - 1], s[k]) ELSE g[k - 1]
      <3>1. Filters(g, s, n, J)
        BY <1>3
      <3>2. QED
        BY <1>1, <3>1, FilterNext
    <2>6. s[k] \in T /\ f[k - 1] \in Seq(T) /\ g[k - 1] \in Seq(T) /\ f[k] \in Seq(T)
      <3>1. k - 1 \in 0 .. n /\ k \in 0 .. n
        BY <1>1, <2>2
      <3>2. f[k] \in Seq(T) /\ f[k - 1] \in Seq(T) /\ g[k - 1] \in Seq(T)
        BY <3>1
      <3>3. s[k] \in T
        OBVIOUS
      <3>4. QED
        BY <3>2, <3>3
    <2>7. CASE k <= p
      <3>1. s[k] \notin J
        BY <2>7 DEF EndsAlike
      <3>2. g[k] = <<>>
        BY <2>3, <2>5, <2>7, <3>1
      <3>3. IsEnd(f[k], g[k])
        BY <2>6, <3>2, IsEndEmpty
      <3>4. QED
        BY <2>2, <3>2, <3>3
    <2>8. CASE ~(k <= p)
      <3>1. s[k] \in K <=> s[k] \in J
        BY <2>8 DEF EndsAlike
      <3>2. IsEnd(Append(f[k - 1], s[k]), Append(g[k - 1], s[k]))
        BY <2>3, <2>6, IsEndAppend
      <3>3. IsEnd(f[k], g[k])
        BY <2>3, <2>4, <2>5, <3>1, <3>2
      <3>4. QED
        BY <2>2, <2>8, <3>3
    <2>9. QED
      BY <2>7, <2>8
  <1>6. Nat \subseteq Good
    <2> HIDE DEF Good
    <2>1. QED
      BY <1>4, <1>5, AllNaturals
  <1>7. IsEnd(f[n], g[n])
    BY <1>1, <1>6
  <1>8. QED
    BY <1>2, <1>3, <1>7
=============================================================================
