--------------------------- MODULE BalancerProof ---------------------------
(***************************************************************************)
(* Proofs about Balancer for any remotes, threshold, bounds and strategy:  *)
(* its variables keep their types, a client gets a remote whenever one is  *)
(* in rotation, round robin selects each once before any twice, and the    *)
(* scan of the counters finds a remote with the fewest connections.        *)
(***************************************************************************)
EXTENDS Balancer, TunnelInfoProof, FiniteSetTheorems, FunctionTheorems,
        SequenceTheorems, WellFoundedInduction

USE StrategiesAssumption, FirstAssumption, ThresholdAssumption,
    RemotesAssumption, BoundsAssumption, WordSizeAssumption

-----------------------------------------------------------------------------
(* Induction, over sets of numbers and over sets of finite sets.            *)

\* A set of numbers with 0 and all successors has every number.
LEMMA AllNumbers ==
  ASSUME NEW Q, 0 \in Q, \A n \in Nat : n \in Q => n + 1 \in Q
  PROVE  \A n \in Nat : n \in Q
<1>. SUFFICES ASSUME Nat \ Q # {} PROVE FALSE
  OBVIOUS
<1>. DEFINE T == Nat \ Q
<1>1. \E x \in T : \A y \in T : ~ (<<y, x>> \in OpToRel(<, Nat))
  <2>1. T \subseteq Nat /\ T # {}
    OBVIOUS
  <2>. HIDE DEF T
  <2>. QED
    BY <2>1, NatLessThanWellFounded, WFMin
<1>2. PICK x \in T : \A y \in T : ~ (<<y, x>> \in OpToRel(<, Nat))
  BY <1>1
<1>3. x - 1 \in Nat /\ x - 1 \in Q
  <2>1. x # 0 /\ x \in Nat
    OBVIOUS
  <2>2. x - 1 \in Nat /\ x - 1 < x
    BY <2>1
  <2>3. <<x - 1, x>> \in OpToRel(<, Nat)
    BY <2>1, <2>2 DEF OpToRel
  <2>. QED
    BY <2>2, <2>3, <1>2
<1>4. (x - 1) + 1 \in Q
  BY <1>3
<1>. QED
  BY <1>4

\* A set of subsets of a finite set that has one as soon as it has those with
\* one element less has all of them.
LEMMA AllSubsets ==
  ASSUME NEW S, IsFiniteSet(S), NEW Q,
         \A s \in SUBSET S : (\A x \in s : s \ {x} \in Q) => s \in Q
  PROVE  S \in Q
<1>. DEFINE OfSize(n) == {s \in SUBSET S : Cardinality(s) = n}
            T == {n \in Nat : OfSize(n) \subseteq Q}
<1>1. \A s \in SUBSET S : IsFiniteSet(s) /\ Cardinality(s) \in Nat
  BY FS_Subset, FS_CardinalityType
<1>2. 0 \in T
  <2>1. ASSUME NEW s \in OfSize(0) PROVE s \in Q
    <3>1. s = {}
      BY <1>1, FS_EmptySet
    <3>. QED
      BY <3>1
  <2>. QED
    BY <2>1
<1>3. ASSUME NEW n \in Nat, n \in T PROVE n + 1 \in T
  <2>1. ASSUME NEW s \in OfSize(n + 1) PROVE s \in Q
    <3>1. ASSUME NEW x \in s PROVE s \ {x} \in Q
      <4>1. Cardinality(s \ {x}) = n
        BY <1>1, FS_RemoveElement
      <4>. QED
        BY <4>1, <1>3
    <3>. QED
      BY <3>1
  <2>. QED
    BY <2>1
<1>4. \A n \in Nat : n \in T
  <2>. HIDE DEF T
  <2>. QED
    BY <1>2, <1>3, AllNumbers
<1>. QED
  BY <1>1, <1>4

-----------------------------------------------------------------------------
(* Folds. The community modules define them by a recursive function on the  *)
(* subsets of a set: each is the step from the one without a picked element.*)

Fold(g, S, base, pick, step) ==
  [s \in SUBSET S |-> IF s = {} THEN base
                      ELSE step[pick[s]][g[s \ {pick[s]}]]]

IsFold(g, S, base, pick, step) == g = Fold(g, S, base, pick, step)

\* Such a function exists.
LEMMA FoldExists ==
  ASSUME NEW S, IsFiniteSet(S), NEW V, NEW base \in V,
         NEW pick, \A s \in SUBSET S : s # {} => pick[s] \in s,
         NEW step, \A x \in S : step[x] \in [V -> V]
  PROVE  \E g \in [SUBSET S -> V] : IsFold(g, S, base, pick, step)
<1>. DEFINE Sub(n) == {s \in SUBSET S : Cardinality(s) <= n}
            Def(g, n) == [s \in Sub(n) |-> IF s = {} THEN base
                                           ELSE step[pick[s]][g[s \ {pick[s]}]]]
            T == {n \in Nat : \E g \in [Sub(n) -> V] : g = Def(g, n)}
<1>1. \A s \in SUBSET S : IsFiniteSet(s) /\ Cardinality(s) \in Nat
  BY FS_Subset, FS_CardinalityType
<1>2. 0 \in T
  <2>. DEFINE g == [s \in Sub(0) |-> base]
  <2>1. \A s \in Sub(0) : s = {}
    BY <1>1, FS_EmptySet
  <2>2. g \in [Sub(0) -> V] /\ g = Def(g, 0)
    BY <2>1
  <2>. QED
    BY <2>2
<1>3. ASSUME NEW n \in Nat, n \in T PROVE n + 1 \in T
  <2>1. PICK g \in [Sub(n) -> V] : g = Def(g, n)
    BY <1>3
  <2>. DEFINE h == Def(g, n + 1)
  <2>2. \A s \in Sub(n + 1) : s # {} => /\ pick[s] \in s
                                        /\ s \ {pick[s]} \in Sub(n)
    BY <1>1, FS_RemoveElement
  <2>3. h \in [Sub(n + 1) -> V]
    <3>1. ASSUME NEW s \in Sub(n + 1), s # {}
          PROVE  step[pick[s]][g[s \ {pick[s]}]] \in V
      <4>1. pick[s] \in S /\ g[s \ {pick[s]}] \in V
        BY <2>2, <3>1
      <4>2. step[pick[s]] \in [V -> V]
        BY <4>1
      <4>. HIDE DEF h, Sub
      <4>. QED
        BY <4>1, <4>2
    <3>. QED
      BY <3>1
  <2>4. \A s \in Sub(n) : s \in Sub(n + 1) /\ h[s] = g[s]
    <3>1. \A s \in Sub(n) : s \in Sub(n + 1)
      BY <1>1
    <3>2. \A s \in Sub(n) : g[s] = Def(g, n)[s]
      <4>. HIDE DEF Def
      <4>. QED
        BY <2>1
    <3>. HIDE DEF Sub
    <3>. QED
      BY <3>1, <3>2
  <2>5. ASSUME NEW s \in Sub(n + 1), s # {}
        PROVE  h[s \ {pick[s]}] = g[s \ {pick[s]}]
    BY <2>2, <2>4, <2>5
  <2>6. h = Def(h, n + 1)
    <3>1. \A s \in Sub(n + 1) :
            (IF s = {} THEN base ELSE step[pick[s]][g[s \ {pick[s]}]]) =
            (IF s = {} THEN base ELSE step[pick[s]][h[s \ {pick[s]}]])
      <4>. HIDE DEF h, Sub
      <4>. QED
        BY <2>5
    <3>. HIDE DEF Sub
    <3>. QED
      BY <3>1, Zenon
  <2>7. \E f \in [Sub(n + 1) -> V] : f = Def(f, n + 1)
    <3>. HIDE DEF h, Def, Sub
    <3>. QED
      BY <2>3, <2>6
  <2>. HIDE DEF h, Def, Sub
  <2>. QED
    BY <2>7
<1>4. Cardinality(S) \in T
  <2>1. Cardinality(S) \in Nat
    BY <1>1
  <2>. HIDE DEF T
  <2>. QED
    BY <1>2, <1>3, <2>1, AllNumbers
<1>5. Sub(Cardinality(S)) = SUBSET S
  BY <1>1, FS_Subset
<1>6. PICK g \in [Sub(Cardinality(S)) -> V] : g = Def(g, Cardinality(S))
  BY <1>4
<1>7. /\ g \in [SUBSET S -> V]
      /\ g = [s \in SUBSET S |-> IF s = {} THEN base
                                 ELSE step[pick[s]][g[s \ {pick[s]}]]]
  BY <1>5, <1>6, Zenon
<1>. QED
  BY <1>7, Zenon DEF IsFold, Fold

\* The sum FoldFunction makes of numbers is one, and no less than any of them.
LEMMA SumBound ==
  ASSUME NEW S, IsFiniteSet(S), NEW f \in [S -> Nat]
  PROVE  /\ FoldFunction(+, 0, f) \in Nat
         /\ \A x \in S : f[x] <= FoldFunction(+, 0, f)
<1>. DEFINE Pick(s) == CHOOSE x \in s : TRUE
            Def(g) == [s \in SUBSET S |-> IF s = {} THEN 0
                                          ELSE f[Pick(s)] + g[s \ {Pick(s)}]]
            G == CHOOSE g : g = Def(g)
<1>1. FoldFunction(+, 0, f) = G[S]
  <2>1. DOMAIN f = S
    OBVIOUS
  <2>. QED
    BY <2>1, Zenon DEF FoldFunction, FoldFunctionOnSet, MapThenFoldSet
<1>2. \A s \in SUBSET S : s # {} => Pick(s) \in s
  OBVIOUS
<1>3. \E g : g = Def(g)
  <2>. DEFINE pick == [s \in SUBSET S |-> Pick(s)]
              step == [x \in S |-> [v \in Nat |-> f[x] + v]]
  <2>1. \A s \in SUBSET S : s # {} => pick[s] \in s
    BY <1>2
  <2>2. \A x \in S : step[x] \in [Nat -> Nat]
    OBVIOUS
  <2>3. PICK g \in [SUBSET S -> Nat] : IsFold(g, S, 0, pick, step)
    <3>. HIDE DEF pick, step
    <3>. QED
      BY <2>1, <2>2, FoldExists
  <2>4. \A s \in SUBSET S :
          (IF s = {} THEN 0 ELSE step[pick[s]][g[s \ {pick[s]}]]) =
          (IF s = {} THEN 0 ELSE f[Pick(s)] + g[s \ {Pick(s)}])
    <3>. SUFFICES ASSUME NEW s \in SUBSET S, s # {}
                  PROVE  step[pick[s]][g[s \ {pick[s]}]] =
                         f[Pick(s)] + g[s \ {Pick(s)}]
      OBVIOUS
    <3>1. pick[s] = Pick(s) /\ Pick(s) \in S /\ g[s \ {Pick(s)}] \in Nat
      BY <1>2
    <3>. HIDE DEF Pick, pick
    <3>. QED
      BY <3>1
  <2>5. Fold(g, S, 0, pick, step) = Def(g)
    <3>. HIDE DEF Pick, pick, step
    <3>. QED
      BY <2>4, Zenon DEF Fold
  <2>. HIDE DEF Def, pick, step
  <2>. QED
    BY <2>3, <2>5 DEF IsFold
<1>4. G = Def(G)
  <2>. HIDE DEF Def
  <2>. QED
    BY <1>3
<1>5. ASSUME NEW s \in SUBSET S
      PROVE  G[s] = IF s = {} THEN 0 ELSE f[Pick(s)] + G[s \ {Pick(s)}]
  <2>. HIDE DEF G, Pick
  <2>. QED
    BY <1>4
<1>. HIDE DEF G
<1>. DEFINE Q == {s \in SUBSET S : G[s] \in Nat /\ \A x \in s : f[x] <= G[s]}
<1>6. ASSUME NEW s \in SUBSET S, \A x \in s : s \ {x} \in Q PROVE s \in Q
  <2>1. CASE s = {}
    BY <1>5, <2>1
  <2>2. CASE s # {}
    <3>. DEFINE x == Pick(s)
    <3>1. x \in s /\ x \in S
      BY <1>2, <2>2
    <3>2. G[s] = f[x] + G[s \ {x}]
      BY <1>5, <2>2
    <3>3. s \ {x} \in Q
      BY <1>6, <3>1
    <3>. HIDE DEF x
    <3>4. f[x] \in Nat /\ G[s \ {x}] \in Nat
      BY <3>1, <3>3
    <3>5. G[s] \in Nat /\ f[x] <= G[s] /\ G[s \ {x}] <= G[s]
      BY <3>2, <3>4
    <3>6. ASSUME NEW y \in s, y # x PROVE f[y] <= G[s]
      <4>1. f[y] <= G[s \ {x}] /\ f[y] \in Nat
        BY <3>3, <3>6
      <4>. QED
        BY <4>1, <3>4, <3>5
    <3>. QED
      BY <3>5, <3>6
  <2>. QED
    BY <2>1, <2>2
<1>7. S \in Q
  <2>. HIDE DEF Q
  <2>. QED
    BY <1>6, AllSubsets
<1>. QED
  BY <1>1, <1>7

\* A set of indexes has a greatest one.
LEMMA GreatestIndex ==
  ASSUME NEW n \in Nat, NEW s \in SUBSET (1 .. n), s # {}
  PROVE  Max(s) \in s /\ \A i \in s : i <= Max(s)
<1>. DEFINE HasMax(t) == \E i \in t : \A j \in t : i >= j
            Q == {m \in Nat : \A t \in SUBSET (1 .. m) : t # {} => HasMax(t)}
<1>1. 0 \in Q
  <2>1. \A t \in SUBSET (1 .. 0) : t = {}
    OBVIOUS
  <2>. QED
    BY <2>1
<1>2. ASSUME NEW m \in Nat, m \in Q PROVE m + 1 \in Q
  <2>1. ASSUME NEW t \in SUBSET (1 .. m + 1), t # {} PROVE HasMax(t)
    <3>1. CASE m + 1 \in t
      BY <3>1
    <3>2. CASE m + 1 \notin t
      <4>1. t \in SUBSET (1 .. m)
        BY <3>2
      <4>. QED
        BY <4>1, <1>2, <2>1
    <3>. QED
      BY <3>1, <3>2
  <2>. QED
    BY <2>1
<1>3. HasMax(s)
  <2>1. n \in Q
    <3>. HIDE DEF Q
    <3>. QED
      BY <1>1, <1>2, AllNumbers
  <2>. QED
    BY <2>1
<1>4. Max(s) \in s /\ \A i \in s : Max(s) >= i
  BY <1>3 DEF Max
<1>. QED
  BY <1>4

-----------------------------------------------------------------------------
(* The scan of MinimumOpenConnections, over the loads of the remotes.       *)

Best == [idx : Nat, val : Nat]

NoBest == [idx |-> 0, val |-> WordSize - 1]

Improve(best, idx, val) ==
  IF best.val # 0 /\ val < best.val THEN [idx |-> idx, val |-> val] ELSE best

\* The best of the remotes with these positions.
ScanOf(g, n, load) ==
  [s \in SUBSET (1 .. n) |->
     IF s = {} THEN NoBest
     ELSE Improve(g[s \ {Max(s)}], Max(s) - 1, load[Max(s) - 1])]

IsScan(g, n, load) == g = ScanOf(g, n, load)

\* The fold of the scan exists.
LEMMA ScanExists ==
  ASSUME NEW n \in Nat, NEW load \in [0 .. n - 1 -> Word]
  PROVE  \E g : IsScan(g, n, load)
<1>. DEFINE S == 1 .. n
            pick == [s \in SUBSET S |-> Max(s)]
            step == [x \in S |-> [b \in Best |-> Improve(b, x - 1, load[x - 1])]]
<1>1. IsFiniteSet(S)
  BY FS_Interval
<1>2. \A s \in SUBSET S : s # {} => pick[s] \in s
  BY GreatestIndex
<1>3. \A x \in S : x - 1 \in Nat /\ load[x - 1] \in Nat
  BY DEF Word
<1>4. \A x \in S : step[x] \in [Best -> Best]
  BY <1>3 DEF Improve, Best
<1>5. NoBest \in Best
  BY DEF NoBest, Best
<1>6. PICK g \in [SUBSET S -> Best] : IsFold(g, S, NoBest, pick, step)
  <2>. HIDE DEF S, pick, step
  <2>. QED
    BY <1>1, <1>2, <1>4, <1>5, FoldExists
<1>7. \A s \in SUBSET S :
        (IF s = {} THEN NoBest ELSE step[pick[s]][g[s \ {pick[s]}]]) =
        (IF s = {} THEN NoBest
         ELSE Improve(g[s \ {Max(s)}], Max(s) - 1, load[Max(s) - 1]))
  <2>. SUFFICES ASSUME NEW s \in SUBSET S, s # {}
                PROVE  step[pick[s]][g[s \ {pick[s]}]] =
                       Improve(g[s \ {Max(s)}], Max(s) - 1, load[Max(s) - 1])
    OBVIOUS
  <2>1. pick[s] = Max(s) /\ Max(s) \in S /\ g[s \ {Max(s)}] \in Best
    BY <1>2
  <2>. HIDE DEF pick, S
  <2>. QED
    BY <2>1
<1>8. Fold(g, S, NoBest, pick, step) = ScanOf(g, n, load)
  <2>. HIDE DEF pick, step
  <2>. QED
    BY <1>7, Zenon DEF Fold, ScanOf
<1>. HIDE DEF pick, step, S
<1>. QED
  BY <1>6, <1>8 DEF IsFold, IsScan

\* What the scan has found after the first m remotes.
FoundBy(best, m, load) ==
  /\ best \in Best
  /\ \A j \in 0 .. m - 1 : best.val <= load[j]
  /\ \/ best = NoBest
     \/ best.idx \in 0 .. m - 1 /\ best.val = load[best.idx]

\* One more remote keeps it.
LEMMA ImproveFinds ==
  ASSUME NEW n \in Nat, NEW load \in [0 .. n - 1 -> Word],
         NEW m \in Nat, m < n, NEW best, FoundBy(best, m, load)
  PROVE  FoundBy(Improve(best, m, load[m]), m + 1, load)
<1>1. load[m] \in Nat /\ \A j \in 0 .. m - 1 : load[j] \in Nat
  BY DEF Word
<1>2. best.val \in Nat /\ best.idx \in Nat
  BY DEF FoundBy, Best
<1>3. CASE best.val # 0 /\ load[m] < best.val
  <2>. DEFINE new == [idx |-> m, val |-> load[m]]
  <2>1. Improve(best, m, load[m]) = new
    BY <1>3 DEF Improve
  <2>2. \A j \in 0 .. m : load[m] <= load[j]
    <3>1. ASSUME NEW j \in 0 .. m - 1 PROVE load[m] <= load[j]
      BY <1>1, <1>2, <1>3 DEF FoundBy
    <3>. QED
      BY <1>1, <3>1
  <2>3. new \in Best /\ new.val = load[m] /\ new.idx = m
    BY <1>1 DEF Best
  <2>. HIDE DEF new
  <2>. QED
    BY <2>1, <2>2, <2>3 DEF FoundBy
<1>4. CASE best.val = 0 \/ best.val <= load[m]
  <2>1. Improve(best, m, load[m]) = best
    BY <1>1, <1>2, <1>4 DEF Improve
  <2>2. best.val <= load[m]
    BY <1>1, <1>2, <1>4
  <2>. QED
    BY <1>2, <2>1, <2>2 DEF FoundBy
<1>. QED
  BY <1>1, <1>2, <1>3, <1>4

\* The scan of all remotes finds one with the least load.
LEMMA ScanFindsLeast ==
  ASSUME NEW n \in Nat \ {0}, NEW load \in [0 .. n - 1 -> Word],
         NEW g, IsScan(g, n, load)
  PROVE  /\ g[1 .. n].idx \in 0 .. n - 1
         /\ \A j \in 0 .. n - 1 : load[g[1 .. n].idx] <= load[j]
<1>. DEFINE Q == {m \in Nat : m <= n => FoundBy(g[1 .. m], m, load)}
<1>1. ASSUME NEW s \in SUBSET (1 .. n)
      PROVE  g[s] = IF s = {} THEN NoBest
                    ELSE Improve(g[s \ {Max(s)}], Max(s) - 1, load[Max(s) - 1])
  BY Zenon DEF IsScan, ScanOf
<1>2. 0 \in Q
  <2>1. 1 .. 0 = {} /\ {} \in SUBSET (1 .. n)
    OBVIOUS
  <2>2. g[1 .. 0] = NoBest
    BY <1>1, <2>1
  <2>. QED
    BY <2>2 DEF FoundBy, Best, NoBest
<1>3. ASSUME NEW m \in Nat, m \in Q PROVE m + 1 \in Q
  <2>. SUFFICES ASSUME m + 1 <= n PROVE FoundBy(g[1 .. m + 1], m + 1, load)
    OBVIOUS
  <2>. DEFINE s == 1 .. m + 1
  <2>1. s \in SUBSET (1 .. n) /\ s \in SUBSET (1 .. m + 1) /\ m + 1 \in s
    OBVIOUS
  <2>2. Max(s) = m + 1
    <3>1. Max(s) \in s /\ \A i \in s : i <= Max(s)
      BY <2>1, GreatestIndex
    <3>2. Max(s) \in 1 .. m + 1 /\ m + 1 <= Max(s)
      BY <2>1, <3>1
    <3>. HIDE DEF s
    <3>. QED
      BY <3>2
  <2>3. s \ {m + 1} = 1 .. m
    OBVIOUS
  <2>4. g[s] = Improve(g[1 .. m], m, load[m])
    <3>1. s # {} /\ Max(s) - 1 = m
      BY <2>1, <2>2
    <3>. HIDE DEF s
    <3>. QED
      BY <1>1, <2>1, <2>2, <2>3, <3>1
  <2>. QED
    BY <1>3, <2>4, ImproveFinds
<1>4. FoundBy(g[1 .. n], n, load)
  <2>1. n \in Q
    <3>. HIDE DEF Q
    <3>. QED
      BY <1>2, <1>3, AllNumbers
  <2>. QED
    BY <2>1
<1>. DEFINE best == g[1 .. n]
<1>. HIDE DEF best
<1>5. CASE best = NoBest
  <2>1. best.idx = 0 /\ best.val = WordSize - 1
    BY <1>5 DEF NoBest
  <2>2. \A j \in 0 .. n - 1 : load[j] = WordSize - 1
    <3>. SUFFICES ASSUME NEW j \in 0 .. n - 1 PROVE load[j] = WordSize - 1
      OBVIOUS
    <3>1. load[j] \in 0 .. WordSize - 1
      BY DEF Word
    <3>2. WordSize - 1 <= load[j]
      BY <1>4, <2>1 DEF FoundBy, best
    <3>. QED
      BY <3>1, <3>2
  <2>3. 0 \in 0 .. n - 1
    OBVIOUS
  <2>. QED
    BY <2>1, <2>2, <2>3 DEF best
<1>6. CASE best # NoBest
  BY <1>4, <1>6 DEF FoundBy, best
<1>. QED
  BY <1>5, <1>6

-----------------------------------------------------------------------------
(* Rotation as a sequence without repetitions.                              *)

OrderOK(s) ==
  /\ s \in Seq(Remotes)
  /\ \A i, j \in 1 .. Len(s) : s[i] = s[j] => i = j

\* A remote that enters rotation is its last.
LEMMA AppendFacts ==
  ASSUME NEW s, OrderOK(s), NEW r \in Remotes, r \notin ToSet(s)
  PROVE  /\ OrderOK(Append(s, r))
         /\ ToSet(Append(s, r)) = ToSet(s) \cup {r}
<1>. DEFINE t == Append(s, r)
            n == Len(s)
<1>1. /\ t \in Seq(Remotes)
      /\ Len(t) = n + 1
      /\ t[n + 1] = r
      /\ \A i \in 1 .. n : t[i] = s[i]
      /\ n \in Nat
  BY DEF OrderOK
<1>2. \A i \in 1 .. n : s[i] # r
  BY DEF OrderOK, ToSet
<1>. HIDE DEF t
<1>3. OrderOK(t)
  BY <1>1, <1>2 DEF OrderOK
<1>4. ToSet(t) = ToSet(s) \cup {r}
  <2>1. DOMAIN t = 1 .. n + 1 /\ DOMAIN s = 1 .. n
    BY <1>1 DEF OrderOK
  <2>. HIDE DEF n
  <2>2. 1 .. n + 1 = (1 .. n) \cup {n + 1}
    BY <1>1
  <2>. QED
    BY <1>1, <2>1, <2>2 DEF ToSet
<1>. QED
  BY <1>3, <1>4 DEF t

\* A remote that leaves rotation is the only one that does.
LEMMA SwapRemoveFacts ==
  ASSUME NEW s, OrderOK(s), NEW r \in ToSet(s)
  PROVE  /\ OrderOK(SwapRemove(s, r))
         /\ ToSet(SwapRemove(s, r)) = ToSet(s) \ {r}
<1>. DEFINE n == Len(s)
            u == [i \in 1 .. n |-> IF s[i] = r THEN s[n] ELSE s[i]]
            t == SwapRemove(s, r)
<1>1. n \in Nat /\ DOMAIN s = 1 .. n /\ \A i \in 1 .. n : s[i] \in Remotes
  BY DEF OrderOK
<1>2. PICK k \in 1 .. n : s[k] = r
  BY <1>1 DEF ToSet
<1>3. n \in 1 .. n /\ n # 0
  BY <1>1, <1>2
<1>4. \A i \in 1 .. n : u[i] \in Remotes
  BY <1>1, <1>3
<1>5. u \in Seq(Remotes) /\ Len(u) = n
  BY <1>1, <1>4
<1>6. t = SubSeq(u, 1, n - 1)
  BY <1>1, <1>5, Zenon DEF SwapRemove, Front, Last
<1>. HIDE DEF u, t, n
<1>7. /\ t \in Seq(Remotes)
      /\ Len(t) = n - 1
      /\ \A i \in 1 .. n - 1 : t[i] = u[i]
  BY <1>1, <1>3, <1>5, <1>6
<1>8. \A i \in 1 .. n - 1 : t[i] = IF i = k THEN s[n] ELSE s[i]
  <2>. SUFFICES ASSUME NEW i \in 1 .. n - 1
                PROVE  t[i] = IF i = k THEN s[n] ELSE s[i]
    OBVIOUS
  <2>1. i \in 1 .. n
    BY <1>1
  <2>2. s[i] = r <=> i = k
    BY <1>2, <2>1 DEF OrderOK, n
  <2>3. u[i] = IF s[i] = r THEN s[n] ELSE s[i]
    BY <2>1 DEF u
  <2>. QED
    BY <1>7, <2>2, <2>3
<1>9. OrderOK(t)
  <2>1. \A i, j \in 1 .. n : s[i] = s[j] => i = j
    BY DEF OrderOK, n
  <2>. QED
    BY <1>1, <1>2, <1>3, <1>7, <1>8, <2>1 DEF OrderOK
<1>10. ToSet(t) = ToSet(s) \ {r}
  <2>1. \A i, j \in 1 .. n : s[i] = s[j] => i = j
    BY DEF OrderOK, n
  <2>2. DOMAIN t = 1 .. n - 1
    BY <1>7
  <2>3. ASSUME NEW x \in ToSet(t) PROVE x \in ToSet(s) \ {r}
    <3>1. PICK i \in 1 .. n - 1 : x = t[i]
      BY <2>2 DEF ToSet
    <3>2. i \in 1 .. n /\ i # n
      BY <1>1, <3>1
    <3>. QED
      BY <1>1, <1>2, <1>3, <1>8, <2>1, <3>1, <3>2 DEF ToSet
  <2>4. ASSUME NEW x \in ToSet(s), x # r PROVE x \in ToSet(t)
    <3>1. PICK i \in 1 .. n : x = s[i]
      BY <1>1 DEF ToSet
    <3>2. i # k
      BY <1>2, <2>4, <3>1
    <3>3. CASE i = n
      <4>1. k \in 1 .. n - 1 /\ t[k] = x
        BY <1>1, <1>8, <3>1, <3>2, <3>3
      <4>. QED
        BY <2>2, <4>1 DEF ToSet
    <3>4. CASE i # n
      <4>1. i \in 1 .. n - 1 /\ t[i] = x
        BY <1>1, <1>8, <3>1, <3>2, <3>4
      <4>. QED
        BY <2>2, <4>1 DEF ToSet
    <3>. QED
      BY <3>3, <3>4
  <2>. QED
    BY <2>3, <2>4
<1>. QED
  BY <1>9, <1>10 DEF t

\* Rotation is no longer than there are remotes, and has all of a set it is as
\* long as.
LEMMA OrderLength ==
  ASSUME NEW s, OrderOK(s), NEW rs \in SUBSET Remotes, ToSet(s) \subseteq rs
  PROVE  /\ Cardinality(rs) \in Nat
         /\ Len(s) <= Cardinality(rs)
         /\ Len(s) = Cardinality(rs) => ToSet(s) = rs
<1>. DEFINE n == Len(s)
<1>1. n \in Nat /\ DOMAIN s = 1 .. n /\ s \in [1 .. n -> rs]
  BY DEF OrderOK, ToSet
<1>2. s \in Injection(1 .. n, rs)
  <2>1. IsInjective(s)
    BY <1>1 DEF OrderOK, IsInjective
  <2>. QED
    BY <1>1, <2>1 DEF Injection
<1>3. IsFiniteSet(rs) /\ Cardinality(rs) \in Nat
  BY FS_Subset, FS_CardinalityType
<1>4. Cardinality(1 .. n) = n
  BY <1>1, FS_Interval
<1>5. /\ n <= Cardinality(rs)
      /\ n = Cardinality(rs) <=> s \in Surjection(1 .. n, rs)
  <2>. HIDE DEF n
  <2>. QED
    BY <1>2, <1>3, <1>4, FS_Injection
<1>6. s \in Surjection(1 .. n, rs) => ToSet(s) = rs
  BY <1>1 DEF Surjection, ToSet
<1>. QED
  BY <1>3, <1>5, <1>6

-----------------------------------------------------------------------------
(* The index a strategy chooses.                                            *)

RecordsOK ==
  /\ IsMap(info, Remotes)
  /\ \A r \in DOMAIN info : info[r] \in RemoteInfo

PlacesOK ==
  /\ OrderOK(order)
  /\ RecordsOK
  /\ Live \subseteq DOMAIN info

\* The remotes in rotation are those at its indexes.
LEMMA KeysAreLive ==
  ASSUME OrderOK(order)
  PROVE  /\ Size \in Nat
         /\ order # <<>> <=> Size # 0
         /\ \A idx \in 0 .. Size - 1 : Key(idx) \in Live
         /\ \A r \in Live : \E idx \in 0 .. Size - 1 : r = Key(idx)
         /\ \A i, j \in 0 .. Size - 1 : Key(i) = Key(j) => i = j
         /\ Live \subseteq Remotes
<1>. DEFINE n == Size
<1>1. /\ n \in Nat
      /\ DOMAIN order = 1 .. n
      /\ \A i \in 1 .. n : order[i] \in Remotes
      /\ order # <<>> <=> n # 0
      /\ \A i, j \in 1 .. n : order[i] = order[j] => i = j
  BY EmptySeq DEF OrderOK, Size
<1>2. ASSUME NEW idx \in 0 .. n - 1 PROVE idx + 1 \in 1 .. n /\ Key(idx) \in Live
  BY <1>1 DEF Key, Live, ToSet
<1>3. ASSUME NEW r \in Live PROVE \E idx \in 0 .. n - 1 : r = Key(idx)
  <2>1. PICK i \in 1 .. n : r = order[i]
    BY <1>1 DEF Live, ToSet
  <2>2. i - 1 \in 0 .. n - 1 /\ (i - 1) + 1 = i
    BY <1>1
  <2>3. Key(i - 1) = r
    BY <2>1, <2>2 DEF Key
  <2>. QED
    BY <2>2, <2>3
<1>4. ASSUME NEW i \in 0 .. n - 1, NEW j \in 0 .. n - 1, Key(i) = Key(j)
      PROVE  i = j
  <2>1. i + 1 = j + 1
    BY <1>1, <1>2, <1>4 DEF Key
  <2>. QED
    BY <1>1, <2>1
<1>5. Live \subseteq Remotes
  BY <1>1 DEF Live, ToSet
<1>. HIDE DEF n
<1>6. \A idx \in 0 .. n - 1 : Key(idx) \in Live
  BY <1>2
<1>. QED
  BY <1>1, <1>3, <1>4, <1>5, <1>6 DEF n

\* The scan of the counters ends at a remote whose counters add up to the
\* fewest connections.
LEMMA LeastIndexFinds ==
  ASSUME PlacesOK, order # <<>>
  PROVE  /\ LeastIndex \in 0 .. Size - 1
         /\ \A j \in 0 .. Size - 1 :
              open_conns(Key(LeastIndex)) <= open_conns(Key(j))
<1>. DEFINE n == Size
            load == [j \in 0 .. n - 1 |-> open_conns(Key(j))]
            seq == [i \in 1 .. n |-> i - 1]
            Better(best, idx) ==
              IF best.val # 0 /\ open_conns(Key(idx)) < best.val
              THEN [idx |-> idx, val |-> open_conns(Key(idx))] ELSE best
            Def(g) == [s \in SUBSET (1 .. n) |->
                         IF s = {} THEN [idx |-> 0, val |-> WordSize - 1]
                         ELSE Better(g[s \ {Max(s)}], seq[Max(s)])]
            G == CHOOSE g : g = Def(g)
<1>1. n \in Nat \ {0} /\ \A j \in 0 .. n - 1 : Key(j) \in DOMAIN info
  BY KeysAreLive DEF PlacesOK
<1>2. load \in [0 .. n - 1 -> Word]
  <2>1. ASSUME NEW r \in DOMAIN info PROVE open_conns(r) \in Word
    <3>1. info[r].streams_open \in Word /\ info[r].streams_pending \in Word
      BY DEF PlacesOK, RecordsOK, RemoteInfo
    <3>. QED
      BY <3>1 DEF open_conns, Word
  <2>. QED
    BY <1>1, <2>1
<1>3. LeastIndex = G[1 .. n].idx
  <2>1. DOMAIN seq = 1 .. n
    OBVIOUS
  <2>. QED
    BY <2>1, Zenon DEF LeastIndex, FoldLeft, MapThenFoldSet
<1>4. ASSUME NEW g PROVE Def(g) = ScanOf(g, n, load)
  <2>1. ASSUME NEW s \in SUBSET (1 .. n), s # {}
        PROVE  Better(g[s \ {Max(s)}], seq[Max(s)]) =
               Improve(g[s \ {Max(s)}], Max(s) - 1, load[Max(s) - 1])
    <3>1. Max(s) \in 1 .. n
      BY <1>1, <2>1, GreatestIndex
    <3>2. Max(s) - 1 \in 0 .. n - 1 /\ seq[Max(s)] = Max(s) - 1
      BY <1>1, <3>1
    <3>3. load[Max(s) - 1] = open_conns(Key(Max(s) - 1))
      BY <3>2
    <3>. HIDE DEF load, seq, n
    <3>. QED
      BY <3>2, <3>3 DEF Improve
  <2>2. \A s \in SUBSET (1 .. n) :
          (IF s = {} THEN [idx |-> 0, val |-> WordSize - 1]
           ELSE Better(g[s \ {Max(s)}], seq[Max(s)])) =
          (IF s = {} THEN NoBest
           ELSE Improve(g[s \ {Max(s)}], Max(s) - 1, load[Max(s) - 1]))
    <3>. HIDE DEF load, seq, n, Better
    <3>. QED
      BY <2>1 DEF NoBest
  <2>. HIDE DEF load, seq, n, Better
  <2>. QED
    BY <2>2, Zenon DEF ScanOf
<1>5. \E g : g = Def(g)
  <2>1. PICK g : IsScan(g, n, load)
    BY <1>1, <1>2, ScanExists
  <2>2. g = Def(g)
    <3>. HIDE DEF Def, load
    <3>. QED
      BY <1>4, <2>1 DEF IsScan
  <2>. HIDE DEF Def
  <2>. QED
    BY <2>2
<1>6. IsScan(G, n, load)
  <2>1. G = Def(G)
    <3>. HIDE DEF Def
    <3>. QED
      BY <1>5
  <2>. HIDE DEF Def, load, G
  <2>. QED
    BY <1>4, <2>1 DEF IsScan
<1>7. /\ G[1 .. n].idx \in 0 .. n - 1
      /\ \A j \in 0 .. n - 1 : load[G[1 .. n].idx] <= load[j]
  <2>. HIDE DEF G, load
  <2>. QED
    BY <1>1, <1>2, <1>6, ScanFindsLeast
<1>8. \A j \in 0 .. n - 1 : load[j] = open_conns(Key(j))
  OBVIOUS
<1>. HIDE DEF G, load, n
<1>. QED
  BY <1>3, <1>7, <1>8 DEF n

\* Round robin goes to the index after the last one, and to the first after
\* the end of rotation.
LEMMA NextIndexFacts ==
  ASSUME NEW n \in Nat \ {0}, Size = n
  PROVE  /\ last_selected_index \in {NoIndex} \cup Nat => NextIndex \in 0 .. n - 1
         /\ last_selected_index \in 0 .. n - 1 =>
              NextIndex = IF last_selected_index = n - 1 THEN 0
                          ELSE last_selected_index + 1
<1>1. \A x \in Nat : x % n \in 0 .. n - 1
  OBVIOUS
<1>2. \A x \in 0 .. n - 1 : x % n = x
  OBVIOUS
<1>3. n % n = 0
  OBVIOUS
<1>4. ASSUME last_selected_index \in {NoIndex} \cup Nat
      PROVE  NextIndex \in 0 .. n - 1
  <2>. DEFINE last == IF last_selected_index = NoIndex THEN n - 1
                      ELSE last_selected_index
  <2>1. last + 1 \in Nat /\ NextIndex = (last + 1) % n
    BY <1>4 DEF NextIndex
  <2>. HIDE DEF last
  <2>. QED
    BY <1>1, <2>1
<1>5. ASSUME last_selected_index \in 0 .. n - 1
      PROVE  NextIndex = IF last_selected_index = n - 1 THEN 0
                         ELSE last_selected_index + 1
  <2>1. NextIndex = (last_selected_index + 1) % n
    BY <1>5 DEF NextIndex, NoIndex
  <2>2. CASE last_selected_index = n - 1
    BY <1>3, <2>1, <2>2
  <2>3. CASE last_selected_index # n - 1
    BY <1>2, <1>5, <2>1, <2>3
  <2>. QED
    BY <2>2, <2>3
<1>. QED
  BY <1>4, <1>5

\* Every strategy chooses an index of rotation.
LEMMA EligibleInRange ==
  ASSUME PlacesOK, order # <<>>, lb_strategy \in Strategies,
         last_selected_index \in {NoIndex} \cup Nat
  PROVE  Eligible # {} /\ Eligible \subseteq 0 .. Size - 1
<1>1. Size \in Nat \ {0}
  BY KeysAreLive DEF PlacesOK
<1>2. NextIndex \in 0 .. Size - 1
  BY <1>1, NextIndexFacts
<1>3. LeastIndex \in 0 .. Size - 1
  BY LeastIndexFinds
<1>4. lb_strategy \in {"Random", "RoundRobin", "MinimumOpenConnections"}
  BY DEF AllStrategies
<1>. QED
  BY <1>1, <1>2, <1>3, <1>4 DEF Eligible

-----------------------------------------------------------------------------
(* Types. The inductive invariant adds to TypeOK that the connections of    *)
(* one remote are among those that may be at one time.                      *)

CountsOK ==
  /\ attempts \in [Remotes -> Nat]
  /\ streams \in [Remotes -> Nat]
  /\ \A r \in Remotes : attempts[r] + streams[r] <= MaxSteady

IndexOK == last_selected_index \in {NoIndex} \cup 0 .. Cardinality(Remotes) - 1

TypeInv ==
  /\ lb_strategy \in Strategies
  /\ PlacesOK
  /\ IndexOK
  /\ CountsOK
  /\ round \subseteq Live

\* It implies the type of the variables and the range of what is chosen.
LEMMA TypeInvSuffices == TypeInv => TypeOK /\ SelectionInRange
<1>. SUFFICES ASSUME TypeInv PROVE TypeOK /\ SelectionInRange
  OBVIOUS
<1>1. last_selected_index \in {NoIndex} \cup Nat
  BY DEF TypeInv, IndexOK
<1>2. SelectionInRange
  BY <1>1, EligibleInRange DEF TypeInv, SelectionInRange
<1>3. attempts \in [Remotes -> 0 .. MaxSteady] /\ streams \in [Remotes -> 0 .. MaxSteady]
  BY DEF TypeInv, CountsOK
<1>4. TypeOK
  BY <1>3 DEF TypeInv, TypeOK, IndexOK, PlacesOK, OrderOK, RecordsOK, Size
<1>. QED
  BY <1>2, <1>4

\* What select_remote selects is in rotation, and below the bound.
LEMMA SelectFacts ==
  ASSUME TypeInv, Select
  PROVE  \E idx \in Eligible :
           /\ idx \in 0 .. Size - 1
           /\ Key(idx) \in Live
           /\ Key(idx) \in Remotes
           /\ Key(idx) \in DOMAIN info
           /\ attempts[Key(idx)] + streams[Key(idx)] < MaxSteady
           /\ last_selected_index' = idx
           /\ Selected(Key(idx))
<1>1. PICK idx \in Eligible : last_selected_index' = idx /\ Selected(Key(idx))
  BY DEF Select
<1>2. order # <<>> /\ SelectionInRange /\ PlacesOK /\ CountsOK
  BY TypeInvSuffices DEF Select, TypeInv
<1>3. idx \in 0 .. Size - 1
  BY <1>1, <1>2 DEF SelectionInRange
<1>4. Key(idx) \in Live /\ Key(idx) \in Remotes /\ Key(idx) \in DOMAIN info
  BY <1>2, <1>3, KeysAreLive DEF PlacesOK
<1>5. attempts[Key(idx)] + streams[Key(idx)] < MaxSteady
  <2>. DEFINE a == FoldFunction(+, 0, attempts)
              b == FoldFunction(+, 0, streams)
              r == Key(idx)
  <2>1. a + b < MaxSteady
    <3>1. a + b < (IF steady THEN MaxSteady ELSE MaxStreams)
      BY DEF Select, MayStart, InUse
    <3>2. a \in Nat /\ b \in Nat
      BY <1>2, SumBound DEF CountsOK
    <3>. HIDE DEF a, b
    <3>. QED
      BY <3>1, <3>2
  <2>2. /\ a \in Nat /\ b \in Nat
        /\ attempts[r] <= a /\ streams[r] <= b
        /\ attempts[r] \in Nat /\ streams[r] \in Nat
    BY <1>2, <1>4, SumBound DEF CountsOK
  <2>. HIDE DEF a, b, r
  <2>3. attempts[r] + streams[r] < MaxSteady
    BY <2>1, <2>2
  <2>. QED
    BY <2>3 DEF r
<1>. QED
  BY <1>1, <1>3, <1>4, <1>5

\* A record replaced by another.
LEMMA RecordReplaced ==
  ASSUME RecordsOK, NEW r \in DOMAIN info, NEW ri \in RemoteInfo,
         info' = [info EXCEPT ![r] = ri]
  PROVE  /\ RecordsOK'
         /\ DOMAIN info' = DOMAIN info
         /\ info'[r] = ri
         /\ \A s \in DOMAIN info : s # r => info'[s] = info[s]
<1>1. IsMap(info, Remotes)
  BY DEF RecordsOK
<1>2. /\ IsMap(info', Remotes)
      /\ DOMAIN info' = DOMAIN info
      /\ info'[r] = ri
      /\ \A s \in DOMAIN info : s # r => info'[s] = info[s]
  BY <1>1, EntryFacts, Zenon
<1>. QED
  BY <1>2 DEF RecordsOK

\* What every step does to the records.
LEMMA RecordsStep ==
  ASSUME TypeInv, [Next]_vars
  PROVE  RecordsOK'
<1>1. RecordsOK
  BY DEF TypeInv, PlacesOK
<1>2. ASSUME NEW r \in DOMAIN info, NEW ri \in RemoteInfo,
             info' = [info EXCEPT ![r] = ri]
      PROVE  RecordsOK'
  BY <1>1, <1>2, RecordReplaced
<1>3. ASSUME NEW r \in DOMAIN info
      PROVE  /\ new_pending_stream(info[r]) \in RemoteInfo
             /\ remote_connected(info[r]) \in RemoteInfo
             /\ error(info[r]) \in RemoteInfo
             /\ remote_recovered(info[r]) \in RemoteInfo
             /\ remote_disconnected(info[r]) \in RemoteInfo
  BY <1>1, RemoteInfoTypes DEF RecordsOK
<1>4. Live \subseteq DOMAIN info
  BY DEF TypeInv, PlacesOK
<1>5. ASSUME UNCHANGED info PROVE RecordsOK'
  BY <1>1, <1>5 DEF RecordsOK
<1>6. CASE Select
  <2>1. PICK r \in DOMAIN info : info' = [info EXCEPT ![r] = new_pending_stream(info[r])]
    BY <1>6, SelectFacts DEF Selected
  <2>. QED
    BY <1>2, <1>3, <2>1
<1>7. ASSUME NEW r \in Remotes, Connected(r) \/ Failed(r) \/ Disconnected(r)
      PROVE  RecordsOK'
  <2>1. CASE r \in Live
    <3>1. \/ info' = [info EXCEPT ![r] = remote_connected(info[r])]
          \/ info' = [info EXCEPT ![r] = error(info[r])]
          \/ info' = [info EXCEPT ![r] = remote_disconnected(info[r])]
      BY <1>7, <2>1 DEF Connected, Failed, Disconnected
    <3>. QED
      BY <1>2, <1>3, <1>4, <2>1, <3>1
  <2>2. CASE r \notin Live
    BY <1>5, <1>7, <2>2 DEF Connected, Failed, Disconnected
  <2>. QED
    BY <2>1, <2>2
<1>8. ASSUME NEW r \in Remotes, Recovered(r) PROVE RecordsOK'
  BY <1>2, <1>3, <1>8 DEF Recovered, Dead
<1>9. ASSUME NEW r \in Remotes, Add(r) PROVE RecordsOK'
  <2>1. /\ IsMap(info, Remotes)
        /\ info' = Put(info, r, NewRemoteInfo)
    BY <1>1, <1>9 DEF RecordsOK, Add
  <2>. DEFINE new == Put(info, r, NewRemoteInfo)
  <2>2. /\ IsMap(new, Remotes)
        /\ DOMAIN new = DOMAIN info \cup {r}
        /\ new[r] = NewRemoteInfo
        /\ \A x \in DOMAIN info : x # r => new[x] = info[x]
    BY <2>1 DEF IsMap, Put
  <2>. HIDE DEF new
  <2>. QED
    BY <1>1, <2>1, <2>2, NewRemoteInfoType DEF RecordsOK, new
<1>10. ASSUME NEW r \in Removable, RemoveRemote(r) PROVE RecordsOK'
  <2>1. /\ IsMap(info, Remotes) /\ r \in Remotes
        /\ info' = Drop(info, r)
    BY <1>1, <1>10 DEF RecordsOK, RemoveRemote, IsMap
  <2>2. /\ IsMap(info', Remotes)
        /\ DOMAIN info' = DOMAIN info \ {r}
        /\ \A x \in DOMAIN info : x # r => info'[x] = info[x]
    BY <2>1, DropFacts
  <2>. QED
    BY <1>1, <2>2 DEF RecordsOK
<1>. QED
  BY <1>5, <1>6, <1>7, <1>8, <1>9, <1>10 DEF Next, vars

\* A remote leaves rotation and the others stay.
LEMMA LeavesFacts ==
  ASSUME PlacesOK, NEW r \in Live, Leaves(r)
  PROVE  /\ OrderOK(order')
         /\ Live' = Live \ {r}
         /\ round' = {}
         /\ steady' = FALSE
BY SwapRemoveFacts DEF PlacesOK, Leaves, Live

\* A remote enters rotation.
LEMMA EntersFacts ==
  ASSUME PlacesOK, NEW r \in Remotes, r \notin Live, Enters(r)
  PROVE  /\ OrderOK(order')
         /\ Live' = Live \cup {r}
         /\ round' = {}
BY AppendFacts DEF PlacesOK, Enters, Live

\* What every step but a selection does to the places of the remotes.
LEMMA PlacesStep ==
  ASSUME TypeInv, [Next]_vars
  PROVE  PlacesOK' /\ round' \subseteq Live'
<1>1. PlacesOK /\ Live \subseteq DOMAIN info /\ round \subseteq Live
  BY DEF TypeInv, PlacesOK
<1>2. RecordsOK'
  BY RecordsStep
<1>3. ASSUME UNCHANGED order, Live \subseteq DOMAIN info', round' \subseteq Live
      PROVE  PlacesOK' /\ round' \subseteq Live'
  BY <1>1, <1>2, <1>3 DEF PlacesOK, Live
<1>4. ASSUME NEW r \in Live, Leaves(r), Live \ {r} \subseteq DOMAIN info'
      PROVE  PlacesOK' /\ round' \subseteq Live'
  BY <1>1, <1>2, <1>4, LeavesFacts DEF PlacesOK
<1>5. ASSUME NEW r \in Remotes, r \notin Live, Enters(r),
             Live \cup {r} \subseteq DOMAIN info'
      PROVE  PlacesOK' /\ round' \subseteq Live'
  BY <1>1, <1>2, <1>5, EntersFacts DEF PlacesOK
<1>6. CASE Select
  <2>1. PICK r \in Live : /\ info' = [info EXCEPT ![r] = new_pending_stream(info[r])]
                          /\ round' \subseteq round \cup {r}
    BY <1>6, SelectFacts DEF Selected
  <2>2. UNCHANGED order /\ DOMAIN info' = DOMAIN info
    BY <1>6, <2>1 DEF Select
  <2>. QED
    BY <1>1, <1>3, <2>1, <2>2
<1>7. ASSUME NEW r \in Remotes, Connected(r) \/ Failed(r) \/ Disconnected(r)
      PROVE  PlacesOK' /\ round' \subseteq Live'
  <2>1. DOMAIN info' = DOMAIN info
    <3>1. \/ UNCHANGED info
          \/ \E ri : info' = [info EXCEPT ![r] = ri]
      BY <1>7 DEF Connected, Failed, Disconnected
    <3>. QED
      BY <3>1
  <2>2. \/ UNCHANGED <<order, round>>
        \/ r \in Live /\ Leaves(r)
    BY <1>7 DEF Connected, Failed, Disconnected
  <2>. QED
    BY <1>1, <1>3, <1>4, <2>1, <2>2
<1>8. ASSUME NEW r \in Remotes, Recovered(r) PROVE PlacesOK' /\ round' \subseteq Live'
  <2>1. /\ r \in DOMAIN info /\ r \notin Live
        /\ DOMAIN info' = DOMAIN info
        /\ Enters(r)
    BY <1>8 DEF Recovered, Dead
  <2>. QED
    BY <1>1, <1>5, <2>1
<1>9. ASSUME NEW r \in Remotes, Add(r) PROVE PlacesOK' /\ round' \subseteq Live'
  <2>1. /\ r \notin Live
        /\ DOMAIN info' = DOMAIN info \cup {r}
        /\ Enters(r)
    BY <1>1, <1>9 DEF Add, Put
  <2>. QED
    BY <1>1, <1>5, <2>1
<1>10. ASSUME NEW r \in Removable, RemoveRemote(r)
       PROVE  PlacesOK' /\ round' \subseteq Live'
  <2>1. DOMAIN info' = DOMAIN info \ {r}
    BY <1>10 DEF RemoveRemote, Drop
  <2>2. CASE r \in Live
    BY <1>1, <1>4, <1>10, <2>1, <2>2 DEF RemoveRemote
  <2>3. CASE r \notin Live
    BY <1>1, <1>3, <1>10, <2>1, <2>3 DEF RemoveRemote
  <2>. QED
    BY <2>2, <2>3
<1>11. CASE UNCHANGED vars
  BY <1>1, <1>3, <1>11 DEF vars
<1>. QED
  BY <1>6, <1>7, <1>8, <1>9, <1>10, <1>11 DEF Next

\* Attempts and streams stay within the bound.
LEMMA CountsStep ==
  ASSUME TypeInv, [Next]_vars
  PROVE  CountsOK'
<1>1. CountsOK
  BY DEF TypeInv
<1>2. ASSUME UNCHANGED <<attempts, streams>> PROVE CountsOK'
  BY <1>1, <1>2 DEF CountsOK
<1>3. CASE Select
  <2>1. PICK r \in Remotes : /\ attempts[r] + streams[r] < MaxSteady
                             /\ attempts' = [attempts EXCEPT ![r] = @ + 1]
    BY <1>3, SelectFacts DEF Selected
  <2>2. UNCHANGED streams
    BY <1>3 DEF Select
  <2>. QED
    BY <1>1, <2>1, <2>2 DEF CountsOK
<1>4. ASSUME NEW r \in Remotes, Connected(r) \/ Failed(r) \/ Disconnected(r)
      PROVE  CountsOK'
  BY <1>1, <1>4 DEF CountsOK, Connected, Failed, Disconnected
<1>. QED
  BY <1>2, <1>3, <1>4 DEF Next, Recovered, Add, RemoveRemote, vars

\* The index selected last was one of rotation at that time.
LEMMA IndexStep ==
  ASSUME TypeInv, [Next]_vars
  PROVE  IndexOK'
<1>1. CASE Select
  <2>1. last_selected_index' \in 0 .. Size - 1
    BY <1>1, SelectFacts
  <2>2. Size \in Nat /\ Live \subseteq Remotes /\ OrderOK(order)
    BY KeysAreLive DEF TypeInv, PlacesOK
  <2>3. Cardinality(Remotes) \in Nat /\ Size <= Cardinality(Remotes)
    BY <2>2, OrderLength DEF Size, Live
  <2>. QED
    BY <2>1, <2>2, <2>3 DEF IndexOK
<1>. QED
  BY <1>1 DEF TypeInv, IndexOK, Next, Connected, Failed, Disconnected, Recovered,
     Add, RemoveRemote, vars

\* The initial states.
LEMMA BalancerStarts ==
  ASSUME Init
  PROVE  TypeInv /\ DOMAIN info = Live
<1>1. PICK remotes \in First : /\ order \in SetToSeqs(remotes)
                               /\ info = [r \in remotes |-> NewRemoteInfo]
  BY DEF Init
<1>2. remotes \in SUBSET Remotes
  OBVIOUS
<1>. DEFINE n == Cardinality(remotes)
<1>3. n \in Nat
  BY <1>2, FS_Subset, FS_CardinalityType
<1>4. /\ order \in [1 .. n -> remotes]
      /\ \A i, j \in 1 .. n : order[i] = order[j] => i = j
  BY <1>1 DEF SetToSeqs
<1>. HIDE DEF n
<1>5. OrderOK(order) /\ Len(order) = n /\ ToSet(order) \subseteq remotes
  BY <1>2, <1>3, <1>4 DEF OrderOK, ToSet
<1>6. Live = remotes /\ DOMAIN info = remotes
  <2>1. ToSet(order) = remotes
    BY <1>2, <1>5, OrderLength DEF n
  <2>. QED
    BY <1>1, <2>1 DEF Live
<1>7. RecordsOK
  BY <1>1, <1>2, NewRemoteInfoType DEF RecordsOK, IsMap
<1>8. CountsOK /\ IndexOK
  BY DEF Init, CountsOK, IndexOK
<1>. QED
  BY <1>5, <1>6, <1>7, <1>8 DEF Init, TypeInv, PlacesOK

LEMMA TypeInvStep ==
  ASSUME TypeInv, [Next]_vars
  PROVE  TypeInv'
<1>1. lb_strategy' = lb_strategy
  BY DEF Next, Select, Connected, Failed, Disconnected, Recovered, Add,
     RemoveRemote, vars
<1>. QED
  BY <1>1, PlacesStep, CountsStep, IndexStep DEF TypeInv

LEMMA TypeInvAlways == Spec => []TypeInv
<1>1. Init => TypeInv
  BY BalancerStarts
<1>. QED
  BY <1>1, TypeInvStep, PTL DEF Spec

\* Every variable has its type in every reachable state, and rotation has no
\* remote twice: removal by swapping and returning from the dead keep it so.
THEOREM TypeCorrect == Spec => []TypeOK
BY TypeInvAlways, TypeInvSuffices, PTL

\* While a remote is in rotation every strategy selects one, wherever the
\* index was left by remotes that have gone.
THEOREM RemoteIsFound == Spec => []SelectionInRange
BY TypeInvAlways, TypeInvSuffices, PTL

-----------------------------------------------------------------------------
(* Round robin. The remotes of a round are those at the m indexes up to the *)
(* last one selected, going round rotation.                                 *)

InRound(idx, m, n, last) ==
  \/ idx <= last /\ last - idx < m
  \/ idx > last /\ last + n - idx < m

\* A round of one.
LEMMA FirstInRound ==
  ASSUME NEW n \in Nat \ {0}, NEW next \in 0 .. n - 1, NEW idx \in 0 .. n - 1
  PROVE  InRound(idx, 1, n, next) <=> idx = next
BY DEF InRound

IsRound(m, n) ==
  \A idx \in 0 .. n - 1 :
    Key(idx) \in round <=> InRound(idx, m, n, last_selected_index)

RoundInv ==
  lb_strategy = "RoundRobin" /\ round # {} =>
    /\ last_selected_index \in 0 .. Size - 1
    /\ \E m \in 1 .. Size - 1 : IsRound(m, Size)

\* Only a selection raises the attempts, and those of the selected remote.
LEMMA AttemptsRise ==
  ASSUME TypeInv, [Next]_vars, NEW r \in Remotes, attempts'[r] > attempts[r]
  PROVE  Select /\ \E idx \in Eligible : r = Key(idx)
<1>1. attempts \in [Remotes -> Nat]
  BY DEF TypeInv, CountsOK
<1>2. ~ UNCHANGED attempts
  BY <1>1
<1>3. ASSUME NEW s \in Remotes, attempts' = [attempts EXCEPT ![s] = @ - 1]
      PROVE  FALSE
  BY <1>1, <1>3
<1>4. Select
  BY <1>2, <1>3 DEF Next, Connected, Failed, Disconnected, Recovered, Add,
     RemoveRemote, vars
<1>5. PICK idx \in Eligible : /\ Key(idx) \in Remotes
                              /\ attempts' = [attempts EXCEPT ![Key(idx)] = @ + 1]
  BY <1>4, SelectFacts DEF Selected
<1>6. r = Key(idx)
  BY <1>1, <1>5
<1>. QED
  BY <1>4, <1>6

\* Selecting by round robin.
LEMMA RoundRobinSelects ==
  ASSUME TypeInv, RoundInv, Select, lb_strategy = "RoundRobin",
         NEW idx \in Eligible
  PROVE  /\ Key(idx) \notin round
         /\ last_selected_index' = idx
         /\ round' # {} => idx \in 0 .. Size - 1 /\ \E m \in 1 .. Size - 1 : IsRound(m, Size)'
<1>. DEFINE last == last_selected_index
<1>0. PICK n \in Nat \ {0} : n = Size
  BY KeysAreLive DEF TypeInv, PlacesOK, Select
<1>1. /\ PlacesOK
      /\ n \in Nat \ {0}
      /\ n = Size
      /\ order # <<>>
      /\ last \in {NoIndex} \cup Nat
  BY <1>0 DEF TypeInv, Select, IndexOK
<1>2. /\ \A i \in 0 .. n - 1 : Key(i) \in Live
      /\ \A r \in Live : \E i \in 0 .. n - 1 : r = Key(i)
      /\ \A i, j \in 0 .. n - 1 : Key(i) = Key(j) => i = j
  BY <1>1, KeysAreLive DEF PlacesOK
<1>3. Eligible = {idx} /\ (n = 1 \/ idx = NextIndex)
  <2>1. Eligible = IF n = 1 THEN {0} ELSE {NextIndex}
    BY <1>1 DEF Eligible
  <2>. QED
    BY <2>1
<1>4. idx \in 0 .. n - 1
  BY <1>1, <1>3, EligibleInRange DEF TypeInv
<1>5. /\ last_selected_index' = idx
      /\ round' = IF Live \subseteq round \cup {Key(idx)} THEN {}
                  ELSE round \cup {Key(idx)}
      /\ UNCHANGED order
  BY <1>3 DEF Select, Selected
<1>6. Size' = n /\ \A i : Key(i)' = Key(i)
  BY <1>1, <1>5 DEF Size, Key
<1>7. CASE round = {}
  <2>1. ASSUME round' # {}
        PROVE  \E m \in 1 .. n - 1 : IsRound(m, n)'
    <3>1. round' = {Key(idx)} /\ ~ Live \subseteq {Key(idx)}
      BY <1>5, <1>7, <2>1
    <3>2. n # 1
      <4>1. SUFFICES ASSUME n = 1 PROVE FALSE
        OBVIOUS
      <4>2. \A i \in 0 .. n - 1 : i = idx
        BY <1>4, <4>1
      <4>. QED
        BY <1>2, <3>1, <4>2
    <3>3. ASSUME NEW i \in 0 .. n - 1
          PROVE  Key(i) \in round' <=> InRound(i, 1, n, idx)
      BY <1>1, <1>2, <1>4, <3>1, <3>3, FirstInRound
    <3>4. IsRound(1, n)'
      BY <1>5, <1>6, <3>3 DEF IsRound
    <3>5. 1 \in 1 .. n - 1
      BY <1>1, <3>2
    <3>. QED
      BY <3>4, <3>5
  <2>. QED
    BY <1>1, <1>4, <1>5, <1>6, <1>7, <2>1
<1>8. CASE round # {}
  <2>1. last \in 0 .. n - 1
    BY <1>1, <1>8 DEF RoundInv
  <2>2. PICK m \in 1 .. n - 1 : IsRound(m, n)
    BY <1>1, <1>8 DEF RoundInv
  <2>3. idx = IF last = n - 1 THEN 0 ELSE last + 1
    <3>1. n # 1
      BY <1>1, <2>2
    <3>. QED
      BY <1>1, <1>3, <2>1, <3>1, NextIndexFacts
  <2>. HIDE DEF last
  <2>4. /\ ~ InRound(idx, m, n, last)
        /\ \A i \in 0 .. n - 1 :
             InRound(i, m + 1, n, idx) <=> InRound(i, m, n, last) \/ i = idx
        /\ m + 1 = n => \A i \in 0 .. n - 1 : InRound(i, m + 1, n, idx)
    <3>1. m \in 1 .. n - 1
      BY <2>2
    <3>2. idx = (IF last = n - 1 THEN 0 ELSE last + 1) /\ n \in Nat \ {0}
      BY <1>1, <2>3
    <3>. QED
      BY <2>1, <3>1, <3>2 DEF InRound
  <2>5. Key(idx) \notin round
    BY <1>4, <2>2, <2>4 DEF IsRound, last
  <2>6. \A i \in 0 .. n - 1 :
          Key(i) \in round \cup {Key(idx)} <=> InRound(i, m + 1, n, idx)
    BY <1>2, <1>4, <2>2, <2>4 DEF IsRound, last
  <2>7. ASSUME round' # {}
        PROVE  \E k \in 1 .. n - 1 : IsRound(k, n)'
    <3>1. round' = round \cup {Key(idx)} /\ ~ Live \subseteq round'
      BY <1>5, <2>7
    <3>2. m + 1 # n
      BY <1>2, <2>4, <2>6, <3>1
    <3>3. IsRound(m + 1, n)'
      BY <1>5, <1>6, <2>6, <3>1 DEF IsRound
    <3>4. m + 1 \in 1 .. n - 1
      BY <1>1, <3>2
    <3>. QED
      BY <3>3, <3>4
  <2>. QED
    BY <1>1, <1>4, <1>5, <1>6, <2>5, <2>7
<1>. QED
  BY <1>7, <1>8

LEMMA RoundStep ==
  ASSUME TypeInv, RoundInv, [Next]_vars
  PROVE  RoundInv'
<1>1. CASE Select /\ lb_strategy = "RoundRobin"
  <2>1. PICK idx \in Eligible : Key(idx) \in Live
    BY <1>1, SelectFacts
  <2>2. /\ last_selected_index' = idx
        /\ round' # {} => /\ idx \in 0 .. Size - 1
                          /\ \E m \in 1 .. Size - 1 : IsRound(m, Size)'
    BY <1>1, <2>1, RoundRobinSelects
  <2>3. Size' = Size
    BY <1>1 DEF Select, Size
  <2>. QED
    BY <2>2, <2>3 DEF RoundInv
<1>2. CASE Select /\ lb_strategy # "RoundRobin"
  BY <1>2 DEF Select, RoundInv
<1>3. ASSUME UNCHANGED <<lb_strategy, order, last_selected_index, round>>
      PROVE  RoundInv'
  <2>1. Size' = Size /\ \A i : Key(i)' = Key(i)
    BY <1>3 DEF Size, Key
  <2>2. \A m, n : IsRound(m, n)' <=> IsRound(m, n)
    BY <1>3, <2>1 DEF IsRound
  <2>. QED
    BY <1>3, <2>1, <2>2 DEF RoundInv
<1>4. ASSUME round' = {} PROVE RoundInv'
  BY <1>4 DEF RoundInv
<1>. QED
  BY <1>1, <1>2, <1>3, <1>4 DEF Next, Connected, Failed, Disconnected, Recovered,
     Add, RemoveRemote, Leaves, Enters, vars

\* Round robin: as long as rotation stays as it is, no remote is selected a
\* second time before every other was selected once, also when remotes that
\* left made the index point elsewhere or beyond the end.
THEOREM EveryRemoteOnce == Spec => OncePerRound
<1>1. Init => RoundInv
  BY DEF Init, RoundInv
<1>2. TypeInv /\ RoundInv /\ [Next]_vars =>
        [\A r \in Remotes :
           lb_strategy = "RoundRobin" /\ attempts'[r] > attempts[r]
             => r \notin round]_vars
  BY AttemptsRise, RoundRobinSelects
<1>. QED
  BY <1>1, <1>2, RoundStep, TypeInvAlways, PTL DEF Spec, OncePerRound

-----------------------------------------------------------------------------
(* Minimum open connections. As long as no remote has left rotation the     *)
(* counters it goes by are exact, provided they do not wrap round.          *)

SteadyInv ==
  steady =>
    /\ DOMAIN info = Live
    /\ \A r \in Live : /\ info[r].streams_pending = attempts[r]
                       /\ info[r].streams_open = streams[r]
    /\ \A r \in Remotes \ Live : attempts[r] = 0 /\ streams[r] = 0

\* One remote in rotation has its record and its numbers changed alike.
LEMMA SteadyUpdate ==
  ASSUME TypeInv, SteadyInv, steady, UNCHANGED order, NEW r \in Live,
         NEW ri \in RemoteInfo, info' = [info EXCEPT ![r] = ri],
         NEW a, NEW s,
         attempts' = [attempts EXCEPT ![r] = a],
         streams' = [streams EXCEPT ![r] = s],
         ri.streams_pending = a, ri.streams_open = s
  PROVE  SteadyInv'
<1>1. /\ DOMAIN info' = DOMAIN info
      /\ info'[r] = ri
      /\ \A q \in DOMAIN info : q # r => info'[q] = info[q]
  BY RecordReplaced DEF TypeInv, PlacesOK
<1>2. /\ attempts'[r] = a /\ streams'[r] = s
      /\ \A q \in Remotes : q # r => attempts'[q] = attempts[q] /\ streams'[q] = streams[q]
  BY KeysAreLive DEF TypeInv, PlacesOK, CountsOK
<1>3. Live' = Live /\ Live \subseteq Remotes /\ Live \subseteq DOMAIN info
  BY KeysAreLive DEF Live, TypeInv, PlacesOK
<1>. QED
  BY <1>1, <1>2, <1>3 DEF SteadyInv

LEMMA SteadyStep ==
  ASSUME MaxSteady < WordSize, TypeInv, SteadyInv, [Next]_vars
  PROVE  SteadyInv'
<1>. SUFFICES ASSUME steady' PROVE SteadyInv'
  BY DEF SteadyInv
<1>0. /\ Live \subseteq DOMAIN info /\ Live \subseteq Remotes
      /\ attempts \in [Remotes -> Nat] /\ streams \in [Remotes -> Nat]
      /\ \A r \in DOMAIN info : info[r] \in RemoteInfo
      /\ PlacesOK
  BY KeysAreLive DEF TypeInv, PlacesOK, CountsOK, RecordsOK
<1>1. \A r \in Remotes : attempts[r] + streams[r] < WordSize
  <2>1. \A r \in Remotes : attempts[r] + streams[r] <= MaxSteady
    BY DEF TypeInv, CountsOK
  <2>2. \A r \in Remotes : attempts[r] + streams[r] \in Nat
    BY <1>0
  <2>. QED
    BY <2>1, <2>2
<1>2. CASE UNCHANGED vars
  BY <1>2 DEF SteadyInv, Live, vars
<1>. SUFFICES ASSUME Next PROVE SteadyInv'
  BY <1>2
<1>3. steady
  BY DEF Next, Select, Connected, Failed, Disconnected, Recovered, Add,
     RemoveRemote, Leaves
<1>4. ASSUME NEW r \in Remotes, attempts[r] > 0 \/ streams[r] > 0 PROVE r \in Live
  BY <1>0, <1>3, <1>4 DEF SteadyInv
<1>5. ASSUME NEW r \in Live
      PROVE  /\ info[r] \in RemoteInfo
             /\ r \in Remotes
             /\ attempts[r] \in Nat /\ streams[r] \in Nat
             /\ info[r].streams_pending = attempts[r]
             /\ info[r].streams_open = streams[r]
             /\ attempts[r] + streams[r] < WordSize
  BY <1>0, <1>1, <1>3 DEF SteadyInv
<1>6. CASE Select
  <2>1. PICK r \in Live : /\ info' = [info EXCEPT ![r] = new_pending_stream(info[r])]
                          /\ attempts' = [attempts EXCEPT ![r] = attempts[r] + 1]
                          /\ attempts[r] + streams[r] < MaxSteady
    BY <1>6, SelectFacts DEF Selected
  <2>. DEFINE ri == new_pending_stream(info[r])
  <2>2. ri \in RemoteInfo
    BY <1>5, RemoteInfoTypes
  <2>3. ri.streams_open = streams[r] /\ ri.streams_pending = Inc(attempts[r])
    BY <1>5 DEF new_pending_stream, RemoteInfo
  <2>4. Inc(attempts[r]) = attempts[r] + 1
    <3>1. attempts[r] + 1 < WordSize /\ attempts[r] + 1 \in Nat
      BY <1>5, <2>1
    <3>. QED
      BY <3>1 DEF Inc
  <2>5. streams' = [streams EXCEPT ![r] = streams[r]] /\ UNCHANGED order
    BY <1>0, <1>6 DEF Select
  <2>. HIDE DEF ri
  <2>6. info' = [info EXCEPT ![r] = ri]
    BY <2>1 DEF ri
  <2>. QED
    BY <1>3, <2>1, <2>2, <2>3, <2>4, <2>5, <2>6, SteadyUpdate
<1>7. ASSUME NEW r \in Remotes, Connected(r) PROVE SteadyInv'
  <2>1. /\ r \in Live
        /\ attempts[r] > 0
        /\ info' = [info EXCEPT ![r] = remote_connected(info[r])]
        /\ attempts' = [attempts EXCEPT ![r] = attempts[r] - 1]
        /\ streams' = [streams EXCEPT ![r] = streams[r] + 1]
        /\ UNCHANGED order
    BY <1>4, <1>7 DEF Connected
  <2>. DEFINE ri == remote_connected(info[r])
  <2>2. ri \in RemoteInfo
    BY <1>5, <2>1, RemoteInfoTypes
  <2>3. ri.streams_open = Inc(streams[r]) /\ ri.streams_pending = Dec(attempts[r])
    BY <1>5, <2>1 DEF remote_connected
  <2>4. Inc(streams[r]) = streams[r] + 1 /\ Dec(attempts[r]) = attempts[r] - 1
    <3>1. /\ streams[r] + 1 < WordSize /\ streams[r] + 1 \in Nat
          /\ attempts[r] \in Nat /\ attempts[r] > 0
      BY <1>5, <2>1
    <3>. QED
      BY <3>1 DEF Inc, Dec
  <2>. HIDE DEF ri
  <2>5. info' = [info EXCEPT ![r] = ri]
    BY <2>1 DEF ri
  <2>. QED
    BY <1>3, <2>1, <2>2, <2>3, <2>4, <2>5, SteadyUpdate
<1>8. ASSUME NEW r \in Remotes, Failed(r) PROVE SteadyInv'
  <2>1. /\ r \in Live
        /\ attempts[r] > 0
        /\ info' = [info EXCEPT ![r] = error(info[r])]
        /\ attempts' = [attempts EXCEPT ![r] = attempts[r] - 1]
        /\ streams' = streams
        /\ UNCHANGED order
    BY <1>4, <1>8 DEF Failed, Leaves
  <2>. DEFINE ri == error(info[r])
  <2>2. ri \in RemoteInfo
    BY <1>5, <2>1, RemoteInfoTypes
  <2>3. ri.streams_open = streams[r] /\ ri.streams_pending = Dec(attempts[r])
    BY <1>5, <2>1 DEF error, RemoteInfo
  <2>4. Dec(attempts[r]) = attempts[r] - 1
    BY <1>5, <2>1 DEF Dec
  <2>5. streams' = [streams EXCEPT ![r] = streams[r]]
    BY <1>0, <2>1
  <2>. HIDE DEF ri
  <2>6. info' = [info EXCEPT ![r] = ri]
    BY <2>1 DEF ri
  <2>7. /\ attempts' = [attempts EXCEPT ![r] = attempts[r] - 1]
        /\ streams' = [streams EXCEPT ![r] = streams[r]]
        /\ ri.streams_pending = attempts[r] - 1
        /\ ri.streams_open = streams[r]
    BY <2>1, <2>3, <2>4, <2>5
  <2>8. r \in Live /\ UNCHANGED order
    BY <2>1
  <2>. QED
    BY <1>3, <2>2, <2>6, <2>7, <2>8, SteadyUpdate
<1>9. ASSUME NEW r \in Remotes, Disconnected(r) PROVE SteadyInv'
  <2>1. /\ r \in Live
        /\ streams[r] > 0
        /\ info' = [info EXCEPT ![r] = remote_disconnected(info[r])]
        /\ streams' = [streams EXCEPT ![r] = streams[r] - 1]
        /\ attempts' = attempts
        /\ UNCHANGED order
    BY <1>4, <1>9 DEF Disconnected
  <2>. DEFINE ri == remote_disconnected(info[r])
  <2>2. ri \in RemoteInfo
    BY <1>5, <2>1, RemoteInfoTypes
  <2>3. ri.streams_open = Dec(streams[r]) /\ ri.streams_pending = attempts[r]
    BY <1>5, <2>1 DEF remote_disconnected, RemoteInfo
  <2>4. Dec(streams[r]) = streams[r] - 1
    BY <1>5, <2>1 DEF Dec
  <2>5. attempts' = [attempts EXCEPT ![r] = attempts[r]]
    BY <1>0, <2>1
  <2>. HIDE DEF ri
  <2>6. info' = [info EXCEPT ![r] = ri]
    BY <2>1 DEF ri
  <2>7. /\ attempts' = [attempts EXCEPT ![r] = attempts[r]]
        /\ streams' = [streams EXCEPT ![r] = streams[r] - 1]
        /\ ri.streams_pending = attempts[r]
        /\ ri.streams_open = streams[r] - 1
    BY <2>1, <2>3, <2>4, <2>5
  <2>8. r \in Live /\ UNCHANGED order
    BY <2>1
  <2>. QED
    BY <1>3, <2>2, <2>6, <2>7, <2>8, SteadyUpdate
<1>10. ASSUME NEW r \in Remotes, Recovered(r) PROVE SteadyInv'
  BY <1>3, <1>10 DEF SteadyInv, Recovered, Dead
<1>11. ASSUME NEW r \in Remotes, Add(r) PROVE SteadyInv'
  <2>1. r \notin Live /\ DOMAIN info = Live /\ attempts[r] = 0 /\ streams[r] = 0
    BY <1>3, <1>11 DEF SteadyInv, Add
  <2>2. Live' = Live \cup {r}
    BY <1>0, <1>11, <2>1, EntersFacts DEF Add
  <2>3. /\ DOMAIN info' = DOMAIN info \cup {r}
        /\ info'[r] = NewRemoteInfo
        /\ \A q \in Live : info'[q] = info[q]
    BY <1>0, <1>11, <2>1 DEF Add, Put
  <2>4. UNCHANGED <<attempts, streams>>
    BY <1>11 DEF Add
  <2>. QED
    BY <1>3, <2>1, <2>2, <2>3, <2>4 DEF SteadyInv, NewRemoteInfo
<1>12. ASSUME NEW r \in Removable, RemoveRemote(r) PROVE SteadyInv'
  BY <1>3, <1>12 DEF SteadyInv, RemoveRemote, Leaves
<1>. QED
  BY <1>6, <1>7, <1>8, <1>9, <1>10, <1>11, <1>12 DEF Next

\* What the scan picks is least loaded in fact.
LEMMA LeastBusyStep ==
  ASSUME MaxSteady < WordSize, TypeInv, SteadyInv, [Next]_vars,
         steady, lb_strategy = "MinimumOpenConnections",
         NEW r \in Remotes, attempts'[r] > attempts[r], NEW s \in Live
  PROVE  attempts[r] + streams[r] <= attempts[s] + streams[s]
<1>1. Select /\ \E idx \in Eligible : r = Key(idx)
  BY AttemptsRise
<1>2. PICK idx \in Eligible : r = Key(idx)
  BY <1>1
<1>3. PlacesOK /\ order # <<>> /\ OrderOK(order)
  BY <1>1 DEF TypeInv, Select, PlacesOK
<1>4. PICK j \in 0 .. Size - 1 : s = Key(j)
  BY <1>3, KeysAreLive
<1>5. Size \in Nat \ {0} /\ Key(idx) \in Live
  <2>1. idx \in 0 .. Size - 1
    BY <1>3, EligibleInRange DEF TypeInv, IndexOK
  <2>. QED
    BY <1>3, <2>1, KeysAreLive
<1>6. CASE Size = 1
  <2>1. idx = 0 /\ j = 0
    BY <1>2, <1>4, <1>6 DEF Eligible
  <2>2. r = s
    BY <1>2, <1>4, <2>1
  <2>. QED
    BY <2>2 DEF TypeInv, CountsOK
<1>7. CASE Size # 1
  <2>1. idx = LeastIndex
    <3>1. Eligible = {LeastIndex}
      BY <1>7 DEF Eligible
    <3>. QED
      BY <3>1
  <2>2. open_conns(r) <= open_conns(s)
    BY <1>2, <1>3, <1>4, <2>1, LeastIndexFinds
  <2>3. ASSUME NEW x \in Live PROVE open_conns(x) = attempts[x] + streams[x]
    <3>1. /\ x \in Remotes
          /\ attempts[x] \in Nat /\ streams[x] \in Nat
          /\ attempts[x] + streams[x] <= MaxSteady
      BY <1>3, KeysAreLive DEF TypeInv, CountsOK
    <3>2. open_conns(x) = (streams[x] + attempts[x]) % WordSize
      BY DEF SteadyInv, open_conns
    <3>3. streams[x] + attempts[x] \in 0 .. WordSize - 1
      BY <3>1
    <3>4. \A n \in 0 .. WordSize - 1 : n % WordSize = n
      OBVIOUS
    <3>. QED
      BY <3>1, <3>2, <3>3, <3>4
  <2>. QED
    BY <1>2, <1>5, <2>2, <2>3
<1>. QED
  BY <1>6, <1>7

\* Minimum open connections: while no remote has left rotation, the one
\* selected has in fact no more connections than any other, whatever the size
\* of rotation and the order of its remotes. The counters are words that the
\* number of connections at one time fits in.
THEOREM LeastBusyPicked ==
  ASSUME MaxSteady < WordSize
  PROVE  Spec => PicksLeastBusy
<1>1. Init => SteadyInv
  <2>. SUFFICES ASSUME Init PROVE SteadyInv
    OBVIOUS
  <2>1. DOMAIN info = Live /\ Live \subseteq Remotes
    BY BalancerStarts, KeysAreLive DEF TypeInv, PlacesOK
  <2>2. \A r \in DOMAIN info : info[r] = NewRemoteInfo
    BY DEF Init
  <2>. QED
    BY <2>1, <2>2 DEF Init, SteadyInv, NewRemoteInfo
<1>2. TypeInv /\ SteadyInv /\ [Next]_vars =>
        [\A r \in Remotes :
           steady /\ lb_strategy = "MinimumOpenConnections"
             /\ attempts'[r] > attempts[r]
             => \A s \in Live : attempts[r] + streams[r] <= attempts[s] + streams[s]]_vars
  BY LeastBusyStep
<1>. QED
  BY <1>1, <1>2, SteadyStep, TypeInvAlways, PTL DEF Spec, PicksLeastBusy
=============================================================================
