---------------------------- MODULE AlgorithmProofs ----------------------------
(***************************************************************************)
(* Theorems about the programs that compute one thing: GapSort, for arrays *)
(* of every size, every integer values and every set of first gaps; Sorts, *)
(* for every array; Bits, for words of every width; Tree, for every tree.  *)
(***************************************************************************)
EXTENDS GapSort, Sorts, Bits, Tree, FiniteSetTheorems, SequenceTheorems, WellFoundedInduction, TLAPS

(* The elements up to index i, the hole left out, are in order by the gap, *)
(* across the hole too, and what was shifted is larger than temp.          *)
PrefixSorted ==
  /\ pc = "element" =>
       \A k \in Index : k + gap < i => arr[k] <= arr[k + gap]
  /\ pc = "shift" =>
       /\ \A k \in Index :
            k + gap <= i /\ k # j /\ k + gap # j => arr[k] <= arr[k + gap]
       /\ j >= gap /\ j + gap <= i => arr[j - gap] <= arr[j + gap]
       /\ j + gap <= i => temp < arr[j + gap]

(* The loop over the gaps is left only after the pass with gap one.        *)
LastPass == pc \in {"pass", "done"} /\ gap = 0 => SortedBy(1)

(* Nothing is left to do.                                                  *)
DoneAtZero == pc = "done" => gap = 0

(* The array as it was when the pass began, sorted by all gaps before, and *)
(* where each element was in it: only chains of the gap were rearranged.   *)
SameChain(u, w, h) == \E n \in Int : w - u = n * h

Held == [k \in Index |-> IF pc = "shift" /\ k = j THEN temp ELSE arr[k]]

Permutes(o) == \A k, l \in Index : k # l => o[k] # o[l]

PassFrom(b, o, before, held, h) ==
  /\ \A g \in before : \A k \in Index : k + g < N => b[k] <= b[k + g]
  /\ Permutes(o)
  /\ \A k \in Index : held[k] = b[o[k]] /\ SameChain(k, o[k], h)

EarlierGaps ==
  pc \in {"element", "shift"} =>
    \E b \in [Index -> Int], o \in [Index -> Index] : PassFrom(b, o, gaps, Held, gap)

IInv ==
  /\ TypeOK /\ PrefixSorted /\ LastPass /\ DoneAtZero /\ Rearranged
  /\ GapSorted /\ EarlierGaps

-------------------------------------------------------------------------------
(* Every set of natural numbers that is not empty has a least element.     *)
LEMMA LeastNat ==
  ASSUME NEW T \in SUBSET Nat, T # {}
  PROVE  \E n \in T : \A m \in T : n <= m
<1> DEFINE R == {ss \in Nat \X Nat : ss[1] < ss[2]}
<1>1. IsWellFoundedOn(R, Nat)
  BY NatLessThanWellFounded DEF OpToRel
<1> HIDE DEF R
<1>2. PICK n \in T : \A m \in T : <<m, n>> \notin R
  BY <1>1, WFMin
<1>3. \A m \in T : <<m, n>> \notin R => n <= m
  BY DEF R
<1> QED
  BY <1>2, <1>3

(* Chains are classes of indices, shifted as a whole, with the gap for     *)
(* step.                                                                   *)
LEMMA ChainClasses ==
  ASSUME NEW h \in Nat \ {0}, NEW u \in Int, NEW w \in Int, SameChain(u, w, h)
  PROVE  /\ SameChain(w, u, h)
         /\ \A k \in Int : SameChain(u + k, w + k, h)
         /\ \A x \in Int : SameChain(w, x, h) => SameChain(u, x, h)
         /\ u < w => u <= w - h /\ SameChain(u, w - h, h)
<1>1. PICK n \in Int : w - u = n * h
  BY DEF SameChain
<1>2. -n \in Int /\ u - w = (-n) * h
  BY <1>1
<1>3. ASSUME NEW k \in Int PROVE (w + k) - (u + k) = n * h
  BY <1>1
<1>4. ASSUME NEW x \in Int, SameChain(w, x, h) PROVE SameChain(u, x, h)
  <2>1. PICK m \in Int : x - w = m * h
    BY <1>4 DEF SameChain
  <2>2. x - u = (n + m) * h /\ n + m \in Int
    BY <1>1, <2>1
  <2> QED
    BY <2>2 DEF SameChain
<1>5. ASSUME u < w PROVE u <= w - h /\ SameChain(u, w - h, h)
  <2>1. n >= 1
    BY <1>1, <1>5
  <2>2. (n - 1) * h >= 0
    BY <2>1
  <2>3. (w - h) - u = (n - 1) * h /\ n - 1 \in Int
    BY <1>1
  <2> QED
    BY <2>2, <2>3 DEF SameChain
<1> QED
  BY <1>2, <1>3, <1>4, <1>5 DEF SameChain

(* Neighbours in order put the whole chain in order.                       *)
LEMMA ChainInOrder ==
  ASSUME N \in Nat, NEW h \in Nat \ {0}, NEW c \in [Index -> Int],
         \A k \in Index : k + h < N => c[k] <= c[k + h]
  PROVE  \A u, w \in Index : u < w /\ SameChain(u, w, h) => c[u] <= c[w]
<1> SUFFICES ASSUME NEW u \in Index, NEW w0 \in Index, u < w0, SameChain(u, w0, h),
                    ~(c[u] <= c[w0])
             PROVE  FALSE
  OBVIOUS
<1> DEFINE T == {w \in Index : u < w /\ SameChain(u, w, h) /\ ~(c[u] <= c[w])}
<1>1. T \in SUBSET Nat /\ w0 \in T
  BY DEF Index
<1>2. PICK w \in T : \A x \in T : w <= x
  BY <1>1, LeastNat
<1> HIDE DEF T
<1>3. w \in Index /\ u < w /\ SameChain(u, w, h) /\ ~(c[u] <= c[w]) /\ u \in Int /\ w \in Int
  BY DEF T, Index
<1>4. u <= w - h /\ SameChain(u, w - h, h)
  BY <1>3, ChainClasses
<1>5. w - h \in Index /\ w - h < w /\ (w - h) + h = w
  BY <1>3, <1>4 DEF Index
<1>6. c[w - h] <= c[w]
  <2>1. (w - h) + h < N
    BY <1>3, <1>5 DEF Index
  <2> QED
    BY <1>5, <2>1
<1>7. c[u] <= c[w - h]
  <2>1. w - h \notin T
    BY <1>2, <1>5 DEF Index
  <2>2. CASE u = w - h
    BY <1>5, <2>2
  <2>3. CASE u # w - h
    <3>1. u < w - h
      BY <1>3, <1>4, <2>3
    <3> QED
      BY <1>4, <1>5, <2>1, <3>1 DEF T
  <2> QED
    BY <2>2, <2>3
<1> QED
  BY <1>3, <1>5, <1>6, <1>7

(* A permutation of the indices reaches each.                              *)
LEMMA Inverted ==
  ASSUME N \in Nat, NEW o \in [Index -> Index], Permutes(o)
  PROVE  \E q \in [Index -> Index] : \A k \in Index : o[q[k]] = k
<1>1. IsFiniteSet(Index)
  BY FS_Interval DEF Index
<1>2. o \in Injection(Index, Index)
  BY DEF Permutes, Injection, IsInjective
<1>3. o \in Surjection(Index, Index)
  BY <1>1, <1>2, FS_Injection
<1>4. \A k \in Index : \E l \in Index : o[l] = k
  BY <1>3 DEF Surjection
<1> DEFINE q == [k \in Index |-> CHOOSE l \in Index : o[l] = k]
<1>5. \A k \in Index : q[k] \in Index /\ o[q[k]] = k
  BY <1>4
<1>6. q \in [Index -> Index]
  BY <1>5
<1> QED
  BY <1>5, <1>6

(* A pass undoes no earlier one.  If after the pass the element at t was   *)
(* smaller than the one at i0 = t - k, then so were all before it in its   *)
(* chain.  All of these but those that came from the first k places had,   *)
(* before the pass, a k-neighbour that is smaller still, and that stands   *)
(* before i0 now: t has more elements before it than places.               *)
LEMMA KeepsOrder ==
  ASSUME N \in Nat, NEW h \in Nat \ {0}, NEW k \in Nat \ {0},
         NEW b \in [Index -> Int], NEW c \in [Index -> Int], NEW o \in [Index -> Index],
         Permutes(o),
         \A u \in Index : c[u] = b[o[u]] /\ SameChain(u, o[u], h),
         \A u \in Index : u + k < N => b[u] <= b[u + k],
         \A u, w \in Index : u < w /\ SameChain(u, w, h) => c[u] <= c[w]
  PROVE  \A u \in Index : u + k < N => c[u] <= c[u + k]
<1> SUFFICES ASSUME NEW i0 \in Index, i0 + k < N, ~(c[i0] <= c[i0 + k]) PROVE FALSE
  OBVIOUS
<1> DEFINE t == i0 + k
           T == {u \in 0..(t - 1) : SameChain(u, t, h)}
           S == T \cup {t}
<1>1. PICK q \in [Index -> Index] : \A u \in Index : o[q[u]] = u
  BY Inverted
<1> DEFINE G == [u \in S |-> IF o[u] < k THEN o[u] ELSE q[o[u] - k] + k]
<1>2. /\ t \in Index /\ t \in Int /\ i0 \in Int /\ i0 >= 0 /\ k \in Int /\ k > 0
      /\ c[t] < c[i0] /\ t = i0 + k
      /\ \A u \in Index : u \in Int /\ u >= 0 /\ c[u] \in Int /\ b[u] \in Int
  <2>1. \A u \in Index : u \in Int /\ u >= 0
    BY DEF Index
  <2>2. \A u \in Index : c[u] \in Int /\ b[u] \in Int
    OBVIOUS
  <2>3. t \in Index
    BY DEF Index
  <2>4. c[t] < c[i0]
    BY <2>2, <2>3
  <2> QED
    BY <2>1, <2>2, <2>3, <2>4
<1>3. SameChain(t, t, h)
  <2>1. 0 \in Int /\ t - t = 0 * h
    BY <1>2
  <2> QED
    BY <2>1 DEF SameChain
<1>4. \A u \in S : u \in Index /\ u <= t /\ SameChain(u, t, h) /\ c[u] <= c[t]
  <2> SUFFICES ASSUME NEW u \in S PROVE u \in Index /\ u <= t /\ SameChain(u, t, h) /\ c[u] <= c[t]
    OBVIOUS
  <2>1. CASE u = t
    BY <1>2, <1>3, <2>1
  <2>2. CASE u \in T
    <3>1. u \in Index /\ u < t /\ SameChain(u, t, h)
      BY <1>2, <2>2 DEF Index
    <3> QED
      BY <1>2, <3>1
  <2> QED
    BY <2>1, <2>2
<1> HIDE DEF t
<1>5. ASSUME NEW u \in S, ~(o[u] < k)
      PROVE  /\ o[u] - k \in Index /\ q[o[u] - k] \in Index
             /\ q[o[u] - k] \in Nat /\ q[o[u] - k] + k \in 0..(t - 1)
             /\ SameChain(q[o[u] - k] + k, t, h)
  <2> DEFINE v == o[u] - k
             w == q[v]
  <2>1. u \in Index /\ o[u] \in Index /\ o[u] \in Int /\ v \in Index /\ v \in Int /\ v + k = o[u]
    <3>1. u \in Index /\ o[u] \in Index
      BY <1>4
    <3>2. o[u] \in Int
      BY <1>2, <3>1
    <3>3. \A x \in Index : ~(x < k) => x - k \in Index /\ x - k \in Int /\ (x - k) + k = x
      BY <1>2 DEF Index
    <3>4. v \in Index /\ v \in Int /\ v + k = o[u]
      BY <1>5, <3>1, <3>3
    <3> QED
      BY <3>1, <3>2, <3>4
  <2>2. w \in Index /\ w \in Int /\ o[w] = v
    BY <1>1, <1>2, <2>1
  <2> HIDE DEF w
  <2>3. c[w] < c[i0]
    <3>1. c[w] = b[v] /\ c[u] = b[v + k]
      BY <2>1, <2>2
    <3>2. v + k < N
      BY <2>1 DEF Index
    <3>3. b[v] <= b[v + k]
      BY <2>1, <3>2
    <3>4. c[w] <= c[t]
      BY <1>2, <1>4, <2>1, <2>2, <3>1, <3>3
    <3> QED
      BY <1>2, <2>2, <3>4
  <2>4. SameChain(w, i0, h) /\ SameChain(w + k, t, h)
    <3>1. SameChain(w, v, h) /\ SameChain(u, o[u], h) /\ SameChain(u, t, h)
      BY <1>4, <2>1, <2>2
    <3>2. SameChain(o[u], u, h)
      BY <1>2, <2>1, <3>1, ChainClasses
    <3>3. SameChain(o[u], t, h)
      BY <1>2, <2>1, <3>1, <3>2, ChainClasses
    <3>4. SameChain(w + k, v + k, h)
      BY <1>2, <2>1, <2>2, <3>1, ChainClasses
    <3>5. SameChain(w + k, t, h)
      <4>1. w + k \in Int /\ o[u] \in Int /\ SameChain(w + k, o[u], h)
        BY <1>2, <2>1, <2>2, <3>4
      <4> QED
        BY <1>2, <3>3, <4>1, ChainClasses
    <3>6. SameChain((w + k) + (-k), t + (-k), h)
      <4>1. w + k \in Int /\ -k \in Int
        BY <1>2, <2>2
      <4> QED
        BY <1>2, <3>5, <4>1, ChainClasses
    <3>7. (w + k) + (-k) = w /\ t + (-k) = i0
      BY <1>2, <2>2
    <3> QED
      BY <3>5, <3>6, <3>7
  <2>5. w < i0
    <3>1. CASE w = i0
      BY <1>2, <2>3, <3>1
    <3>2. CASE i0 < w
      <4>1. SameChain(i0, w, h)
        BY <1>2, <2>2, <2>4, ChainClasses
      <4>2. c[i0] <= c[w]
        BY <2>2, <3>2, <4>1
      <4> QED
        BY <1>2, <2>2, <2>3, <4>2
    <3> QED
      BY <1>2, <2>2, <3>1, <3>2
  <2>6. w \in Nat /\ w + k \in 0..(t - 1)
    BY <1>2, <2>2, <2>5 DEF Index
  <2> QED
    BY <2>1, <2>2, <2>4, <2>6 DEF w
<1>6. G \in [S -> T]
  <2> SUFFICES ASSUME NEW u \in S PROVE G[u] \in T
    BY DEF G
  <2>1. u \in Index /\ u \in Int /\ o[u] \in Index /\ o[u] \in Int /\ o[u] >= 0
    <3>1. u \in Index /\ o[u] \in Index
      BY <1>4
    <3> QED
      BY <1>2, <3>1
  <2>2. CASE o[u] < k
    <3>1. SameChain(o[u], u, h)
      BY <2>1, ChainClasses
    <3>2. SameChain(o[u], t, h)
      BY <1>2, <1>4, <2>1, <3>1, ChainClasses
    <3>3. o[u] \in 0..(t - 1)
      BY <1>2, <2>1, <2>2
    <3> QED
      BY <2>2, <3>2, <3>3
  <2>3. CASE ~(o[u] < k)
    BY <1>5, <2>3
  <2> QED
    BY <2>2, <2>3
<1>7. \A u, w \in S : u # w => G[u] # G[w]
  <2> SUFFICES ASSUME NEW u \in S, NEW w \in S, u # w, G[u] = G[w] PROVE FALSE
    OBVIOUS
  <2>1. /\ u \in Index /\ w \in Index /\ o[u] # o[w]
        /\ o[u] \in Int /\ o[w] \in Int
    BY <1>2, <1>4 DEF Permutes
  <2>2. CASE o[u] < k /\ o[w] < k
    BY <2>1, <2>2
  <2>3. CASE ~(o[u] < k) /\ ~(o[w] < k)
    <3>1. q[o[u] - k] + k = q[o[w] - k] + k
      BY <2>3
    <3>2. q[o[u] - k] = q[o[w] - k]
      <4>1. q[o[u] - k] \in Int /\ q[o[w] - k] \in Int
        BY <1>2, <1>5, <2>3
      <4> QED
        BY <1>2, <3>1, <4>1
    <3>3. PICK x, y : x = o[u] - k /\ y = o[w] - k
      OBVIOUS
    <3>4. x \in Index /\ y \in Index /\ q[x] = q[y]
      BY <1>5, <2>3, <3>2, <3>3
    <3>5. o[u] - k = o[w] - k
      BY <1>1, <3>3, <3>4
    <3> QED
      BY <1>2, <2>1, <3>5
  <2>4. CASE o[u] < k /\ ~(o[w] < k)
    <3>1. o[u] = q[o[w] - k] + k
      BY <2>4
    <3>2. q[o[w] - k] \in Nat
      BY <1>5, <2>4
    <3> QED
      BY <1>2, <2>1, <2>4, <3>1, <3>2
  <2>5. CASE ~(o[u] < k) /\ o[w] < k
    <3>1. o[w] = q[o[u] - k] + k
      BY <2>5
    <3>2. q[o[u] - k] \in Nat
      BY <1>5, <2>5
    <3> QED
      BY <1>2, <2>1, <2>5, <3>1, <3>2
  <2> QED
    BY <2>2, <2>3, <2>4, <2>5
<1>8. IsFiniteSet(T) /\ IsFiniteSet(S) /\ Cardinality(T) < Cardinality(S)
  <2>1. IsFiniteSet(0..(t - 1))
    <3>1. 0 \in Int /\ t - 1 \in Int
      BY <1>2
    <3> QED
      BY <3>1, FS_Interval
  <2>2. IsFiniteSet(T)
    BY <2>1, FS_Subset
  <2>3. t \notin T
    BY <1>2
  <2> HIDE DEF T
  <2>4. Cardinality(T) \in Nat
    BY <2>2, FS_CardinalityType
  <2>5. IsFiniteSet(S) /\ Cardinality(S) = Cardinality(T) + 1
    BY <2>2, <2>3, FS_AddElement
  <2> QED
    BY <2>2, <2>4, <2>5
<1> HIDE DEF T, S, G
<1> QED
  BY <1>6, <1>7, <1>8, FS_PigeonHole

(* The initial states satisfy the inductive invariant. *)
LEMMA InitIInv == Init => IInv
<1> SUFFICES ASSUME Init PROVE IInv
  OBVIOUS
<1>1. TypeOK
  <2>1. arr \in [Index -> Int] /\ arr0 \in [Index -> Int]
    BY ValuesAssumption DEF Init
  <2>2. origin \in [Index -> Index]
    BY DEF Init
  <2>3. gap \in 0..N /\ i \in 0..N /\ j \in Nat /\ temp \in Int
    BY SizeAssumption, GapAssumption DEF Init
  <2> QED
    BY <2>1, <2>2, <2>3 DEF Init, TypeOK
<1>2. PrefixSorted /\ DoneAtZero
  BY DEF Init, PrefixSorted, DoneAtZero
<1>3. LastPass
  BY SizeAssumption, GapAssumption DEF Init, LastPass, SortedBy, Index
<1>4. Rearranged
  BY DEF Init, Rearranged
<1>5. GapSorted /\ EarlierGaps
  BY DEF Init, GapSorted, EarlierGaps
<1> QED
  BY <1>1, <1>2, <1>3, <1>4, <1>5 DEF IInv

(* The hole and its lower neighbour are indices of the array. *)
LEMMA HoleInArray ==
  ASSUME TypeOK, pc = "shift"
  PROVE  /\ N \in Nat /\ gap \in Nat /\ gap > 0 /\ i \in Nat /\ i < N
         /\ j \in Index
         /\ j >= gap => j - gap \in Index /\ j - gap < j
BY SizeAssumption DEF TypeOK, Index

(* Every step keeps the types. *)
LEMMA StepTypeOK == TypeOK /\ [Next]_vars => TypeOK'
<1> SUFFICES ASSUME TypeOK, [Next]_vars PROVE TypeOK'
  OBVIOUS
<1>1. CASE StartPass
  BY <1>1, SizeAssumption DEF StartPass, TypeOK, MoreGaps, FirstOfPass
<1>2. CASE EndPass
  <2>1. gap' \in 0..N
    BY <1>2, SizeAssumption DEF EndPass, TypeOK, NextGap
  <2> QED
    BY <1>2, <2>1 DEF EndPass, TypeOK
<1>3. CASE TakeElement
  <2>1. i \in Index
    BY <1>3, SizeAssumption DEF TakeElement, TypeOK, Index
  <2> QED
    BY <1>3, <2>1 DEF TakeElement, TypeOK
<1>4. CASE Shift
  <2>1. j \in Index /\ j - gap \in Index /\ j - gap < j /\ j \in Nat /\ j - gap \in Nat /\ i \in Nat /\ j <= i
    BY <1>4, HoleInArray DEF Shift, TypeOK, Index
  <2>2. arr' \in [Index -> Int] /\ origin' \in [Index -> Index]
    BY <1>4, <2>1 DEF Shift, TypeOK
  <2>3. j' \in Nat /\ j' <= i
    BY <1>4, <2>1 DEF Shift
  <2> QED
    BY <1>4, <2>2, <2>3 DEF Shift, TypeOK
<1>5. CASE Put
  <2>1. i' \in 0..N
    BY <1>5, HoleInArray DEF Put, NextElement
  <2>2. arr' \in [Index -> Int]
    BY <1>5 DEF Put, Saved, TypeOK
  <2> QED
    BY <1>5, <2>1, <2>2 DEF Put, TypeOK
<1>6. CASE UNCHANGED vars
  BY <1>6 DEF vars, TypeOK
<1> QED
  BY <1>1, <1>2, <1>3, <1>4, <1>5, <1>6 DEF Next, Done

(* Every step keeps the prefix sorted by the gap. *)
LEMMA StepPrefixSorted == TypeOK /\ PrefixSorted /\ [Next]_vars => PrefixSorted'
<1> SUFFICES ASSUME TypeOK, PrefixSorted, [Next]_vars PROVE PrefixSorted'
  OBVIOUS
<1>1. CASE StartPass
  <2>1. pc' = "element" => i' = gap /\ gap' = gap /\ arr' = arr
    BY <1>1 DEF StartPass, MoreGaps, FirstOfPass
  <2>2. gap \in Nat
    BY SizeAssumption DEF TypeOK
  <2> QED
    BY <1>1, <2>1, <2>2 DEF StartPass, PrefixSorted, Index
<1>2. CASE EndPass
  BY <1>2 DEF EndPass, PrefixSorted
<1>3. CASE TakeElement
  <2>1. gap \in Nat /\ gap > 0 /\ i \in Nat
    BY <1>3, SizeAssumption DEF TakeElement, TypeOK
  <2>2. \A k \in Index : k + gap <= i /\ k + gap # i => k + gap < i
    BY <2>1 DEF Index
  <2> QED
    BY <1>3, <2>1, <2>2 DEF TakeElement, PrefixSorted
<1>4. CASE Shift
  <2> DEFINE h == j - gap
  <2>1. /\ gap \in Nat /\ gap > 0 /\ i \in Nat /\ i < N /\ N \in Nat
        /\ j \in Index /\ h \in Index /\ j \in Int /\ h \in Int /\ j <= i
        /\ arr[h] > temp /\ temp \in Int
        /\ pc = "shift" /\ pc' = "shift" /\ gap' = gap /\ i' = i /\ temp' = temp /\ j' = h
    BY <1>4, HoleInArray DEF Shift, TypeOK, Index
  <2>2. arr'[j] = arr[h] /\ \A k \in Index : k # j => arr'[k] = arr[k]
    BY <1>4, <2>1 DEF Shift, TypeOK
  <2>3. \A k \in Index : arr[k] \in Int
    BY DEF TypeOK
  <2>4. ASSUME NEW k \in Index, k + gap <= i, k # h, k + gap # h
        PROVE  arr'[k] <= arr'[k + gap]
    <3>1. k + gap \in Index /\ k \in Int
      BY <2>1, <2>4 DEF Index
    <3>2. CASE k = j
      <4>1. arr'[k] = arr[h] /\ arr'[k + gap] = arr[j + gap]
        BY <2>1, <2>2, <3>1, <3>2
      <4>2. j - gap >= 0 /\ j >= gap /\ j + gap <= i
        BY <2>1, <2>4, <3>2 DEF Index
      <4>3. arr[j - gap] <= arr[j + gap]
        BY <2>1, <4>2 DEF PrefixSorted
      <4> QED
        BY <4>1, <4>3
    <3>3. CASE k # j
      <4>1. k + gap # j
        BY <2>1, <2>4, <3>1
      <4> QED
        BY <2>1, <2>2, <2>4, <3>1, <3>3, <4>1 DEF PrefixSorted
    <3> QED
      BY <3>2, <3>3
  <2>5. ASSUME h >= gap, h + gap <= i PROVE arr'[h - gap] <= arr'[h + gap]
    <3>1. h - gap \in Index /\ h + gap = j /\ (h - gap) + gap = h /\ h - gap # j /\ h # j
      BY <2>1, <2>5 DEF Index
    <3>2. arr[h - gap] <= arr[h]
      BY <2>1, <3>1 DEF PrefixSorted
    <3> QED
      BY <2>2, <3>1, <3>2
  <2>6. temp < arr'[h + gap]
    <3>1. h + gap = j
      BY <2>1
    <3> QED
      BY <2>1, <2>2, <2>3, <3>1
  <2> QED
    BY <2>1, <2>4, <2>5, <2>6 DEF PrefixSorted
<1>5. CASE Put
  <2>1. /\ gap \in Nat /\ gap > 0 /\ i \in Nat /\ i < N /\ N \in Nat
        /\ j \in Index /\ j \in Int /\ j <= i /\ temp \in Int
        /\ pc = "shift" /\ pc' = "element" /\ gap' = gap /\ i' = i + 1
        /\ j >= gap => j - gap \in Index /\ ~(arr[j - gap] > temp)
    BY <1>5, HoleInArray DEF Put, NextElement, TypeOK, Index
  <2>2. arr'[j] = temp /\ \A k \in Index : k # j => arr'[k] = arr[k]
    BY <1>5, <2>1 DEF Put, Saved, TypeOK
  <2>3. \A k \in Index : arr[k] \in Int
    BY DEF TypeOK
  <2>4. ASSUME NEW k \in Index, k + gap < i + 1 PROVE arr'[k] <= arr'[k + gap]
    <3>1. k + gap \in Index /\ k \in Int /\ k + gap <= i
      BY <2>1, <2>4 DEF Index
    <3>2. CASE k = j
      <4>1. temp < arr[j + gap] /\ j + gap # j /\ arr[j + gap] \in Int
        BY <2>1, <2>3, <3>1, <3>2 DEF PrefixSorted
      <4> QED
        BY <2>1, <2>2, <3>1, <3>2, <4>1
    <3>3. CASE k + gap = j
      <4>1. j >= gap /\ k = j - gap /\ k # j
        BY <2>1, <3>1, <3>3 DEF Index
      <4>2. arr[k] <= temp
        BY <2>1, <2>3, <4>1
      <4> QED
        BY <2>2, <3>3, <4>1, <4>2
    <3>4. CASE k # j /\ k + gap # j
      BY <2>1, <2>2, <3>1, <3>4 DEF PrefixSorted
    <3> QED
      BY <3>2, <3>3, <3>4
  <2> QED
    BY <2>1, <2>4 DEF PrefixSorted
<1>6. CASE UNCHANGED vars
  BY <1>6 DEF vars, PrefixSorted
<1> QED
  BY <1>1, <1>2, <1>3, <1>4, <1>5, <1>6 DEF Next, Done

(* The gap becomes zero when the pass with gap one has ended. *)
LEMMA StepLastPass ==
  TypeOK /\ PrefixSorted /\ LastPass /\ DoneAtZero /\ [Next]_vars => LastPass' /\ DoneAtZero'
<1> SUFFICES ASSUME TypeOK, PrefixSorted, LastPass, DoneAtZero, [Next]_vars
             PROVE  LastPass' /\ DoneAtZero'
  OBVIOUS
<1>1. CASE StartPass
  <2>1. gap \in Nat
    BY SizeAssumption DEF TypeOK
  <2> QED
    BY <1>1, <2>1 DEF StartPass, MoreGaps, LastPass, DoneAtZero, SortedBy
<1>2. CASE EndPass
  <2>1. gap \in Nat /\ gap > 0 /\ N \in Nat /\ i \in Nat /\ i >= N
    BY <1>2, SizeAssumption DEF EndPass, TypeOK
  <2>2. gap \div 2 = 0 => gap = 1
    BY <2>1
  <2>3. SortedBy(gap)
    BY <1>2, <2>1 DEF EndPass, PrefixSorted, SortedBy, Index
  <2> QED
    BY <1>2, <2>2, <2>3 DEF EndPass, NextGap, LastPass, DoneAtZero, SortedBy
<1>3. CASE TakeElement \/ Shift \/ Put
  BY <1>3 DEF TakeElement, Shift, Put, LastPass, DoneAtZero
<1>4. CASE UNCHANGED vars
  BY <1>4 DEF vars, LastPass, DoneAtZero, SortedBy
<1> QED
  BY <1>1, <1>2, <1>3, <1>4 DEF Next, Done

(* Every step keeps the elements, with the saved one at the hole. *)
LEMMA StepRearranged == TypeOK /\ Rearranged /\ [Next]_vars => Rearranged'
<1> SUFFICES ASSUME TypeOK, Rearranged, [Next]_vars PROVE Rearranged'
  OBVIOUS
<1>1. CASE StartPass \/ EndPass
  BY <1>1 DEF StartPass, EndPass, Rearranged
<1>2. CASE TakeElement
  BY <1>2 DEF TakeElement, Rearranged
<1>3. CASE Shift
  <2> DEFINE h == j - gap
  <2>1. /\ j \in Index /\ h \in Index /\ h # j
        /\ pc = "shift" /\ pc' = "shift" /\ temp' = temp /\ arr0' = arr0 /\ j' = h
    BY <1>3, HoleInArray DEF Shift, Index
  <2>2. /\ arr'[j] = arr[h] /\ \A k \in Index : k # j => arr'[k] = arr[k]
        /\ origin'[j] = origin[h] /\ origin'[h] = origin[j]
        /\ \A k \in Index : k # j /\ k # h => origin'[k] = origin[k]
    BY <1>3, <2>1 DEF Shift, TypeOK
  <2>3. \A k \in Index : (IF k = h THEN temp ELSE arr'[k]) = arr0[origin'[k]]
    BY <2>1, <2>2 DEF Rearranged
  <2>4. \A k, l \in Index : k # l => origin'[k] # origin'[l]
    BY <2>1, <2>2 DEF Rearranged
  <2> QED
    BY <2>1, <2>3, <2>4 DEF Rearranged
<1>4. CASE Put
  <2>1. j \in Index /\ pc = "shift" /\ pc' = "element" /\ UNCHANGED <<arr0, origin>>
    BY <1>4, HoleInArray DEF Put
  <2>2. arr'[j] = temp /\ \A k \in Index : k # j => arr'[k] = arr[k]
    BY <1>4, <2>1 DEF Put, Saved, TypeOK
  <2> QED
    BY <2>1, <2>2 DEF Rearranged
<1>5. CASE UNCHANGED vars
  BY <1>5 DEF vars, Rearranged
<1> QED
  BY <1>1, <1>2, <1>3, <1>4, <1>5 DEF Next, Done

(* Every step of a pass rearranges chains of the gap, and the array a pass *)
(* begins with is sorted by all earlier gaps.                              *)
LEMMA StepEarlierGaps ==
  TypeOK /\ GapSorted /\ EarlierGaps /\ [Next]_vars => EarlierGaps'
<1> SUFFICES ASSUME TypeOK, GapSorted, EarlierGaps, [Next]_vars,
                    pc' \in {"element", "shift"}
             PROVE  \E b \in [Index -> Int], o \in [Index -> Index] : PassFrom(b, o, gaps', Held', gap')
  BY DEF EarlierGaps
<1>1. CASE StartPass
  <2> DEFINE o == [k \in Index |-> k]
  <2>1. arr \in [Index -> Int] /\ o \in [Index -> Index]
    BY DEF TypeOK
  <2>2. Permutes(o)
    BY DEF Permutes
  <2>3. \A k \in Index : Held'[k] = arr[o[k]]
    BY <1>1 DEF StartPass, MoreGaps, Held
  <2>4. \A k \in Index : SameChain(k, o[k], gap)
    <3>1. \A k \in Index : k \in Int
      BY DEF Index
    <3>2. gap \in Int /\ 0 \in Int
      BY SizeAssumption DEF TypeOK
    <3>3. \A k \in Index : o[k] - k = 0 * gap
      BY <3>1, <3>2
    <3> QED
      BY <3>2, <3>3 DEF SameChain
  <2>5. \A g \in gaps : \A k \in Index : k + g < N => arr[k] <= arr[k + g]
    BY <1>1 DEF StartPass, GapSorted, SortedBy
  <2> HIDE DEF o
  <2>6. gaps' = gaps /\ gap' = gap
    BY <1>1 DEF StartPass
  <2>7. PassFrom(arr, o, gaps', Held', gap')
    BY <2>2, <2>3, <2>4, <2>5, <2>6 DEF PassFrom
  <2> QED
    BY <2>1, <2>7
<1>2. CASE EndPass
  BY <1>2 DEF EndPass
<1>3. CASE TakeElement
  <2>1. PICK b \in [Index -> Int], o \in [Index -> Index] : PassFrom(b, o, gaps, Held, gap)
    BY <1>3 DEF TakeElement, EarlierGaps
  <2>2. Held' = Held
    BY <1>3 DEF TakeElement, Held
  <2> QED
    BY <1>3, <2>1, <2>2 DEF TakeElement, PassFrom
<1>4. CASE Shift
  <2> DEFINE h == j - gap
  <2>1. PICK b \in [Index -> Int], o \in [Index -> Index] : PassFrom(b, o, gaps, Held, gap)
    BY <1>4 DEF Shift, EarlierGaps
  <2>2. /\ j \in Index /\ h \in Index /\ h # j
        /\ pc = "shift" /\ pc' = "shift" /\ temp' = temp /\ j' = h
        /\ gap' = gap /\ gaps' = gaps /\ gap \in Nat \ {0}
    BY <1>4, HoleInArray DEF Shift, Index
  <2>3. arr'[j] = arr[h] /\ \A k \in Index : k # j => arr'[k] = arr[k]
    BY <1>4, <2>2 DEF Shift, TypeOK
  <2>4. SameChain(j, h, gap) /\ SameChain(h, j, gap)
    <3>1. h - j = (-1) * gap /\ -1 \in Int /\ j \in Int /\ h \in Int
      BY <2>2 DEF Index
    <3>2. SameChain(j, h, gap)
      BY <3>1 DEF SameChain
    <3> QED
      BY <2>2, <3>1, <3>2, ChainClasses
  <2> DEFINE p == [k \in Index |-> IF k = j THEN o[h] ELSE IF k = h THEN o[j] ELSE o[k]]
  <2>5. p \in [Index -> Index] /\ Permutes(p)
    BY <2>1, <2>2 DEF PassFrom, Permutes
  <2>6. /\ Held'[j] = arr[h] /\ Held'[h] = temp
        /\ \A k \in Index : k # j /\ k # h => Held'[k] = arr[k]
    BY <2>2, <2>3 DEF Held
  <2>7. /\ Held[h] = arr[h] /\ Held[j] = temp
        /\ \A k \in Index : k # j => Held[k] = arr[k]
    BY <2>2 DEF Held
  <2>8. \A k \in Index : Held'[k] = b[p[k]]
    BY <2>1, <2>2, <2>6, <2>7 DEF PassFrom
  <2>9. \A k \in Index : SameChain(k, p[k], gap)
    <3>1. \A k \in Index : k \in Int /\ o[k] \in Int
      BY DEF Index
    <3>2. \A k \in Index : SameChain(k, o[k], gap)
      BY <2>1 DEF PassFrom
    <3>3. SameChain(j, o[h], gap)
      BY <2>2, <2>4, <3>1, <3>2, ChainClasses
    <3>4. SameChain(h, o[j], gap)
      BY <2>2, <2>4, <3>1, <3>2, ChainClasses
    <3> QED
      BY <2>2, <3>2, <3>3, <3>4
  <2> HIDE DEF p
  <2>10. PassFrom(b, p, gaps', Held', gap')
    BY <2>1, <2>2, <2>5, <2>8, <2>9 DEF PassFrom
  <2> QED
    BY <2>5, <2>10
<1>5. CASE Put
  <2>1. PICK b \in [Index -> Int], o \in [Index -> Index] : PassFrom(b, o, gaps, Held, gap)
    BY <1>5 DEF Put, EarlierGaps
  <2>2. j \in Index /\ pc = "shift" /\ pc' = "element"
    BY <1>5, HoleInArray DEF Put
  <2>3. arr'[j] = temp /\ \A k \in Index : k # j => arr'[k] = arr[k]
    BY <1>5, <2>2 DEF Put, Saved, TypeOK
  <2>4. \A k \in Index : Held'[k] = Held[k]
    BY <2>2, <2>3 DEF Held
  <2> QED
    BY <1>5, <2>1, <2>4 DEF Put, PassFrom
<1>6. CASE UNCHANGED vars
  <2>1. PICK b \in [Index -> Int], o \in [Index -> Index] : PassFrom(b, o, gaps, Held, gap)
    BY <1>6 DEF vars, EarlierGaps
  <2>2. Held' = Held
    BY <1>6 DEF vars, Held
  <2> QED
    BY <1>6, <2>1, <2>2 DEF vars, PassFrom
<1> QED
  BY <1>1, <1>2, <1>3, <1>4, <1>5, <1>6 DEF Next, Done

(* A pass that ends has sorted by its gap and undone no earlier pass.      *)
LEMMA StepGapSorted ==
  TypeOK /\ PrefixSorted /\ GapSorted /\ EarlierGaps /\ [Next]_vars => GapSorted'
<1> SUFFICES ASSUME TypeOK, PrefixSorted, GapSorted, EarlierGaps, [Next]_vars
             PROVE  GapSorted'
  OBVIOUS
<1>1. CASE EndPass
  <2>1. PICK b \in [Index -> Int], o \in [Index -> Index] : PassFrom(b, o, gaps, Held, gap)
    BY <1>1 DEF EndPass, EarlierGaps
  <2>2. /\ N \in Nat /\ gap \in Nat \ {0} /\ arr \in [Index -> Int]
        /\ i >= N /\ i \in Nat /\ pc = "element" /\ arr' = arr /\ gaps' = gaps \cup {gap}
        /\ \A g \in gaps : g \in Nat \ {0}
    BY <1>1, SizeAssumption DEF EndPass, TypeOK
  <2>3. \A k \in Index : k + gap < N => arr[k] <= arr[k + gap]
    BY <2>2 DEF PrefixSorted, Index
  <2>4. \A u, w \in Index : u < w /\ SameChain(u, w, gap) => arr[u] <= arr[w]
    BY <2>2, <2>3, ChainInOrder
  <2>5. /\ Permutes(o)
        /\ \A u \in Index : arr[u] = b[o[u]] /\ SameChain(u, o[u], gap)
        /\ \A g \in gaps : \A u \in Index : u + g < N => b[u] <= b[u + g]
    BY <2>1, <2>2 DEF PassFrom, Held
  <2>6. ASSUME NEW g \in gaps
        PROVE  \A u \in Index : u + g < N => arr[u] <= arr[u + g]
    BY <2>2, <2>4, <2>5, KeepsOrder
  <2> QED
    BY <2>2, <2>3, <2>6 DEF GapSorted, SortedBy
<1>2. CASE StartPass
  BY <1>2 DEF StartPass, GapSorted, SortedBy
<1>3. CASE TakeElement \/ Shift \/ Put
  BY <1>3 DEF TakeElement, Shift, Put, GapSorted
<1>4. CASE UNCHANGED vars
  BY <1>4 DEF vars, GapSorted, SortedBy
<1> QED
  BY <1>1, <1>2, <1>3, <1>4 DEF Next, Done

-------------------------------------------------------------------------------
(* The inductive invariant holds in every reachable state. *)
THEOREM Invariance == Spec => []IInv
<1>1. IInv /\ [Next]_vars => IInv'
  BY StepTypeOK, StepPrefixSorted, StepLastPass, StepRearranged, StepEarlierGaps,
     StepGapSorted DEF IInv
<1> QED
  BY InitIInv, <1>1, PTL DEF Spec

(* The indices stay inside the array.                                      *)
THEOREM Typing == Spec => []TypeOK
BY Invariance, PTL DEF IInv

(* No pass undoes an earlier one.                                          *)
THEOREM PassesAddUp == Spec => []GapSorted
BY Invariance, PTL DEF IInv

(* Both sorts leave every array in order.                                  *)
THEOREM EndsInOrder == Spec => []Sorted
<1>1. IInv => Sorted
  <2> SUFFICES ASSUME IInv, pc = "done",
                      NEW k \in Index, NEW l \in Index, k < l
               PROVE  arr[k] <= arr[l]
    BY DEF Sorted
  <2>1. N \in Nat /\ 1 \in Nat \ {0} /\ arr \in [Index -> Int]
    BY SizeAssumption DEF IInv, TypeOK
  <2>2. \A u \in Index : u + 1 < N => arr[u] <= arr[u + 1]
    BY DEF IInv, LastPass, DoneAtZero, SortedBy
  <2>3. SameChain(k, l, 1)
    <3>1. l - k \in Int /\ l - k = (l - k) * 1
      BY DEF Index
    <3> QED
      BY <3>1 DEF SameChain
  <2> QED
    BY <2>1, <2>2, <2>3, ChainInOrder
<1> QED
  BY Invariance, <1>1, PTL

(* Both sorts rearrange the array: no element is lost or doubled.          *)
THEOREM Rearranges == Spec => []Rearranged
BY Invariance, PTL DEF IInv

(* Sequences of n numbers in the order of a dictionary: nothing goes down   *)
(* for ever in it, however much a step adds behind what it takes away.      *)
Below(s, t, n) == \E k \in 1..n : s[k] < t[k] /\ \A l \in 1..(k - 1) : s[l] = t[l]

(* What a sort has still to do: passes, elements and shifts.                *)
ShiftsLeft ==
  <<IF pc = "done" THEN 0 ELSE 1, gap, IF pc = "pass" THEN 1 ELSE 0, N - i,
    IF pc = "shift" THEN j ELSE N>>

(* Every step of shellSort and insertionSort takes something away from what *)
(* they have still to do: they end, for every size and first gap, and all   *)
(* that the array may hold.                                                 *)
THEOREM SortsEnd ==
  Spec => /\ [](\A k \in 1..5 : ShiftsLeft[k] \in Nat)
          /\ [][Below(ShiftsLeft', ShiftsLeft, 5)]_vars
<1>1. TypeOK => \A k \in 1..5 : ShiftsLeft[k] \in Nat
  <2> SUFFICES ASSUME TypeOK PROVE \A k \in 1..5 : ShiftsLeft[k] \in Nat
    OBVIOUS
  <2>1. gap \in Nat /\ N - i \in Nat /\ j \in Nat /\ N \in Nat
    BY SizeAssumption DEF TypeOK
  <2>2. /\ ShiftsLeft[1] \in {0, 1} /\ ShiftsLeft[2] = gap /\ ShiftsLeft[3] \in {0, 1}
        /\ ShiftsLeft[4] = N - i /\ ShiftsLeft[5] \in {j, N}
    BY DEF ShiftsLeft
  <2> QED
    BY <2>1, <2>2
<1>2. TypeOK /\ [Next]_vars => [Below(ShiftsLeft', ShiftsLeft, 5)]_vars
  <2> SUFFICES ASSUME TypeOK, Next PROVE Below(ShiftsLeft', ShiftsLeft, 5) \/ UNCHANGED vars
    OBVIOUS
  <2> DEFINE s == ShiftsLeft'
             t == ShiftsLeft
  <2>1. /\ s[1] = (IF pc' = "done" THEN 0 ELSE 1) /\ s[2] = gap'
        /\ s[3] = (IF pc' = "pass" THEN 1 ELSE 0) /\ s[4] = N - i'
        /\ s[5] = (IF pc' = "shift" THEN j' ELSE N)
        /\ t[1] = (IF pc = "done" THEN 0 ELSE 1) /\ t[2] = gap
        /\ t[3] = (IF pc = "pass" THEN 1 ELSE 0) /\ t[4] = N - i
        /\ t[5] = (IF pc = "shift" THEN j ELSE N)
    BY DEF ShiftsLeft
  <2>2. N \in Int /\ gap \in Int /\ i \in Int /\ j \in Int
    BY SizeAssumption DEF TypeOK
  <2> HIDE DEF s, t
  <2>3. SUFFICES \/ s[1] < t[1]
                 \/ s[1] = t[1] /\ s[2] < t[2]
                 \/ s[1] = t[1] /\ s[2] = t[2] /\ s[3] < t[3]
                 \/ s[1] = t[1] /\ s[2] = t[2] /\ s[3] = t[3] /\ s[4] < t[4]
                 \/ s[1] = t[1] /\ s[2] = t[2] /\ s[3] = t[3] /\ s[4] = t[4] /\ s[5] < t[5]
                 \/ UNCHANGED vars
    <3>1. s = ShiftsLeft' /\ t = ShiftsLeft
      BY DEF s, t
    <3> QED
      BY <3>1 DEF Below
  <2>4. CASE StartPass
    <3>1. CASE MoreGaps
      <4>1. pc = "pass" /\ pc' = "element" /\ gap' = gap
        BY <2>4, <3>1 DEF StartPass
      <4> QED
        BY <2>1, <4>1
    <3>2. CASE ~MoreGaps
      <4>1. pc = "pass" /\ pc' = "done"
        BY <2>4, <3>2 DEF StartPass
      <4> QED
        BY <2>1, <4>1
    <3> QED
      BY <3>1, <3>2
  <2>5. CASE EndPass
    <3>1. pc = "element" /\ pc' = "pass" /\ gap' = gap \div 2
      BY <2>5 DEF EndPass, NextGap
    <3>2. gap' < gap
      BY <2>2, <3>1 DEF TypeOK
    <3> QED
      BY <2>1, <3>1, <3>2
  <2>6. CASE TakeElement
    <3>1. pc = "element" /\ pc' = "shift" /\ gap' = gap /\ i' = i /\ j' = i /\ i < N
      BY <2>6 DEF TakeElement
    <3> QED
      BY <2>1, <3>1
  <2>7. CASE Shift
    <3>1. pc = "shift" /\ pc' = "shift" /\ gap' = gap /\ i' = i /\ j' = j - gap
      BY <2>7 DEF Shift
    <3>2. j' < j
      BY <2>2, <3>1 DEF TypeOK
    <3> QED
      BY <2>1, <3>1, <3>2
  <2>8. CASE Put
    <3>1. pc = "shift" /\ pc' = "element" /\ gap' = gap /\ i' = i + 1
      BY <2>8 DEF Put, NextElement
    <3>2. N - i' < N - i
      BY <2>2, <3>1
    <3> QED
      BY <2>1, <3>1, <3>2
  <2>9. CASE Done
    BY <2>9 DEF Done
  <2> QED
    BY <2>4, <2>5, <2>6, <2>7, <2>8, <2>9 DEF Next
<1> QED
  BY <1>1, <1>2, Typing, PTL DEF Spec

(* Induction over the numbers of an interval. *)
LEMMA Induction ==
  ASSUME NEW lo \in Int, NEW hi \in Int, NEW T,
         lo \in T, \A k \in lo..hi : k # lo /\ k - 1 \in T => k \in T
  PROVE  lo..hi \subseteq T
<1> DEFINE Bad == {m \in Nat : lo + m <= hi /\ lo + m \notin T}
<1>1. CASE Bad = {}
  <2>1. \A k \in lo..hi : k - lo \in Nat /\ lo + (k - lo) = k /\ k <= hi
    OBVIOUS
  <2>2. \A k \in lo..hi : k \in T
    BY <1>1, <2>1
  <2> QED
    BY <2>2
<1>2. CASE Bad # {}
  <2>1. PICK m \in Bad : \A l \in Bad : m <= l
    BY <1>2, LeastNat
  <2>2. m \in Nat /\ m # 0 /\ lo + m \in lo..hi /\ lo + m # lo
    BY <2>1
  <2>3. (lo + m) - 1 \in T
    <3>1. m - 1 \in Nat /\ ~(m <= m - 1) /\ lo + (m - 1) <= hi /\ lo + (m - 1) = (lo + m) - 1
      BY <2>2
    <3>2. m - 1 \notin Bad
      BY <2>1, <3>1
    <3> QED
      BY <3>1, <3>2
  <2> QED
    BY <2>1, <2>2, <2>3
<1> QED
  BY <1>1, <1>2

(* A loop with a state of S: what F makes of the state before it.          *)
Runs(f, lo, hi, S, first, F) ==
  /\ f \in [lo..hi -> S]
  /\ \A k \in lo..hi : f[k] = IF k = lo THEN first ELSE F[k][f[k - 1]]

LEMMA Loop ==
  ASSUME NEW lo \in Int, NEW hi \in Int, NEW S, NEW first \in S, NEW F \in [lo..hi -> [S -> S]]
  PROVE  \E f : Runs(f, lo, hi, S, first, F)
<1>1. CASE hi < lo
  <2>1. lo..hi = {}
    BY <1>1
  <2> DEFINE f == [k \in lo..hi |-> first]
  <2>2. f \in [lo..hi -> S]
    OBVIOUS
  <2> QED
    BY <2>1, <2>2 DEF Runs
<1>2. CASE lo <= hi
  <2> DEFINE Upto(m, g) ==
               /\ g \in [lo..m -> S]
               /\ g[lo] = first
               /\ \A k \in lo..m : k # lo => g[k] = F[k][g[k - 1]]
             T == {m \in lo..hi : \E g : Upto(m, g)}
  <2>1. lo \in T
    <3> DEFINE g == [k \in lo..lo |-> first]
    <3>1. Upto(lo, g)
      OBVIOUS
    <3> HIDE DEF g
    <3>2. \E gg : Upto(lo, gg)
      <4> HIDE DEF Upto
      <4> QED
        BY <3>1
    <3> QED
      BY <1>2, <3>2
  <2>2. ASSUME NEW m \in lo..hi, m # lo, m - 1 \in T
        PROVE  m \in T
    <3>1. PICK g : Upto(m - 1, g)
      BY <2>2
    <3> DEFINE h == [k \in lo..m |-> IF k = m THEN F[m][g[m - 1]] ELSE g[k]]
    <3>2. m - 1 \in lo..(m - 1) /\ g[m - 1] \in S /\ F[m] \in [S -> S]
      BY <2>2, <3>1
    <3>3. \A k \in lo..m : k = m \/ k \in lo..(m - 1)
      OBVIOUS
    <3>4. h \in [lo..m -> S]
      <4>1. \A k \in lo..m : (IF k = m THEN F[m][g[m - 1]] ELSE g[k]) \in S
        BY <3>1, <3>2, <3>3
      <4> QED
        BY <4>1
    <3>5. h[lo] = first
      BY <2>2, <3>1
    <3>6. ASSUME NEW k \in lo..m, k # lo
          PROVE  h[k] = F[k][h[k - 1]]
      <4>1. k - 1 \in lo..m /\ k - 1 # m
        BY <3>6
      <4>2. h[k - 1] = g[k - 1]
        BY <4>1
      <4>3. CASE k = m
        BY <4>2, <4>3
      <4>4. CASE k # m
        <5>1. k \in lo..(m - 1) /\ h[k] = g[k]
          BY <3>3, <4>4
        <5> QED
          BY <3>1, <3>6, <4>2, <5>1
      <4> QED
        BY <4>3, <4>4
    <3> HIDE DEF h
    <3>7. Upto(m, h)
      BY <3>4, <3>5, <3>6
    <3> QED
      BY <3>7
  <2>3. hi \in T
    <3> HIDE DEF T
    <3>1. lo..hi \subseteq T
      BY <2>1, <2>2, Induction
    <3> QED
      BY <1>2, <3>1
  <2>4. PICK f : Upto(hi, f)
    BY <2>3
  <2>5. f \in [lo..hi -> S]
    BY <2>4
  <2>6. \A k \in lo..hi : f[k] = IF k = lo THEN first ELSE F[k][f[k - 1]]
    BY <2>4
  <2> HIDE DEF Upto, T
  <2> QED
    BY <2>5, <2>6 DEF Runs
<1> QED
  BY <1>1, <1>2
-----------------------------------------------------------------------------
(* Rearrangements. *)

Arrays(n) == [0..(n - 1) -> Int]

(* Where each element comes from: no two from one place. *)
Moves(n) == {o \in [0..(n - 1) -> 0..(n - 1)] : \A k, l \in 0..(n - 1) : o[k] = o[l] => k = l}

(* c is b with the elements at the places lo..hi in another order. *)
Reordered(b, c, n, lo, hi) ==
  \E o \in Moves(n) :
    /\ \A k \in 0..(n - 1) : c[k] = b[o[k]]
    /\ \A k \in 0..(n - 1) : k \notin lo..hi => o[k] = k

(* Elements stay inside the range that is reordered. *)
LEMMA ComesFromInside ==
  ASSUME NEW n \in Nat, NEW lo \in Int, NEW hi \in Int, NEW o \in Moves(n),
         \A k \in 0..(n - 1) : k \notin lo..hi => o[k] = k,
         NEW k \in 0..(n - 1), k \in lo..hi
  PROVE  o[k] \in 0..(n - 1) /\ o[k] \in lo..hi
<1>1. o[k] \in 0..(n - 1)
  BY DEF Moves
<1>2. CASE o[k] \notin lo..hi
  <2>1. o[o[k]] = o[k]
    BY <1>1, <1>2
  <2>2. o[k] = k
    BY <1>1, <2>1 DEF Moves
  <2> QED
    BY <1>2, <2>2
<1> QED
  BY <1>1, <1>2

LEMMA ReorderNothing ==
  ASSUME NEW n \in Nat, NEW b, NEW lo, NEW hi
  PROVE  Reordered(b, b, n, lo, hi)
<1> DEFINE o == [k \in 0..(n - 1) |-> k]
<1>1. o \in Moves(n) /\ \A k \in 0..(n - 1) : o[k] = k
  BY DEF Moves
<1> QED
  BY <1>1 DEF Reordered

(* One after the other, both inside a range. *)
LEMMA ReorderTwice ==
  ASSUME NEW n \in Nat, NEW b, NEW c, NEW d, NEW lo \in Int, NEW hi \in Int,
         NEW lo1 \in Int, NEW hi1 \in Int, Reordered(b, c, n, lo1, hi1), lo <= lo1, hi1 <= hi,
         NEW lo2 \in Int, NEW hi2 \in Int, Reordered(c, d, n, lo2, hi2), lo <= lo2, hi2 <= hi
  PROVE  Reordered(b, d, n, lo, hi)
<1>1. PICK o \in Moves(n) :
        /\ \A k \in 0..(n - 1) : c[k] = b[o[k]]
        /\ \A k \in 0..(n - 1) : k \notin lo1..hi1 => o[k] = k
  BY DEF Reordered
<1>2. PICK p \in Moves(n) :
        /\ \A k \in 0..(n - 1) : d[k] = c[p[k]]
        /\ \A k \in 0..(n - 1) : k \notin lo2..hi2 => p[k] = k
  BY DEF Reordered
<1> DEFINE q == [k \in 0..(n - 1) |-> o[p[k]]]
<1>3. \A k \in 0..(n - 1) : p[k] \in 0..(n - 1) /\ o[k] \in 0..(n - 1)
  BY DEF Moves
<1>4. q \in Moves(n)
  <2>1. q \in [0..(n - 1) -> 0..(n - 1)]
    BY <1>3
  <2>2. \A k, l \in 0..(n - 1) : q[k] = q[l] => k = l
    BY <1>3 DEF Moves
  <2> QED
    BY <2>1, <2>2 DEF Moves
<1>5. \A k \in 0..(n - 1) : q[k] = o[p[k]]
  OBVIOUS
<1> HIDE DEF q
<1>6. \A k \in 0..(n - 1) : d[k] = b[q[k]]
  BY <1>1, <1>2, <1>3, <1>5
<1>7. \A k \in 0..(n - 1) : k \notin lo..hi => q[k] = k
  <2>1. \A k \in 0..(n - 1) : k \notin lo..hi => k \notin lo1..hi1 /\ k \notin lo2..hi2
    OBVIOUS
  <2> QED
    BY <1>1, <1>2, <1>5, <2>1
<1> QED
  BY <1>4, <1>6, <1>7 DEF Reordered

LEMMA ReorderExchange ==
  ASSUME NEW n \in Nat, NEW b \in Arrays(n), NEW lo \in Int, NEW hi \in Int,
         NEW k \in 0..(n - 1), k \in lo..hi, NEW l \in 0..(n - 1), l \in lo..hi
  PROVE  /\ Exchanged(b, k, l) \in Arrays(n)
         /\ Reordered(b, Exchanged(b, k, l), n, lo, hi)
         /\ \A m \in 0..(n - 1) :
              Exchanged(b, k, l)[m] = IF m = l THEN b[k] ELSE IF m = k THEN b[l] ELSE b[m]
<1>1. Exchanged(b, k, l) \in Arrays(n)
  BY DEF Arrays, Exchanged
<1>2. \A m \in 0..(n - 1) :
        Exchanged(b, k, l)[m] = IF m = l THEN b[k] ELSE IF m = k THEN b[l] ELSE b[m]
  BY DEF Arrays, Exchanged
<1> DEFINE o == [m \in 0..(n - 1) |-> IF m = l THEN k ELSE IF m = k THEN l ELSE m]
<1>3. o \in Moves(n)
  BY DEF Moves
<1>4. \A m \in 0..(n - 1) : o[m] = IF m = l THEN k ELSE IF m = k THEN l ELSE m
  OBVIOUS
<1> HIDE DEF o
<1>5. \A m \in 0..(n - 1) : Exchanged(b, k, l)[m] = b[o[m]]
  BY <1>2, <1>4
<1>6. Reordered(b, Exchanged(b, k, l), n, lo, hi)
  BY <1>3, <1>4, <1>5 DEF Reordered
<1> QED
  BY <1>1, <1>2, <1>6

(* Every place is one an element comes from. *)
LEMMA ComesFromAll ==
  ASSUME NEW n \in Nat, NEW o \in Moves(n)
  PROVE  \A m \in 0..(n - 1) : \E k \in 0..(n - 1) : o[k] = m
<1>1. o \in Injection(0..(n - 1), 0..(n - 1)) /\ IsFiniteSet(0..(n - 1))
  <2> DEFINE D == 0..(n - 1)
  <2>1. o \in [D -> D] /\ \A k, l \in D : o[k] = o[l] => k = l
    BY DEF Moves
  <2>2. IsFiniteSet(D)
    BY FS_Interval
  <2> HIDE DEF D
  <2>3. o \in Injection(D, D)
    BY <2>1 DEF Injection, IsInjective
  <2> QED
    BY <2>2, <2>3 DEF D
<1>2. o \in Surjection(0..(n - 1), 0..(n - 1))
  BY <1>1, FS_Injection
<1> QED
  BY <1>2 DEF Surjection

(* A rearrangement has each value as often as the array it comes from.     *)
LEMMA SameCounts ==
  ASSUME NEW n \in Nat, NEW b, NEW c, Reordered(b, c, n, 0, n - 1), NEW v
  PROVE  Cardinality(Places(c, n, v)) = Cardinality(Places(b, n, v))
<1>1. PICK o \in Moves(n) : \A k \in 0..(n - 1) : c[k] = b[o[k]]
  BY DEF Reordered
<1> DEFINE S == Places(c, n, v)
           T == Places(b, n, v)
           p == [k \in S |-> o[k]]
<1>2. \A k \in 0..(n - 1) : o[k] \in 0..(n - 1)
  BY DEF Moves
<1>3. p \in [S -> T]
  <2>1. \A k \in S : o[k] \in T
    BY <1>1, <1>2 DEF Places
  <2> QED
    BY <2>1
<1>4. p \in Injection(S, T)
  <2>1. \A k, l \in S : p[k] = p[l] => k = l
    BY DEF Places, Moves
  <2> HIDE DEF p, S, T
  <2> QED
    BY <1>3, <2>1 DEF Injection, IsInjective
<1>5. p \in Surjection(S, T)
  <2>1. ASSUME NEW m \in T PROVE \E k \in S : p[k] = m
    <3>1. PICK k \in 0..(n - 1) : o[k] = m
      BY ComesFromAll DEF Places
    <3>2. k \in S
      BY <1>1, <3>1 DEF Places
    <3> QED
      BY <3>1, <3>2
  <2> HIDE DEF p, S, T
  <2> QED
    BY <1>3, <2>1 DEF Surjection
<1>6. IsFiniteSet(S)
  <2>1. IsFiniteSet(0..(n - 1)) /\ S \in SUBSET (0..(n - 1))
    BY FS_Interval DEF Places
  <2> QED
    BY <2>1, FS_Subset
<1>7. ExistsBijection(S, T)
  BY <1>4, <1>5 DEF ExistsBijection, Bijection
<1> HIDE DEF S, T
<1>8. Cardinality(T) = Cardinality(S)
  BY <1>6, <1>7, FS_Bijection
<1> QED
  BY <1>8 DEF S, T

(* What each sort is to leave behind. *)
SortOf(b, c, n) ==
  /\ c \in Arrays(n)
  /\ Reordered(b, c, n, 0, n - 1)
  /\ \A k, l \in 0..(n - 1) : k < l => c[k] <= c[l]

-----------------------------------------------------------------------------
(* bubble. *)

(* The recursive functions of the model are what their bodies say.         *)
LEMMA SweptLoop ==
  ASSUME NEW n \in Nat, NEW a \in Arrays(n), NEW last \in 0..(n - 1)
  PROVE  \E f : /\ f[0] = a /\ Swept(a, last) = f[last]
                /\ \A u \in 1..last :
                     f[u] = IF f[u - 1][u - 1] > f[u - 1][u] THEN Exchanged(f[u - 1], u - 1, u)
                                                             ELSE f[u - 1]
<1> DEFINE Step(b, u) == IF b[u - 1] > b[u] THEN Exchanged(b, u - 1, u) ELSE b
           Body(g) == [u \in 0..last |-> IF u = 0 THEN a ELSE Step(g[u - 1], u)]
           loop == CHOOSE g : g = Body(g)
           F == [u \in 0..last |-> [b \in Arrays(n) |-> IF u = 0 THEN b ELSE Step(b, u)]]
<1>1. F \in [0..last -> [Arrays(n) -> Arrays(n)]]
  <2>1. ASSUME NEW u \in 0..last, u # 0, NEW b \in Arrays(n) PROVE Step(b, u) \in Arrays(n)
    BY <2>1, ReorderExchange
  <2> HIDE DEF Step
  <2> QED
    BY <2>1
<1>2. PICK f \in [0..last -> Arrays(n)] :
        \A u \in 0..last : f[u] = IF u = 0 THEN a ELSE F[u][f[u - 1]]
  <2> HIDE DEF F
  <2>1. \E f : Runs(f, 0, last, Arrays(n), a, F)
    BY <1>1, Loop
  <2> QED
    BY <2>1 DEF Runs
<1>3. f = Body(f)
  <2>1. \A u \in 0..last : u # 0 => f[u - 1] \in Arrays(n)
    BY <1>2
  <2> HIDE DEF Step
  <2>2. \A u \in 0..last : u # 0 => F[u][f[u - 1]] = Step(f[u - 1], u)
    BY <2>1
  <2> HIDE DEF F
  <2>3. \A u \in 0..last : f[u] = IF u = 0 THEN a ELSE Step(f[u - 1], u)
    BY <1>2, <2>2
  <2> QED
    BY <1>2, <2>3
<1>4. loop = Body(loop)
  <2> HIDE DEF Body
  <2> QED
    BY <1>3
<1>5. Swept(a, last) = loop[last]
  BY DEF Swept
<1> HIDE DEF loop
<1>6. loop[0] = a /\ \A u \in 1..last : loop[u] = Step(loop[u - 1], u)
  <2> HIDE DEF Step
  <2> QED
    BY <1>4
<1> QED
  BY <1>5, <1>6

(* A pass carries the greatest element to its end.                         *)
LEMMA SweptGreatest ==
  ASSUME NEW n \in Nat, NEW a \in Arrays(n), NEW last \in 0..(n - 1)
  PROVE  /\ Swept(a, last) \in Arrays(n)
         /\ Reordered(a, Swept(a, last), n, 0, last)
         /\ \A k \in 0..last : Swept(a, last)[k] <= Swept(a, last)[last]
<1>1. PICK f : /\ f[0] = a /\ Swept(a, last) = f[last]
               /\ \A u \in 1..last :
                    f[u] = IF f[u - 1][u - 1] > f[u - 1][u] THEN Exchanged(f[u - 1], u - 1, u)
                                                            ELSE f[u - 1]
  BY SweptLoop
<1> DEFINE Inv(b, u) == /\ b \in Arrays(n)
                        /\ Reordered(a, b, n, 0, last)
                        /\ \A k \in 0..u : b[k] <= b[u]
           T == {u \in 0..last : Inv(f[u], u)}
<1>2. 0 \in T
  <2>1. \A k \in 0..0 : k = 0 /\ a[k] <= a[0]
    BY DEF Arrays
  <2> QED
    BY <1>1, <2>1, ReorderNothing
<1>3. ASSUME NEW u \in 0..last, u # 0, u - 1 \in T
      PROVE  u \in T
  <2> DEFINE b == f[u - 1]
             c == Exchanged(b, u - 1, u)
  <2>1. /\ b \in Arrays(n) /\ Reordered(a, b, n, 0, last)
        /\ \A k \in 0..(u - 1) : b[k] <= b[u - 1]
    BY <1>3
  <2>2. u \in 0..(n - 1) /\ u - 1 \in 0..(n - 1) /\ u - 1 \in 0..last /\ u \in 1..last
    BY <1>3
  <2>3. f[u] = IF b[u - 1] > b[u] THEN c ELSE b
    BY <1>1, <2>2
  <2> HIDE DEF b
  <2>4. \A k \in 0..u : k \in 0..(n - 1) /\ b[k] \in Int /\ (k = u \/ k \in 0..(u - 1))
    BY <2>1, <2>2 DEF Arrays
  <2>5. CASE b[u - 1] > b[u]
    <3>1. /\ c \in Arrays(n) /\ Reordered(b, c, n, 0, last)
          /\ \A m \in 0..(n - 1) :
               c[m] = IF m = u THEN b[u - 1] ELSE IF m = u - 1 THEN b[u] ELSE b[m]
      BY <2>1, <2>2, ReorderExchange
    <3> HIDE DEF c
    <3>2. Reordered(a, c, n, 0, last)
      BY <2>1, <3>1, ReorderTwice
    <3>3. ASSUME NEW k \in 0..u PROVE c[k] <= c[u]
      <4>1. c[u] = b[u - 1] /\ b[u - 1] \in Int /\ b[u] \in Int
        BY <2>1, <2>2, <3>1 DEF Arrays
      <4>2. CASE k = u
        BY <4>1, <4>2
      <4>3. CASE k = u - 1
        BY <2>2, <2>5, <3>1, <4>1, <4>3
      <4>4. CASE k # u /\ k # u - 1
        <5>1. k \in 0..(u - 1) /\ c[k] = b[k]
          BY <2>4, <3>1, <4>4
        <5> QED
          BY <2>1, <4>1, <5>1
      <4> QED
        BY <4>2, <4>3, <4>4
    <3>4. Inv(c, u)
      BY <3>1, <3>2, <3>3
    <3> HIDE DEF Inv
    <3> QED
      BY <2>3, <2>5, <3>4
  <2>6. CASE ~(b[u - 1] > b[u])
    <3>1. b[u - 1] <= b[u] /\ b[u - 1] \in Int /\ b[u] \in Int
      BY <2>1, <2>2, <2>6 DEF Arrays
    <3>2. ASSUME NEW k \in 0..u PROVE b[k] <= b[u]
      <4>1. CASE k = u
        BY <3>1, <4>1
      <4>2. CASE k \in 0..(u - 1)
        <5>1. b[k] <= b[u - 1] /\ b[k] \in Int
          BY <2>1, <2>4, <4>2
        <5> QED
          BY <3>1, <5>1
      <4> QED
        BY <2>4, <4>1, <4>2
    <3>3. Inv(b, u)
      BY <2>1, <3>2
    <3> HIDE DEF Inv
    <3> QED
      BY <2>3, <2>6, <3>3
  <2> QED
    BY <2>5, <2>6
<1>4. last \in T
  <2> HIDE DEF T
  <2>1. 0..last \subseteq T
    BY <1>2, <1>3, Induction
  <2> QED
    BY <2>1
<1> QED
  BY <1>1, <1>4

LEMMA BubbleLoop ==
  ASSUME NEW n \in Nat \ {0}, NEW a \in Arrays(n)
  PROVE  \E f : /\ f[0] = a /\ BubbleSort(a, n) = f[n - 1]
                /\ \A r \in 1..(n - 1) : f[r] = Swept(f[r - 1], n - r)
<1> DEFINE Body(g) == [r \in 0..(n - 1) |-> IF r = 0 THEN a ELSE Swept(g[r - 1], n - r)]
           pass == CHOOSE g : g = Body(g)
           F == [r \in 0..(n - 1) |-> [b \in Arrays(n) |-> IF r = 0 THEN b ELSE Swept(b, n - r)]]
<1>1. F \in [0..(n - 1) -> [Arrays(n) -> Arrays(n)]]
  <2>1. ASSUME NEW r \in 0..(n - 1), r # 0, NEW b \in Arrays(n) PROVE Swept(b, n - r) \in Arrays(n)
    <3>1. n - r \in 0..(n - 1)
      BY <2>1
    <3> QED
      BY <3>1, SweptGreatest
  <2> QED
    BY <2>1
<1>2. PICK f \in [0..(n - 1) -> Arrays(n)] :
        \A r \in 0..(n - 1) : f[r] = IF r = 0 THEN a ELSE F[r][f[r - 1]]
  <2> HIDE DEF F
  <2>1. \E f : Runs(f, 0, n - 1, Arrays(n), a, F)
    BY <1>1, Loop
  <2> QED
    BY <2>1 DEF Runs
<1>3. f = Body(f)
  <2>1. \A r \in 0..(n - 1) : r # 0 => f[r - 1] \in Arrays(n)
    BY <1>2
  <2>2. \A r \in 0..(n - 1) : r # 0 => F[r][f[r - 1]] = Swept(f[r - 1], n - r)
    BY <2>1
  <2> HIDE DEF F
  <2>3. \A r \in 0..(n - 1) : f[r] = IF r = 0 THEN a ELSE Swept(f[r - 1], n - r)
    BY <1>2, <2>2
  <2> QED
    BY <1>2, <2>3
<1>4. pass = Body(pass)
  <2> HIDE DEF Body
  <2> QED
    BY <1>3
<1>5. BubbleSort(a, n) = pass[n - 1]
  BY DEF BubbleSort
<1> HIDE DEF pass
<1>6. pass[0] = a /\ \A r \in 1..(n - 1) : pass[r] = Swept(pass[r - 1], n - r)
  BY <1>4
<1> QED
  BY <1>5, <1>6

(* After r passes the r greatest elements are in place behind the others.  *)
LEMMA Bubble ==
  ASSUME NEW n \in Nat \ {0}, NEW a \in Arrays(n)
  PROVE  SortOf(a, BubbleSort(a, n), n)
<1>1. PICK f : /\ f[0] = a /\ BubbleSort(a, n) = f[n - 1]
               /\ \A r \in 1..(n - 1) : f[r] = Swept(f[r - 1], n - r)
  BY BubbleLoop
<1> DEFINE Inv(b, r) ==
             /\ b \in Arrays(n)
             /\ Reordered(a, b, n, 0, n - 1)
             /\ \A k \in 0..(n - 1), l \in (n - r)..(n - 1) : k < l => b[k] <= b[l]
           T == {r \in 0..(n - 1) : Inv(f[r], r)}
<1>2. 0 \in T
  <2>1. (n - 0)..(n - 1) = {}
    OBVIOUS
  <2> QED
    BY <1>1, <2>1, ReorderNothing
<1>3. ASSUME NEW r \in 0..(n - 1), r # 0, r - 1 \in T
      PROVE  r \in T
  <2> DEFINE b == f[r - 1]
             last == n - r
             c == Swept(b, last)
  <2>1. /\ b \in Arrays(n) /\ Reordered(a, b, n, 0, n - 1)
        /\ \A k \in 0..(n - 1), l \in (last + 1)..(n - 1) : k < l => b[k] <= b[l]
    <3>1. n - (r - 1) = last + 1
      OBVIOUS
    <3> QED
      BY <1>3, <3>1
  <2>2. f[r] = c /\ last \in 0..(n - 1)
    BY <1>1, <1>3
  <2>3. /\ c \in Arrays(n) /\ Reordered(b, c, n, 0, last)
        /\ \A k \in 0..last : c[k] <= c[last]
    BY <2>1, <2>2, SweptGreatest
  <2> HIDE DEF b, c
  <2>4. Reordered(a, c, n, 0, n - 1)
    BY <2>1, <2>2, <2>3, ReorderTwice
  <2>5. ASSUME NEW k \in 0..(n - 1), NEW l \in last..(n - 1), k < l
        PROVE  c[k] <= c[l]
    <3>1. CASE l = last
      BY <2>3, <2>5, <3>1
    <3>2. CASE l # last
      <4>1. PICK o \in Moves(n) :
              /\ \A m \in 0..(n - 1) : c[m] = b[o[m]]
              /\ \A m \in 0..(n - 1) : m \notin 0..last => o[m] = m
        BY <2>3 DEF Reordered
      <4>2. l \in (last + 1)..(n - 1) /\ l \in 0..(n - 1) /\ l \notin 0..last
        BY <2>2, <3>2
      <4>3. c[l] = b[l]
        BY <4>1, <4>2
      <4>4. o[k] \in 0..(n - 1) /\ o[k] < l
        <5>1. CASE k \in 0..last
          <6>0. n \in Nat /\ last \in Int /\ 0 \in Int
            BY <2>2
          <6> HIDE DEF last
          <6>1. o[k] \in 0..(n - 1) /\ o[k] \in 0..last
            BY <4>1, <5>1, <6>0, ComesFromInside
          <6>2. l > last /\ l \in Int
            BY <4>2 DEF last
          <6> QED
            BY <6>0, <6>1, <6>2
        <5>2. CASE k \notin 0..last
          BY <2>5, <4>1, <5>2
        <5> QED
          BY <5>1, <5>2
      <4> QED
        BY <2>1, <4>1, <4>2, <4>3, <4>4
    <3> QED
      BY <3>1, <3>2
  <2>6. Inv(c, r)
    BY <2>3, <2>4, <2>5
  <2> HIDE DEF Inv
  <2> QED
    BY <2>2, <2>6
<1>4. n - 1 \in T
  <2> HIDE DEF T
  <2>1. 0..(n - 1) \subseteq T
    BY <1>2, <1>3, Induction
  <2> QED
    BY <2>1
<1>5. Inv(f[n - 1], n - 1)
  BY <1>4
<1>6. \A k, l \in 0..(n - 1) : k < l => l \in (n - (n - 1))..(n - 1)
  OBVIOUS
<1> QED
  BY <1>1, <1>5, <1>6 DEF SortOf


-----------------------------------------------------------------------------
(* selectionSort. *)

(* The search finds an element that none from r on is smaller than.        *)
LEMMA MinIndexLeast ==
  ASSUME NEW n \in Nat, NEW a \in Arrays(n), NEW r \in 0..(n - 1)
  PROVE  /\ MinIndex(a, r, n) \in r..(n - 1)
         /\ \A k \in r..(n - 1) : a[MinIndex(a, r, n)] <= a[k]
<1> DEFINE Step(m, u) == IF a[m] > a[u] THEN u ELSE m
           Body(g) == [u \in r..(n - 1) |-> IF u = r THEN r ELSE Step(g[u - 1], u)]
           loop == CHOOSE g : g = Body(g)
           S == r..(n - 1)
           F == [u \in r..(n - 1) |-> [m \in S |-> Step(m, u)]]
<1>1. F \in [r..(n - 1) -> [S -> S]]
  OBVIOUS
<1>2. PICK f \in [r..(n - 1) -> S] : \A u \in r..(n - 1) : f[u] = IF u = r THEN r ELSE F[u][f[u - 1]]
  <2>1. r \in Int /\ n - 1 \in Int /\ r \in S
    OBVIOUS
  <2> HIDE DEF F, S
  <2>2. \E f : Runs(f, r, n - 1, S, r, F)
    BY <1>1, <2>1, Loop
  <2> QED
    BY <2>2 DEF Runs
<1>3. f = Body(f)
  <2>1. \A u \in r..(n - 1) : u # r => f[u - 1] \in S
    BY <1>2
  <2> HIDE DEF Step
  <2>2. \A u \in r..(n - 1) : u # r => F[u][f[u - 1]] = Step(f[u - 1], u)
    BY <2>1
  <2> HIDE DEF F
  <2>3. \A u \in r..(n - 1) : f[u] = IF u = r THEN r ELSE Step(f[u - 1], u)
    BY <1>2, <2>2
  <2> QED
    BY <1>2, <2>3
<1>4. loop = Body(loop)
  <2> HIDE DEF Body
  <2> QED
    BY <1>3
<1>5. MinIndex(a, r, n) = loop[n - 1]
  BY DEF MinIndex
<1> HIDE DEF loop
<1>6. loop[r] = r /\ \A u \in r..(n - 1) : u # r => loop[u] = Step(loop[u - 1], u)
  <2>1. r \in r..(n - 1)
    OBVIOUS
  <2>2. loop = [u \in r..(n - 1) |-> IF u = r THEN r ELSE Step(loop[u - 1], u)]
    BY <1>4
  <2> HIDE DEF Step
  <2> QED
    BY <2>1, <2>2
<1> DEFINE Inv(m, u) == m \in r..u /\ \A k \in r..u : a[m] <= a[k]
           T == {u \in r..(n - 1) : Inv(loop[u], u)}
<1>7. r \in T
  <2>1. \A k \in r..r : k = r /\ a[r] <= a[r]
    BY DEF Arrays
  <2> QED
    BY <1>6, <2>1
<1>8. ASSUME NEW u \in r..(n - 1), u # r, u - 1 \in T
      PROVE  u \in T
  <2> DEFINE m == loop[u - 1]
  <2>1. m \in r..(u - 1) /\ \A k \in r..(u - 1) : a[m] <= a[k]
    BY <1>8
  <2>2. loop[u] = IF a[m] > a[u] THEN u ELSE m
    BY <1>6, <1>8
  <2> HIDE DEF m
  <2>3. \A k \in r..u : a[k] \in Int /\ (k = u \/ k \in r..(u - 1))
    <3>1. \A k \in r..u : k \in 0..(n - 1) /\ (k = u \/ k \in r..(u - 1))
      OBVIOUS
    <3>2. \A k \in 0..(n - 1) : a[k] \in Int
      BY DEF Arrays
    <3> QED
      BY <3>1, <3>2
  <2>4. m \in r..u /\ u \in r..u
    BY <2>1
  <2>5. CASE a[m] > a[u]
    <3>1. ASSUME NEW k \in r..u PROVE a[u] <= a[k]
      <4>0. k = u \/ a[m] <= a[k]
        <5>1. k = u \/ k \in r..(u - 1)
          BY <2>3
        <5> QED
          BY <2>1, <5>1
      <4>1. a[m] \in Int /\ a[u] \in Int /\ a[k] \in Int /\ (k = u \/ a[m] <= a[k])
        BY <2>3, <2>4, <4>0
      <4>2. a[m] <= a[k] => a[u] <= a[k]
        <5>1. \A x, y, z \in Int : x > y /\ x <= z => y <= z
          OBVIOUS
        <5> QED
          BY <2>5, <4>1, <5>1
      <4>3. k = u => a[u] <= a[k]
        BY <4>1
      <4> QED
        BY <4>1, <4>2, <4>3
    <3> QED
      BY <2>2, <2>4, <2>5, <3>1
  <2>6. CASE ~(a[m] > a[u])
    <3>1. ASSUME NEW k \in r..u PROVE a[m] <= a[k]
      <4>0. k = u \/ a[m] <= a[k]
        <5>1. k = u \/ k \in r..(u - 1)
          BY <2>3
        <5> QED
          BY <2>1, <5>1
      <4>1. a[m] \in Int /\ a[u] \in Int /\ a[k] \in Int /\ (k = u \/ a[m] <= a[k])
        BY <2>3, <2>4, <4>0
      <4> QED
        BY <2>6, <4>1
    <3> QED
      BY <2>2, <2>4, <2>6, <3>1
  <2> QED
    BY <2>5, <2>6
<1>9. n - 1 \in T
  <2>1. r \in Int /\ n - 1 \in Int /\ n - 1 \in r..(n - 1)
    OBVIOUS
  <2> HIDE DEF T
  <2>2. r..(n - 1) \subseteq T
    BY <1>7, <1>8, <2>1, Induction
  <2> QED
    BY <2>1, <2>2
<1> QED
  BY <1>5, <1>9

LEMMA SelectionLoop ==
  ASSUME NEW n \in Nat, NEW a \in Arrays(n)
  PROVE  \E f : /\ f[0] = a /\ SelectionSort(a, n) = f[n]
                /\ \A r \in 1..n :
                     f[r] = Exchanged(f[r - 1], r - 1, MinIndex(f[r - 1], r - 1, n))
<1> DEFINE Step(b, r) == Exchanged(b, r - 1, MinIndex(b, r - 1, n))
           Body(g) == [r \in 0..n |-> IF r = 0 THEN a ELSE Step(g[r - 1], r)]
           step == CHOOSE g : g = Body(g)
           F == [r \in 0..n |-> [b \in Arrays(n) |-> IF r = 0 THEN b ELSE Step(b, r)]]
<1>1. F \in [0..n -> [Arrays(n) -> Arrays(n)]]
  <2>1. ASSUME NEW r \in 0..n, r # 0, NEW b \in Arrays(n) PROVE Step(b, r) \in Arrays(n)
    <3>1. r - 1 \in 0..(n - 1)
      BY <2>1
    <3>2. MinIndex(b, r - 1, n) \in 0..(n - 1)
      BY <3>1, MinIndexLeast
    <3> QED
      BY <3>1, <3>2, ReorderExchange
  <2> HIDE DEF Step
  <2> QED
    BY <2>1
<1>2. PICK f \in [0..n -> Arrays(n)] : \A r \in 0..n : f[r] = IF r = 0 THEN a ELSE F[r][f[r - 1]]
  <2> HIDE DEF F
  <2>1. \E f : Runs(f, 0, n, Arrays(n), a, F)
    BY <1>1, Loop
  <2> QED
    BY <2>1 DEF Runs
<1>3. f = Body(f)
  <2>1. \A r \in 0..n : r # 0 => f[r - 1] \in Arrays(n)
    BY <1>2
  <2> HIDE DEF Step
  <2>2. \A r \in 0..n : r # 0 => F[r][f[r - 1]] = Step(f[r - 1], r)
    BY <2>1
  <2> HIDE DEF F
  <2>3. \A r \in 0..n : f[r] = IF r = 0 THEN a ELSE Step(f[r - 1], r)
    BY <1>2, <2>2
  <2> QED
    BY <1>2, <2>3
<1>4. step = Body(step)
  <2> HIDE DEF Body
  <2> QED
    BY <1>3
<1>5. SelectionSort(a, n) = step[n]
  BY DEF SelectionSort
<1> HIDE DEF step
<1>6. step[0] = a /\ \A r \in 1..n : step[r] = Step(step[r - 1], r)
  <2> HIDE DEF Step
  <2> QED
    BY <1>4
<1> QED
  BY <1>5, <1>6

(* After r exchanges the r smallest elements are in place.                 *)
LEMMA Selection ==
  ASSUME NEW n \in Nat \ {0}, NEW a \in Arrays(n)
  PROVE  SortOf(a, SelectionSort(a, n), n)
<1>1. PICK f : /\ f[0] = a /\ SelectionSort(a, n) = f[n]
               /\ \A r \in 1..n :
                    f[r] = Exchanged(f[r - 1], r - 1, MinIndex(f[r - 1], r - 1, n))
  BY SelectionLoop
<1> DEFINE Inv(b, r) ==
             /\ b \in Arrays(n)
             /\ Reordered(a, b, n, 0, n - 1)
             /\ \A k \in 0..(r - 1), l \in 0..(n - 1) : k < l => b[k] <= b[l]
           T == {r \in 0..n : Inv(f[r], r)}
<1>2. 0 \in T
  <2>1. 0..(0 - 1) = {}
    OBVIOUS
  <2> QED
    BY <1>1, <2>1, ReorderNothing
<1>3. ASSUME NEW r \in 0..n, r # 0, r - 1 \in T
      PROVE  r \in T
  <2> DEFINE b == f[r - 1]
             p == r - 1
             m == MinIndex(b, p, n)
             c == Exchanged(b, p, m)
  <2>1. /\ b \in Arrays(n) /\ Reordered(a, b, n, 0, n - 1)
        /\ \A k \in 0..(p - 1), l \in 0..(n - 1) : k < l => b[k] <= b[l]
    BY <1>3
  <2>2. f[r] = c /\ p \in 0..(n - 1) /\ r \in 1..n
    BY <1>1, <1>3
  <2> HIDE DEF b
  <2>3. m \in p..(n - 1) /\ \A k \in p..(n - 1) : b[m] <= b[k]
    <3> HIDE DEF p
    <3> QED
      BY <2>1, <2>2, MinIndexLeast
  <2> HIDE DEF m
  <2>4. m \in 0..(n - 1) /\ m >= p
    BY <2>2, <2>3
  <2>5. /\ c \in Arrays(n) /\ Reordered(b, c, n, 0, n - 1)
        /\ \A k \in 0..(n - 1) : c[k] = IF k = m THEN b[p] ELSE IF k = p THEN b[m] ELSE b[k]
    <3> HIDE DEF p
    <3> QED
      BY <2>1, <2>2, <2>4, ReorderExchange, SMTT(30)
  <2> HIDE DEF c
  <2>6. Reordered(a, c, n, 0, n - 1)
    BY <2>1, <2>5, ReorderTwice
  <2>7. ASSUME NEW k \in 0..(r - 1), NEW l \in 0..(n - 1), k < l
        PROVE  c[k] <= c[l]
    <3>1. k \in 0..(n - 1) /\ k <= p
      BY <2>2
    <3>2. PICK q \in 0..(n - 1) : c[l] = b[q] /\ (l >= p => q >= p) /\ (l < p => q = l)
      <4>1. CASE l = m
        BY <2>2, <2>4, <2>5, <4>1
      <4>2. CASE l = p /\ l # m
        BY <2>4, <2>5, <4>2
      <4>3. CASE l # p /\ l # m
        BY <2>5, <4>3
      <4> QED
        BY <4>1, <4>2, <4>3
    <3>3. CASE k = p
      <4>1. c[k] = b[m]
        BY <2>2, <2>5, <3>3
      <4>2. q \in p..(n - 1)
        BY <2>2, <2>7, <3>2, <3>3
      <4> QED
        BY <2>3, <3>2, <4>1, <4>2
    <3>4. CASE k # p
      <4>1. k \in 0..(p - 1) /\ c[k] = b[k] /\ k # m
        BY <2>2, <2>4, <2>5, <3>1, <3>4
      <4>2. k < q
        BY <2>2, <2>7, <3>1, <3>2, <4>1
      <4> QED
        BY <2>1, <3>2, <4>1, <4>2
    <3> QED
      BY <3>3, <3>4
  <2>8. Inv(c, r)
    BY <2>5, <2>6, <2>7
  <2> HIDE DEF Inv
  <2> QED
    BY <2>2, <2>8
<1>4. n \in T
  <2> HIDE DEF T
  <2>1. 0..n \subseteq T
    BY <1>2, <1>3, Induction
  <2> QED
    BY <2>1
<1> QED
  BY <1>1, <1>4 DEF SortOf


-----------------------------------------------------------------------------
(* mergeSort. *)

Ascending(a, lo, hi) == \A k, l \in lo..hi : k < l => a[k] <= a[l]

LEMMA MergedLoop ==
  ASSUME NEW n \in Nat, NEW a \in Arrays(n),
         NEW lpos \in 0..(n - 1), NEW rpos \in 0..(n - 1), NEW mpos \in (lpos + 1)..rpos
  PROVE  \E f : /\ f[lpos] = [i |-> lpos, j |-> mpos, temp |-> a]
                /\ \A k \in (lpos + 1)..(rpos + 1) : f[k] = Took(a, f[k - 1], k, mpos, rpos)
                /\ Merged(a, lpos, mpos, rpos) = f[rpos + 1].temp
<1> DEFINE first == [i |-> lpos, j |-> mpos, temp |-> a]
           Body(g) ==
             [k \in lpos..(rpos + 1) |->
               IF k = lpos THEN first ELSE Took(a, g[k - 1], k, mpos, rpos)]
           loop == CHOOSE g : g = Body(g)
           V == {a[m] : m \in Int}
           S == [i : Int, j : Int, temp : [0..(n - 1) -> V]]
           F == [k \in lpos..(rpos + 1) |-> [s \in S |-> Took(a, s, k, mpos, rpos)]]
<1>1. F \in [lpos..(rpos + 1) -> [S -> S]]
  <2>1. ASSUME NEW k \in lpos..(rpos + 1), NEW s \in S PROVE Took(a, s, k, mpos, rpos) \in S
    <3>1. s.i \in Int /\ s.j \in Int /\ s.temp \in [0..(n - 1) -> V]
      OBVIOUS
    <3>2. a[s.i] \in V /\ a[s.j] \in V
      BY <3>1
    <3> HIDE DEF V
    <3>3. /\ [s.temp EXCEPT ![k - 1] = a[s.i]] \in [0..(n - 1) -> V]
          /\ [s.temp EXCEPT ![k - 1] = a[s.j]] \in [0..(n - 1) -> V]
      BY <3>1, <3>2
    <3> QED
      BY <3>1, <3>3 DEF Took
  <2> HIDE DEF S
  <2> QED
    BY <2>1
<1>2. PICK f \in [lpos..(rpos + 1) -> S] :
        \A k \in lpos..(rpos + 1) : f[k] = IF k = lpos THEN first ELSE F[k][f[k - 1]]
  <2>1. first \in S
    <3>1. a \in [0..(n - 1) -> V]
      BY DEF Arrays
    <3> HIDE DEF V
    <3> QED
      BY <3>1
  <2>2. lpos \in Int /\ rpos + 1 \in Int
    OBVIOUS
  <2> HIDE DEF F, S, first
  <2>3. \E f : Runs(f, lpos, rpos + 1, S, first, F)
    BY <1>1, <2>1, <2>2, Loop
  <2> QED
    BY <2>3 DEF Runs
<1> HIDE DEF first, S
<1>3. f = Body(f)
  <2>1. \A k \in lpos..(rpos + 1) : k # lpos => f[k - 1] \in S
    BY <1>2
  <2>2. \A k \in lpos..(rpos + 1) : k # lpos => F[k][f[k - 1]] = Took(a, f[k - 1], k, mpos, rpos)
    BY <2>1
  <2> HIDE DEF F
  <2>3. \A k \in lpos..(rpos + 1) :
          f[k] = IF k = lpos THEN first ELSE Took(a, f[k - 1], k, mpos, rpos)
    BY <1>2, <2>2
  <2> QED
    BY <1>2, <2>3
<1>4. loop = Body(loop)
  <2> HIDE DEF Body
  <2> QED
    BY <1>3
<1>5. Merged(a, lpos, mpos, rpos) = loop[rpos + 1].temp
  BY DEF Merged, Took, TakesLeft, first
<1> HIDE DEF loop
<1>6. loop = [k \in lpos..(rpos + 1) |->
                IF k = lpos THEN first ELSE Took(a, loop[k - 1], k, mpos, rpos)]
  BY <1>4
<1>7. loop[lpos] = first
  BY <1>6
<1>8. \A k \in (lpos + 1)..(rpos + 1) : loop[k] = Took(a, loop[k - 1], k, mpos, rpos)
  BY <1>6
<1> QED
  BY <1>5, <1>7, <1>8 DEF first

(* What is left of the halves when i and j are at their heads.             *)
Rest(s, mpos, rpos) == (s.i..(mpos - 1)) \cup (s.j..rpos)

(* The places lpos..k-1 of temp hold what is no longer in the halves, each *)
(* element once, in order and none greater than what is left.              *)
MergeInv(a, n, s, k, lpos, mpos, rpos) ==
  /\ s.i \in lpos..mpos /\ s.j \in mpos..(rpos + 1)
  /\ (s.i - lpos) + (s.j - mpos) = k - lpos
  /\ s.temp \in Arrays(n)
  /\ \E o \in [lpos..(k - 1) -> lpos..rpos] :
       /\ \A m, l \in lpos..(k - 1) : o[m] = o[l] => m = l
       /\ \A m \in lpos..(k - 1) : o[m] \notin Rest(s, mpos, rpos) /\ s.temp[m] = a[o[m]]
  /\ Ascending(a, lpos, mpos - 1) /\ Ascending(a, mpos, rpos) =>
       /\ Ascending(s.temp, lpos, k - 1)
       /\ \A m \in lpos..(k - 1), r \in Rest(s, mpos, rpos) : s.temp[m] <= a[r]

(* From s to t the element q of the rest goes to place k - 1: none left    *)
(* there is smaller, if the halves are in order.                           *)
Takes(a, s, t, q, k, lpos, mpos, rpos) ==
  /\ t.i \in lpos..mpos /\ t.j \in mpos..(rpos + 1)
  /\ (t.i - lpos) + (t.j - mpos) = k - lpos
  /\ t.temp = [s.temp EXCEPT ![k - 1] = a[q]]
  /\ Rest(t, mpos, rpos) = Rest(s, mpos, rpos) \ {q}
  /\ Ascending(a, lpos, mpos - 1) /\ Ascending(a, mpos, rpos) =>
       \A r \in Rest(s, mpos, rpos) : a[q] <= a[r]

LEMMA TookLeast ==
  ASSUME NEW n \in Nat, NEW a \in Arrays(n),
         NEW lpos \in 0..(n - 1), NEW rpos \in 0..(n - 1), NEW mpos \in (lpos + 1)..rpos,
         NEW k \in (lpos + 1)..(rpos + 1), NEW s, MergeInv(a, n, s, k - 1, lpos, mpos, rpos)
  PROVE  \E q \in Rest(s, mpos, rpos) :
           Takes(a, s, Took(a, s, k, mpos, rpos), q, k, lpos, mpos, rpos)
<1> DEFINE t == Took(a, s, k, mpos, rpos)
<1>1. /\ s.i \in lpos..mpos /\ s.j \in mpos..(rpos + 1)
      /\ (s.i - lpos) + (s.j - mpos) = (k - 1) - lpos
  BY DEF MergeInv
<1>2. \A r \in lpos..rpos : a[r] \in Int
  BY DEF Arrays
<1>3. CASE TakesLeft(a, s, mpos, rpos)
  <2>1. t = [i |-> s.i + 1, j |-> s.j, temp |-> [s.temp EXCEPT ![k - 1] = a[s.i]]]
    BY <1>3 DEF Took
  <2>2. s.i < mpos /\ (s.j <= rpos => a[s.i] < a[s.j])
    BY <1>3 DEF TakesLeft
  <2>3. t.i = s.i + 1 /\ t.j = s.j /\ t.temp = [s.temp EXCEPT ![k - 1] = a[s.i]]
    BY <2>1
  <2> HIDE DEF t
  <2>4. s.i \in Rest(s, mpos, rpos) /\ Rest(t, mpos, rpos) = Rest(s, mpos, rpos) \ {s.i}
    <3>1. /\ s.i \in s.i..(mpos - 1) /\ s.i \notin s.j..rpos
          /\ (s.i + 1)..(mpos - 1) = (s.i..(mpos - 1)) \ {s.i}
      BY <1>1, <2>2
    <3>2. Rest(t, mpos, rpos) = ((s.i + 1)..(mpos - 1)) \cup (s.j..rpos)
      BY <2>3 DEF Rest
    <3> QED
      BY <3>1, <3>2 DEF Rest
  <2>5. ASSUME Ascending(a, lpos, mpos - 1), Ascending(a, mpos, rpos), NEW r \in Rest(s, mpos, rpos)
        PROVE  a[s.i] <= a[r]
    <3>1. s.i \in lpos..(mpos - 1) /\ s.i \in lpos..rpos
      BY <1>1, <2>2
    <3>2. CASE r \in s.i..(mpos - 1)
      <4>1. r \in lpos..(mpos - 1) /\ r \in lpos..rpos /\ (r = s.i \/ s.i < r)
        BY <1>1, <3>2
      <4> QED
        BY <1>2, <2>5, <3>1, <4>1 DEF Ascending
    <3>3. CASE r \in s.j..rpos
      <4>1. /\ r \in mpos..rpos /\ r \in lpos..rpos /\ (r = s.j \/ s.j < r)
            /\ s.j \in mpos..rpos /\ s.j \in lpos..rpos /\ s.j <= rpos
        BY <1>1, <3>3
      <4>2. a[s.j] <= a[r]
        BY <1>2, <2>5, <4>1 DEF Ascending
      <4> QED
        BY <1>2, <2>2, <3>1, <4>1, <4>2
    <3> QED
      BY <3>2, <3>3 DEF Rest
  <2>6. t.i \in lpos..mpos /\ t.j \in mpos..(rpos + 1) /\ (t.i - lpos) + (t.j - mpos) = k - lpos
    BY <1>1, <2>2, <2>3
  <2> QED
    BY <2>3, <2>4, <2>5, <2>6 DEF Takes, t
<1>4. CASE ~TakesLeft(a, s, mpos, rpos)
  <2>1. t = [i |-> s.i, j |-> s.j + 1, temp |-> [s.temp EXCEPT ![k - 1] = a[s.j]]]
    BY <1>4 DEF Took
  <2>2. s.j <= rpos /\ (s.i < mpos => ~(a[s.i] < a[s.j]))
    <3>1. CASE s.i < mpos
      BY <1>4, <3>1 DEF TakesLeft
    <3>2. CASE ~(s.i < mpos)
      BY <1>1, <3>2
    <3> QED
      BY <3>1, <3>2
  <2>3. t.i = s.i /\ t.j = s.j + 1 /\ t.temp = [s.temp EXCEPT ![k - 1] = a[s.j]]
    BY <2>1
  <2> HIDE DEF t
  <2>4. s.j \in Rest(s, mpos, rpos) /\ Rest(t, mpos, rpos) = Rest(s, mpos, rpos) \ {s.j}
    <3>1. /\ s.j \in s.j..rpos /\ s.j \notin s.i..(mpos - 1)
          /\ (s.j + 1)..rpos = (s.j..rpos) \ {s.j}
      BY <1>1, <2>2
    <3>2. Rest(t, mpos, rpos) = (s.i..(mpos - 1)) \cup ((s.j + 1)..rpos)
      BY <2>3 DEF Rest
    <3> QED
      BY <3>1, <3>2 DEF Rest
  <2>5. ASSUME Ascending(a, lpos, mpos - 1), Ascending(a, mpos, rpos), NEW r \in Rest(s, mpos, rpos)
        PROVE  a[s.j] <= a[r]
    <3>1. s.j \in mpos..rpos /\ s.j \in lpos..rpos
      BY <1>1, <2>2
    <3>2. CASE r \in s.j..rpos
      <4>1. r \in mpos..rpos /\ r \in lpos..rpos /\ (r = s.j \/ s.j < r)
        BY <1>1, <3>2
      <4> QED
        BY <1>2, <2>5, <3>1, <4>1 DEF Ascending
    <3>3. CASE r \in s.i..(mpos - 1)
      <4>1. /\ r \in lpos..(mpos - 1) /\ r \in lpos..rpos /\ (r = s.i \/ s.i < r)
            /\ s.i \in lpos..(mpos - 1) /\ s.i \in lpos..rpos /\ s.i < mpos
        BY <1>1, <3>3
      <4>2. a[s.i] <= a[r]
        BY <1>2, <2>5, <4>1 DEF Ascending
      <4> QED
        BY <1>2, <2>2, <3>1, <4>1, <4>2
    <3> QED
      BY <3>2, <3>3 DEF Rest
  <2>6. t.i \in lpos..mpos /\ t.j \in mpos..(rpos + 1) /\ (t.i - lpos) + (t.j - mpos) = k - lpos
    BY <1>1, <2>2, <2>3
  <2> QED
    BY <2>3, <2>4, <2>5, <2>6 DEF Takes, t
<1> QED
  BY <1>3, <1>4

LEMMA MergeStep ==
  ASSUME NEW n \in Nat, NEW a \in Arrays(n),
         NEW lpos \in 0..(n - 1), NEW rpos \in 0..(n - 1), NEW mpos \in (lpos + 1)..rpos,
         NEW k \in (lpos + 1)..(rpos + 1), NEW s, MergeInv(a, n, s, k - 1, lpos, mpos, rpos)
  PROVE  MergeInv(a, n, Took(a, s, k, mpos, rpos), k, lpos, mpos, rpos)
<1> DEFINE t == Took(a, s, k, mpos, rpos)
<1>1. PICK q \in Rest(s, mpos, rpos) : Takes(a, s, t, q, k, lpos, mpos, rpos)
  BY TookLeast
<1> HIDE DEF t
<1>2. /\ t.i \in lpos..mpos /\ t.j \in mpos..(rpos + 1)
      /\ (t.i - lpos) + (t.j - mpos) = k - lpos
      /\ t.temp = [s.temp EXCEPT ![k - 1] = a[q]]
      /\ Rest(t, mpos, rpos) = Rest(s, mpos, rpos) \ {q}
      /\ Ascending(a, lpos, mpos - 1) /\ Ascending(a, mpos, rpos) =>
           \A r \in Rest(s, mpos, rpos) : a[q] <= a[r]
  BY <1>1 DEF Takes
<1>3. /\ s.i \in lpos..mpos /\ s.j \in mpos..(rpos + 1)
      /\ s.temp \in Arrays(n)
      /\ Ascending(a, lpos, mpos - 1) /\ Ascending(a, mpos, rpos) =>
           /\ Ascending(s.temp, lpos, (k - 1) - 1)
           /\ \A m \in lpos..((k - 1) - 1), r \in Rest(s, mpos, rpos) : s.temp[m] <= a[r]
  BY DEF MergeInv
<1>4. PICK o \in [lpos..((k - 1) - 1) -> lpos..rpos] :
       /\ \A m, l \in lpos..((k - 1) - 1) : o[m] = o[l] => m = l
       /\ \A m \in lpos..((k - 1) - 1) : o[m] \notin Rest(s, mpos, rpos) /\ s.temp[m] = a[o[m]]
  BY DEF MergeInv
<1>5. q \in lpos..rpos /\ q \in 0..(n - 1) /\ a[q] \in Int
  <2>1. q \in lpos..rpos
    BY <1>3 DEF Rest
  <2> QED
    BY <2>1 DEF Arrays
<1>6. k - 1 \in 0..(n - 1) /\ k - 1 \in lpos..(k - 1)
  OBVIOUS
<1>7. /\ t.temp \in Arrays(n) /\ t.temp[k - 1] = a[q]
      /\ \A m \in lpos..((k - 1) - 1) : t.temp[m] = s.temp[m] /\ s.temp[m] \in Int
  <2>1. t.temp \in Arrays(n) /\ t.temp[k - 1] = a[q]
    BY <1>2, <1>3, <1>5, <1>6 DEF Arrays
  <2>2. \A m \in lpos..((k - 1) - 1) : m \in 0..(n - 1) /\ m # k - 1
    OBVIOUS
  <2> QED
    BY <1>2, <1>3, <2>1, <2>2 DEF Arrays
<1>8. \A m \in lpos..(k - 1) : m = k - 1 \/ m \in lpos..((k - 1) - 1)
  OBVIOUS
<1> DEFINE p == [m \in lpos..(k - 1) |-> IF m = k - 1 THEN q ELSE o[m]]
<1>9. p \in [lpos..(k - 1) -> lpos..rpos]
  BY <1>5, <1>8
<1>10. p[k - 1] = q /\ \A m \in lpos..((k - 1) - 1) : p[m] = o[m]
  <2>1. \A m \in lpos..((k - 1) - 1) : m \in lpos..(k - 1) /\ m # k - 1
    OBVIOUS
  <2> QED
    BY <1>6, <2>1
<1> HIDE DEF p
<1>11. \A m, l \in lpos..(k - 1) : p[m] = p[l] => m = l
  <2>1. \A m \in lpos..((k - 1) - 1) : p[m] # q
    BY <1>1, <1>4, <1>10
  <2>2. \A m, l \in lpos..((k - 1) - 1) : p[m] = p[l] => m = l
    BY <1>4, <1>10
  <2> QED
    BY <1>8, <1>10, <2>1, <2>2
<1>12. \A m \in lpos..(k - 1) : p[m] \notin Rest(t, mpos, rpos) /\ t.temp[m] = a[p[m]]
  <2> SUFFICES ASSUME NEW m \in lpos..(k - 1)
               PROVE  p[m] \notin Rest(t, mpos, rpos) /\ t.temp[m] = a[p[m]]
    OBVIOUS
  <2>1. CASE m = k - 1
    BY <1>2, <1>7, <1>10, <2>1
  <2>2. CASE m \in lpos..((k - 1) - 1)
    BY <1>2, <1>4, <1>7, <1>10, <2>2
  <2> QED
    BY <1>8, <2>1, <2>2
<1>13. ASSUME Ascending(a, lpos, mpos - 1), Ascending(a, mpos, rpos)
       PROVE  /\ Ascending(t.temp, lpos, k - 1)
              /\ \A m \in lpos..(k - 1), r \in Rest(t, mpos, rpos) : t.temp[m] <= a[r]
  <2>1. \A m \in lpos..((k - 1) - 1) : t.temp[m] <= a[q]
    BY <1>1, <1>3, <1>7, <1>13
  <2>2. ASSUME NEW m \in lpos..(k - 1), NEW l \in lpos..(k - 1), m < l
        PROVE  t.temp[m] <= t.temp[l]
    <3>1. m \in lpos..((k - 1) - 1)
      BY <2>2
    <3>2. CASE l = k - 1
      BY <1>7, <2>1, <3>1, <3>2
    <3>3. CASE l \in lpos..((k - 1) - 1)
      BY <1>3, <1>7, <1>13, <2>2, <3>1, <3>3 DEF Ascending
    <3> QED
      BY <1>8, <3>2, <3>3
  <2>3. ASSUME NEW m \in lpos..(k - 1), NEW r \in Rest(t, mpos, rpos)
        PROVE  t.temp[m] <= a[r]
    <3>1. r \in Rest(s, mpos, rpos)
      BY <1>2
    <3>2. CASE m = k - 1
      BY <1>2, <1>7, <1>13, <3>1, <3>2
    <3>3. CASE m \in lpos..((k - 1) - 1)
      BY <1>3, <1>7, <1>13, <3>1, <3>3
    <3> QED
      BY <1>8, <3>2, <3>3
  <2> QED
    BY <2>2, <2>3 DEF Ascending
<1>14. \E oo \in [lpos..(k - 1) -> lpos..rpos] :
         /\ \A m, l \in lpos..(k - 1) : oo[m] = oo[l] => m = l
         /\ \A m \in lpos..(k - 1) :
              oo[m] \notin Rest(t, mpos, rpos) /\ t.temp[m] = a[oo[m]]
  BY <1>9, <1>11, <1>12
<1>15. MergeInv(a, n, t, k, lpos, mpos, rpos)
  BY <1>2, <1>7, <1>13, <1>14 DEF MergeInv
<1> QED
  BY <1>15 DEF t

(* merge reorders the range of both halves, and if they are in order so is *)
(* what it leaves.                                                         *)
LEMMA MergeHalves ==
  ASSUME NEW n \in Nat, NEW a \in Arrays(n),
         NEW lpos \in 0..(n - 1), NEW rpos \in 0..(n - 1), NEW mpos \in (lpos + 1)..rpos
  PROVE  LET c == Merge(a, lpos, mpos, rpos)
         IN /\ c \in Arrays(n)
            /\ Reordered(a, c, n, lpos, rpos)
            /\ Ascending(a, lpos, mpos - 1) /\ Ascending(a, mpos, rpos) => Ascending(c, lpos, rpos)
<1> DEFINE c == Merge(a, lpos, mpos, rpos)
<1>1. PICK f : /\ f[lpos] = [i |-> lpos, j |-> mpos, temp |-> a]
               /\ \A k \in (lpos + 1)..(rpos + 1) : f[k] = Took(a, f[k - 1], k, mpos, rpos)
               /\ Merged(a, lpos, mpos, rpos) = f[rpos + 1].temp
  BY MergedLoop
<1> DEFINE T == {k \in lpos..(rpos + 1) : MergeInv(a, n, f[k], k, lpos, mpos, rpos)}
<1>2. lpos \in T
  <2> DEFINE s == f[lpos]
             o == [m \in lpos..(lpos - 1) |-> lpos]
  <2>1. s.i = lpos /\ s.j = mpos /\ s.temp = a /\ lpos..(lpos - 1) = {}
    BY <1>1
  <2>2. o \in [lpos..(lpos - 1) -> lpos..rpos]
    BY <2>1
  <2> HIDE DEF o, s
  <2>3. MergeInv(a, n, s, lpos, lpos, mpos, rpos)
    BY <2>1, <2>2 DEF MergeInv, Ascending
  <2> QED
    BY <2>3 DEF s
<1>3. ASSUME NEW k \in lpos..(rpos + 1), k # lpos, k - 1 \in T
      PROVE  k \in T
  <2>1. k \in (lpos + 1)..(rpos + 1) /\ MergeInv(a, n, f[k - 1], k - 1, lpos, mpos, rpos)
    BY <1>3
  <2>2. MergeInv(a, n, f[k], k, lpos, mpos, rpos)
    BY <1>1, <2>1, MergeStep
  <2> QED
    BY <2>2
<1>4. MergeInv(a, n, f[rpos + 1], rpos + 1, lpos, mpos, rpos)
  <2>1. lpos \in Int /\ rpos + 1 \in Int /\ rpos + 1 \in lpos..(rpos + 1)
    OBVIOUS
  <2>2. \A k \in T : MergeInv(a, n, f[k], k, lpos, mpos, rpos)
    OBVIOUS
  <2> HIDE DEF T
  <2>3. lpos..(rpos + 1) \subseteq T
    BY <1>2, <1>3, <2>1, Induction
  <2> QED
    BY <2>1, <2>2, <2>3
<1> DEFINE d == f[rpos + 1].temp
<1>5. (rpos + 1) - 1 = rpos
  OBVIOUS
<1>6. /\ d \in Arrays(n)
      /\ Ascending(a, lpos, mpos - 1) /\ Ascending(a, mpos, rpos) => Ascending(d, lpos, rpos)
  BY <1>4, <1>5 DEF MergeInv
<1>7. PICK o \in [lpos..rpos -> lpos..rpos] :
        /\ \A m, l \in lpos..rpos : o[m] = o[l] => m = l
        /\ \A m \in lpos..rpos : d[m] = a[o[m]]
  <2> DEFINE e == (rpos + 1) - 1
  <2>1. \E oo \in [lpos..e -> lpos..rpos] :
          /\ \A m, l \in lpos..e : oo[m] = oo[l] => m = l
          /\ \A m \in lpos..e :
               oo[m] \notin Rest(f[rpos + 1], mpos, rpos) /\ d[m] = a[oo[m]]
    BY <1>4 DEF MergeInv
  <2>2. e = rpos
    OBVIOUS
  <2> HIDE DEF d, e
  <2>3. PICK oo \in [lpos..e -> lpos..rpos] :
          /\ \A m, l \in lpos..e : oo[m] = oo[l] => m = l
          /\ \A m \in lpos..e : d[m] = a[oo[m]]
    <3>1. PICK oo \in [lpos..e -> lpos..rpos] :
            /\ \A m, l \in lpos..e : oo[m] = oo[l] => m = l
            /\ \A m \in lpos..e :
                 oo[m] \notin Rest(f[rpos + 1], mpos, rpos) /\ d[m] = a[oo[m]]
      BY <2>1
    <3>2. \A m \in lpos..e : d[m] = a[oo[m]]
      BY <3>1
    <3> QED
      BY <3>1, <3>2
  <2> QED
    BY <2>2, <2>3
<1> HIDE DEF d
<1>8. c = [k \in 0..(n - 1) |-> IF k \in lpos..rpos THEN d[k] ELSE a[k]]
  BY <1>1 DEF Merge, d, Arrays
<1>9. c \in Arrays(n)
  BY <1>6, <1>8 DEF Arrays
<1>10. \A k \in 0..(n - 1) : c[k] = IF k \in lpos..rpos THEN d[k] ELSE a[k]
  BY <1>8
<1> HIDE DEF c
<1>11. Reordered(a, c, n, lpos, rpos)
  <2> DEFINE p == [k \in 0..(n - 1) |-> IF k \in lpos..rpos THEN o[k] ELSE k]
  <2>1. \A k \in lpos..rpos : k \in 0..(n - 1) /\ o[k] \in lpos..rpos /\ o[k] \in 0..(n - 1)
    BY <1>7
  <2>2. p \in [0..(n - 1) -> 0..(n - 1)]
    BY <2>1
  <2>3. \A k \in 0..(n - 1) : p[k] = IF k \in lpos..rpos THEN o[k] ELSE k
    OBVIOUS
  <2> HIDE DEF p
  <2>4. \A k, l \in 0..(n - 1) : p[k] = p[l] => k = l
    <3> SUFFICES ASSUME NEW k \in 0..(n - 1), NEW l \in 0..(n - 1), p[k] = p[l] PROVE k = l
      OBVIOUS
    <3>1. CASE k \in lpos..rpos /\ l \in lpos..rpos
      <4>1. o[k] = o[l]
        BY <2>3, <3>1
      <4> QED
        BY <1>7, <3>1, <4>1
    <3>2. CASE ~(k \in lpos..rpos) /\ ~(l \in lpos..rpos)
      BY <2>3, <3>2
    <3>3. CASE k \in lpos..rpos /\ ~(l \in lpos..rpos)
      <4>1. p[k] = o[k] /\ p[l] = l /\ o[k] \in lpos..rpos
        BY <2>1, <2>3, <3>3
      <4> QED
        BY <3>3, <4>1
    <3>4. CASE ~(k \in lpos..rpos) /\ l \in lpos..rpos
      <4>1. p[k] = k /\ p[l] = o[l] /\ o[l] \in lpos..rpos
        BY <2>1, <2>3, <3>4
      <4> QED
        BY <3>4, <4>1
    <3> QED
      BY <3>1, <3>2, <3>3, <3>4
  <2>5. p \in Moves(n)
    BY <2>2, <2>4 DEF Moves
  <2>6. \A k \in 0..(n - 1) : c[k] = a[p[k]]
    BY <1>7, <1>10, <2>3
  <2> QED
    BY <2>3, <2>5, <2>6 DEF Reordered
<1>12. ASSUME Ascending(a, lpos, mpos - 1), Ascending(a, mpos, rpos) PROVE Ascending(c, lpos, rpos)
  <2>1. \A k \in lpos..rpos : c[k] = d[k]
    BY <1>10
  <2> QED
    BY <1>6, <1>12, <2>1 DEF Ascending
<1> QED
  BY <1>9, <1>11, <1>12 DEF c


(* A call: an array and the range to sort. *)
Calls(n) == [0..(n - 1) -> Int] \X (0..(n - 1)) \X (0..(n - 1))

(* What one call makes of the calls it makes, g. *)
Called(g, x) ==
  LET b == x[1]  lpos == x[2]  rpos == x[3]  mid == (lpos + rpos) \div 2
  IN IF rpos > lpos
     THEN Merge(g[<<g[<<b, lpos, mid>>], mid + 1, rpos>>], lpos, mid + 1, rpos)
     ELSE b

LEMMA CallIsArray ==
  ASSUME NEW n \in Nat \ {0}, NEW b \in Arrays(n), NEW l \in 0..(n - 1), NEW r \in 0..(n - 1)
  PROVE  <<b, l, r>> \in Calls(n)
  BY DEF Calls, Arrays

(* The calls that a call makes are for shorter ranges. *)
LEMMA Shorter ==
  ASSUME NEW n \in Nat \ {0}, NEW l \in 0..(n - 1), NEW r \in 0..(n - 1), l < r
  PROVE  LET mid == (l + r) \div 2
         IN /\ mid \in 0..(n - 1) /\ mid + 1 \in 0..(n - 1)
            /\ l <= mid /\ mid < r
            /\ mid + 1 \in (l + 1)..r
            /\ mid - l < r - l /\ r - (mid + 1) < r - l
            /\ (mid + 1) - 1 = mid
<1> DEFINE mid == (l + r) \div 2
<1>1. l + r \in Nat /\ mid \in Int /\ l <= mid /\ mid < r
  OBVIOUS
<1> HIDE DEF mid
<1> QED
  BY <1>1 DEF mid

LEMMA CalledIsArray ==
  ASSUME NEW n \in Nat \ {0}, NEW g \in [Calls(n) -> Arrays(n)], NEW x \in Calls(n)
  PROVE  Called(g, x) \in Arrays(n)
<1> DEFINE b == x[1]
           l == x[2]
           r == x[3]
           mid == (l + r) \div 2
           c == g[<<b, l, mid>>]
           d == g[<<c, mid + 1, r>>]
<1>1. b \in Arrays(n) /\ l \in 0..(n - 1) /\ r \in 0..(n - 1)
  BY DEF Calls, Arrays
<1>2. CASE l < r
  <2> HIDE DEF b, l, r
  <2>1. mid \in 0..(n - 1) /\ mid + 1 \in 0..(n - 1) /\ mid + 1 \in (l + 1)..r
    BY <1>1, <1>2, Shorter
  <2> HIDE DEF mid
  <2>2. c \in Arrays(n)
    <3>1. <<b, l, mid>> \in Calls(n)
      BY <1>1, <2>1, CallIsArray
    <3> QED
      BY <3>1
  <2> HIDE DEF c
  <2>3. d \in Arrays(n)
    <3>1. <<c, mid + 1, r>> \in Calls(n)
      BY <1>1, <2>1, <2>2, CallIsArray
    <3> QED
      BY <3>1
  <2> HIDE DEF d
  <2>4. n \in Nat
    OBVIOUS
  <2>5. Merge(d, l, mid + 1, r) \in Arrays(n)
    BY <1>1, <2>1, <2>3, <2>4, MergeHalves
  <2>6. Called(g, x) = Merge(d, l, mid + 1, r)
    BY <1>1, <1>2 DEF Called, b, l, r, mid, c, d
  <2> QED
    BY <2>5, <2>6
<1>3. CASE ~(l < r)
  <2>1. Called(g, x) = b
    BY <1>1, <1>3 DEF Called
  <2> QED
    BY <1>1, <2>1
<1> QED
  BY <1>2, <1>3

(* Two results that agree on shorter ranges make the same of a call. *)
LEMMA CalledSame ==
  ASSUME NEW n \in Nat \ {0}, NEW g \in [Calls(n) -> Arrays(n)], NEW h, NEW k \in Int,
         \A x \in Calls(n) : x[3] - x[2] < k - 1 => h[x] = g[x],
         NEW x \in Calls(n), x[3] - x[2] < k
  PROVE  Called(h, x) = Called(g, x)
<1> DEFINE b == x[1]
           l == x[2]
           r == x[3]
           mid == (l + r) \div 2
           c == g[<<b, l, mid>>]
<1>1. b \in Arrays(n) /\ l \in 0..(n - 1) /\ r \in 0..(n - 1) /\ r - l < k
  BY DEF Calls, Arrays
<1>2. CASE l < r
  <2>1. /\ mid \in 0..(n - 1) /\ mid + 1 \in 0..(n - 1)
        /\ mid - l < k - 1 /\ r - (mid + 1) < k - 1
    <3> HIDE DEF b, l, r
    <3>1. /\ mid \in 0..(n - 1) /\ mid + 1 \in 0..(n - 1)
          /\ mid - l < r - l /\ r - (mid + 1) < r - l
      BY <1>1, <1>2, Shorter
    <3> HIDE DEF mid
    <3> QED
      BY <1>1, <3>1
  <2> HIDE DEF b, l, r, mid
  <2>2. <<b, l, mid>> \in Calls(n) /\ h[<<b, l, mid>>] = c /\ c \in Arrays(n)
    <3>1. <<b, l, mid>> \in Calls(n)
      BY <1>1, <2>1, CallIsArray
    <3> QED
      BY <2>1, <3>1
  <2> HIDE DEF c
  <2>3. h[<<c, mid + 1, r>>] = g[<<c, mid + 1, r>>]
    <3>1. <<c, mid + 1, r>> \in Calls(n)
      BY <1>1, <2>1, <2>2, CallIsArray
    <3> QED
      BY <2>1, <3>1
  <2>4. h[<<h[<<b, l, mid>>], mid + 1, r>>] = g[<<g[<<b, l, mid>>], mid + 1, r>>]
    BY <2>2, <2>3 DEF c
  <2> QED
    BY <2>4 DEF Called, b, l, r, mid
<1>3. CASE ~(l < r)
  BY <1>1, <1>3 DEF Called
<1> QED
  BY <1>2, <1>3

(* The calls for ranges shorter than k are defined. *)
Defined(g, n, k) ==
  /\ g \in [Calls(n) -> Arrays(n)]
  /\ \A x \in Calls(n) : x[3] - x[2] < k => g[x] = Called(g, x)

LEMMA CallsEnd ==
  ASSUME NEW n \in Nat \ {0}
  PROVE  \E g : g = [x \in Calls(n) |-> Called(g, x)]
<1> DEFINE T == {k \in 1..n : \E g : Defined(g, n, k)}
<1>1. 1 \in T
  <2> DEFINE g == [x \in Calls(n) |-> x[1]]
  <2>1. \A x \in Calls(n) : x[1] \in Arrays(n) /\ x[2] \in 0..(n - 1) /\ x[3] \in 0..(n - 1)
    BY DEF Calls, Arrays
  <2>2. g \in [Calls(n) -> Arrays(n)]
    BY <2>1
  <2>3. \A x \in Calls(n) : x[3] - x[2] < 1 => g[x] = Called(g, x)
    <3>1. \A x \in Calls(n) : g[x] = x[1]
      OBVIOUS
    <3> HIDE DEF g
    <3>2. \A x \in Calls(n) : x[3] - x[2] < 1 => ~(x[3] > x[2])
      BY <2>1
    <3> QED
      BY <3>1, <3>2 DEF Called
  <2> HIDE DEF g
  <2>4. Defined(g, n, 1)
    BY <2>2, <2>3 DEF Defined
  <2> QED
    BY <2>4
<1>2. ASSUME NEW k \in 1..n, k # 1, k - 1 \in T
      PROVE  k \in T
  <2>1. PICK g : Defined(g, n, k - 1)
    BY <1>2
  <2>2. /\ g \in [Calls(n) -> Arrays(n)]
        /\ \A x \in Calls(n) : x[3] - x[2] < k - 1 => g[x] = Called(g, x)
    BY <2>1 DEF Defined
  <2> DEFINE h == [x \in Calls(n) |-> Called(g, x)]
  <2>3. h \in [Calls(n) -> Arrays(n)]
    BY <2>2, CalledIsArray
  <2>4. \A x \in Calls(n) : h[x] = Called(g, x)
    OBVIOUS
  <2> HIDE DEF h
  <2>5. \A x \in Calls(n) : x[3] - x[2] < k - 1 => h[x] = g[x]
    BY <2>2, <2>4
  <2>6. ASSUME NEW x \in Calls(n), x[3] - x[2] < k
        PROVE  h[x] = Called(h, x)
    <3>1. Called(h, x) = Called(g, x)
      <4>1. k \in Int
        OBVIOUS
      <4> QED
        BY <2>2, <2>5, <2>6, <4>1, CalledSame
    <3> QED
      BY <2>4, <3>1
  <2>7. Defined(h, n, k)
    BY <2>3, <2>6 DEF Defined
  <2> QED
    BY <2>7
<1>3. n \in T
  <2>1. 1 \in Int /\ n \in Int /\ n \in 1..n
    OBVIOUS
  <2> HIDE DEF T
  <2>2. 1..n \subseteq T
    BY <1>1, <1>2, <2>1, Induction
  <2> QED
    BY <2>1, <2>2
<1>4. PICK g : Defined(g, n, n)
  BY <1>3
<1>5. \A x \in Calls(n) : x[3] - x[2] < n
  <2>1. \A x \in Calls(n) : x[2] \in 0..(n - 1) /\ x[3] \in 0..(n - 1)
    BY DEF Calls
  <2> QED
    BY <2>1
<1>6. \A x \in Calls(n) : g[x] = Called(g, x)
  BY <1>4, <1>5 DEF Defined
<1>7. g = [x \in Calls(n) |-> Called(g, x)]
  BY <1>4, <1>6 DEF Defined
<1> QED
  BY <1>7

(* What a call leaves: its range in order. *)
InOrder(b, c, n, l, r) ==
  c \in Arrays(n) /\ Reordered(b, c, n, l, r) /\ Ascending(c, l, r)

(* What is in order stays so when only other places are reordered. *)
LEMMA KeptOutside ==
  ASSUME NEW n \in Nat \ {0}, NEW b, NEW c, NEW l \in 0..(n - 1), NEW m \in 0..(n - 1),
         NEW l2 \in Int, NEW r2 \in Int, m < l2, Reordered(b, c, n, l2, r2), Ascending(b, l, m)
  PROVE  Ascending(c, l, m)
<1>1. \A k \in l..m : c[k] = b[k]
  <2>1. \A k \in l..m : k \in 0..(n - 1) /\ k \notin l2..r2
    OBVIOUS
  <2> QED
    BY <2>1 DEF Reordered
<1> QED
  BY <1>1 DEF Ascending

LEMMA MergeSorts ==
  ASSUME NEW n \in Nat \ {0}, NEW a \in Arrays(n)
  PROVE  SortOf(a, MergeSort(a, n), n)
<1> DEFINE g == CHOOSE f : f = [x \in Calls(n) |-> Called(f, x)]
<1>1. g = [x \in Calls(n) |-> Called(g, x)]
  BY CallsEnd
<1>2. MergeSort(a, n) = g[<<a, 0, n - 1>>]
  BY DEF MergeSort, Calls, Called
<1> HIDE DEF g
<1>3. \A x \in Calls(n) : g[x] = Called(g, x)
  BY <1>1
<1> DEFINE T == {k \in 1..n : \A x \in Calls(n) :
                   x[3] - x[2] < k => InOrder(x[1], g[x], n, x[2], x[3])}
<1>4. \A x \in Calls(n) : /\ x = <<x[1], x[2], x[3]>>
                          /\ x[1] \in Arrays(n) /\ x[2] \in 0..(n - 1) /\ x[3] \in 0..(n - 1)
  BY DEF Calls, Arrays
<1>5. ASSUME NEW x \in Calls(n), ~(x[3] > x[2])
      PROVE  InOrder(x[1], g[x], n, x[2], x[3])
  <2>1. g[x] = x[1]
    BY <1>3, <1>5 DEF Called
  <2>2. Reordered(x[1], x[1], n, x[2], x[3])
    BY ReorderNothing
  <2>3. Ascending(x[1], x[2], x[3])
    <3>1. x[2] \in Int /\ x[3] \in Int
      BY <1>4
    <3> QED
      BY <1>5, <3>1 DEF Ascending
  <2> QED
    BY <1>4, <2>1, <2>2, <2>3 DEF InOrder
<1>6. 1 \in T
  <2>1. \A x \in Calls(n) : x[3] - x[2] < 1 => ~(x[3] > x[2])
    BY <1>4
  <2> QED
    BY <1>5, <2>1
<1>7. ASSUME NEW k \in 1..n, k # 1, k - 1 \in T
      PROVE  k \in T
  <2> SUFFICES ASSUME NEW x \in Calls(n), x[3] - x[2] < k
               PROVE  InOrder(x[1], g[x], n, x[2], x[3])
    OBVIOUS
  <2>1. CASE x[3] > x[2]
    <3> DEFINE b == x[1]
               l == x[2]
               r == x[3]
               mid == (l + r) \div 2
               c == g[<<b, l, mid>>]
               d == g[<<c, mid + 1, r>>]
               e == Merge(d, l, mid + 1, r)
    <3>1. g[x] = e
      BY <1>3, <2>1 DEF Called
    <3>2. b \in Arrays(n) /\ l \in 0..(n - 1) /\ r \in 0..(n - 1) /\ r - l < k /\ l < r
      BY <1>4, <2>1
    <3>3. \A y \in Calls(n) : y[3] - y[2] < k - 1 => InOrder(y[1], g[y], n, y[2], y[3])
      BY <1>7
    <3> HIDE DEF T, b, l, r
    <3>4. /\ mid \in 0..(n - 1) /\ mid + 1 \in 0..(n - 1) /\ mid + 1 \in (l + 1)..r
          /\ mid - l < k - 1 /\ r - (mid + 1) < k - 1 /\ (mid + 1) - 1 = mid
          /\ l <= mid /\ mid < r
      <4>1. /\ mid \in 0..(n - 1) /\ mid + 1 \in 0..(n - 1) /\ mid + 1 \in (l + 1)..r
            /\ mid - l < r - l /\ r - (mid + 1) < r - l /\ (mid + 1) - 1 = mid
            /\ l <= mid /\ mid < r
        BY <3>2, Shorter
      <4> HIDE DEF mid
      <4> QED
        BY <3>2, <4>1
    <3> HIDE DEF mid
    <3>5. InOrder(b, c, n, l, mid)
      <4> DEFINE y == <<b, l, mid>>
      <4>1. y \in Calls(n) /\ y[1] = b /\ y[2] = l /\ y[3] = mid
        BY <3>2, <3>4, CallIsArray
      <4> HIDE DEF y
      <4>2. InOrder(b, g[y], n, l, mid)
        BY <3>3, <3>4, <4>1
      <4> QED
        BY <4>2 DEF y
    <3> HIDE DEF c
    <3>6. InOrder(c, d, n, mid + 1, r)
      <4> DEFINE y == <<c, mid + 1, r>>
      <4>1. y \in Calls(n) /\ y[1] = c /\ y[2] = mid + 1 /\ y[3] = r
        BY <3>2, <3>4, <3>5, CallIsArray DEF InOrder
      <4> HIDE DEF y
      <4>2. InOrder(c, g[y], n, mid + 1, r)
        BY <3>3, <3>4, <4>1
      <4> QED
        BY <4>2 DEF y
    <3> HIDE DEF d
    <3>7. n \in Nat /\ l \in Int /\ r \in Int /\ mid \in Int /\ mid + 1 \in Int /\ mid < mid + 1
          /\ mid <= r /\ l <= mid + 1 /\ l <= l /\ r <= r
      BY <3>2, <3>4
    <3>8. Ascending(d, l, mid) /\ Ascending(d, mid + 1, r)
      <4>1. Reordered(c, d, n, mid + 1, r) /\ Ascending(c, l, mid) /\ Ascending(d, mid + 1, r)
        BY <3>5, <3>6 DEF InOrder
      <4> QED
        BY <3>2, <3>4, <3>7, <4>1, KeptOutside
    <3>9. Reordered(b, d, n, l, r)
      BY <3>5, <3>6, <3>7, ReorderTwice DEF InOrder
    <3>10. e \in Arrays(n) /\ Reordered(d, e, n, l, r) /\ Ascending(e, l, r)
      <4>1. d \in Arrays(n)
        BY <3>6 DEF InOrder
      <4> QED
        BY <3>2, <3>4, <3>7, <3>8, <4>1, MergeHalves
    <3> HIDE DEF e
    <3>11. Reordered(b, e, n, l, r)
      BY <3>7, <3>9, <3>10, ReorderTwice
    <3> QED
      BY <3>1, <3>10, <3>11 DEF InOrder, b, l, r
  <2>2. CASE ~(x[3] > x[2])
    BY <1>5, <2>2
  <2> QED
    BY <2>1, <2>2
<1>8. n \in T
  <2>1. 1 \in Int /\ n \in Int /\ n \in 1..n
    OBVIOUS
  <2> HIDE DEF T
  <2>2. 1..n \subseteq T
    BY <1>6, <1>7, <2>1, Induction
  <2> QED
    BY <2>1, <2>2
<1> DEFINE z == <<a, 0, n - 1>>
           s == g[z]
<1>9. z \in Calls(n) /\ z[1] = a /\ z[2] = 0 /\ z[3] = n - 1 /\ z[3] - z[2] < n
  <2>1. 0 \in 0..(n - 1) /\ n - 1 \in 0..(n - 1)
    OBVIOUS
  <2> QED
    BY <2>1, CallIsArray
<1> HIDE DEF z
<1>10. InOrder(a, s, n, 0, n - 1)
  BY <1>8, <1>9
<1> HIDE DEF s
<1>11. SortOf(a, s, n)
  BY <1>10 DEF InOrder, SortOf, Ascending
<1> QED
  BY <1>2, <1>11 DEF s, z

-----------------------------------------------------------------------------
(* countingSort. *)

InSlots(a, n) == \A k \in 0..(n - 1) : a[k] \in 0..(SLOTS - 1)

(* The elements that the count of v stands for before round r + 1: those   *)
(* below v, and those equal to v that have no place yet.                   *)
Left(a, n, r, v) == {k \in 0..(n - 1) : a[k] < v \/ (a[k] = v /\ k >= r)}

(* The elements that come before element r, the last of equals first.      *)
Slot(a, n, r) == Cardinality(Left(a, n, r + 1, a[r]))

LEMMA LeftFinite ==
  ASSUME NEW n \in Nat, NEW a, NEW r, NEW v
  PROVE  IsFiniteSet(Left(a, n, r, v)) /\ Cardinality(Left(a, n, r, v)) \in Nat
<1>1. IsFiniteSet(0..(n - 1)) /\ Left(a, n, r, v) \in SUBSET (0..(n - 1))
  BY FS_Interval DEF Left
<1>2. IsFiniteSet(Left(a, n, r, v))
  BY <1>1, FS_Subset
<1> QED
  BY <1>2, FS_CardinalityType

LEMMA PlacesFinite ==
  ASSUME NEW n \in Nat, NEW a, NEW v
  PROVE  IsFiniteSet(Places(a, n, v)) /\ Cardinality(Places(a, n, v)) \in Nat
<1>1. IsFiniteSet(0..(n - 1)) /\ Places(a, n, v) \in SUBSET (0..(n - 1))
  BY FS_Interval DEF Places
<1>2. IsFiniteSet(Places(a, n, v))
  BY <1>1, FS_Subset
<1> QED
  BY <1>2, FS_CardinalityType

(* What the element r takes from the count of its value. *)
LEMMA LeftLess ==
  ASSUME NEW n \in Nat, NEW a \in Arrays(n), NEW r \in 0..(n - 1)
  PROVE  /\ Cardinality(Left(a, n, r, a[r])) - 1 = Slot(a, n, r)
         /\ \A v : v # a[r] => Left(a, n, r + 1, v) = Left(a, n, r, v)
<1> DEFINE S == Left(a, n, r, a[r])
<1>1. r \in S /\ Left(a, n, r + 1, a[r]) = S \ {r}
  BY DEF Left, Arrays
<1>2. IsFiniteSet(S) /\ Cardinality(S) \in Nat
  BY LeftFinite
<1> HIDE DEF S
<1>3. Cardinality(S \ {r}) = Cardinality(S) - 1
  BY <1>1, <1>2, FS_RemoveElement
<1>4. \A v : v # a[r] => Left(a, n, r + 1, v) = Left(a, n, r, v)
  BY DEF Left
<1> QED
  BY <1>1, <1>3, <1>4 DEF Slot, S

(* The places: all in the array, no two equal, and in order. *)
LEMMA SlotsInOrder ==
  ASSUME NEW n \in Nat, NEW a \in Arrays(n)
  PROVE  /\ \A k \in 0..(n - 1) : Slot(a, n, k) \in 0..(n - 1)
         /\ \A k, l \in 0..(n - 1) :
              /\ k # l => Slot(a, n, k) # Slot(a, n, l)
              /\ a[k] < a[l] => Slot(a, n, k) < Slot(a, n, l)
<1> DEFINE P(k) == Left(a, n, k + 1, a[k])
<1>1. \A k \in 0..(n - 1) : IsFiniteSet(P(k)) /\ Cardinality(P(k)) \in Nat
  BY LeftFinite
<1>2. ASSUME NEW k \in 0..(n - 1), NEW l \in 0..(n - 1), k \in P(l)
      PROVE  Cardinality(P(k)) < Cardinality(P(l))
  <2>1. P(k) \subseteq P(l) /\ k \notin P(k)
    BY <1>2 DEF Left, Arrays
  <2>2. P(k) \in SUBSET P(l) /\ P(k) # P(l)
    BY <1>2, <2>1
  <2>3. IsFiniteSet(P(l)) /\ Cardinality(P(k)) \in Nat /\ Cardinality(P(l)) \in Nat
    BY <1>1
  <2> HIDE DEF P
  <2>4. /\ Cardinality(P(k)) <= Cardinality(P(l))
        /\ Cardinality(P(k)) = Cardinality(P(l)) => P(k) = P(l)
    BY <2>2, <2>3, FS_Subset
  <2> QED
    BY <2>2, <2>3, <2>4
<1>3. ASSUME NEW k \in 0..(n - 1), NEW l \in 0..(n - 1)
      PROVE  /\ a[k] < a[l] => k \in P(l)
             /\ k # l => k \in P(l) \/ l \in P(k)
  BY DEF Left, Arrays
<1>4. ASSUME NEW k \in 0..(n - 1)
      PROVE  Cardinality(P(k)) <= n - 1
  <2> DEFINE D == 0..(n - 1)
  <2>1. P(k) \in SUBSET (D \ {k})
    BY DEF Left, Arrays
  <2>2. IsFiniteSet(D) /\ Cardinality(D) = n /\ k \in D
    <3>1. 0 \in Int /\ n - 1 \in Int /\ 0 <= n - 1 /\ (n - 1) - 0 + 1 = n
      OBVIOUS
    <3> QED
      BY <3>1, FS_Interval
  <2> HIDE DEF D, P
  <2>3. IsFiniteSet(D \ {k}) /\ Cardinality(D \ {k}) = n - 1
    BY <2>2, FS_RemoveElement
  <2> QED
    BY <2>1, <2>3, FS_Subset
<1>5. \A k \in 0..(n - 1) : Slot(a, n, k) = Cardinality(P(k))
  BY DEF Slot
<1> HIDE DEF P
<1>6. \A k \in 0..(n - 1) : Slot(a, n, k) \in 0..(n - 1)
  BY <1>1, <1>4, <1>5
<1>7. ASSUME NEW k \in 0..(n - 1), NEW l \in 0..(n - 1)
      PROVE  /\ k # l => Slot(a, n, k) # Slot(a, n, l)
             /\ a[k] < a[l] => Slot(a, n, k) < Slot(a, n, l)
  <2>1. Cardinality(P(k)) \in Nat /\ Cardinality(P(l)) \in Nat
    BY <1>1
  <2>2. CASE k \in P(l)
    BY <1>2, <1>5, <2>1, <2>2
  <2>3. CASE k \notin P(l)
    <3>1. ~(a[k] < a[l])
      BY <1>3, <2>3
    <3>2. k # l => l \in P(k)
      BY <1>3, <2>3
    <3> QED
      BY <1>2, <1>5, <2>1, <3>1, <3>2
  <2> QED
    BY <2>2, <2>3
<1> QED
  BY <1>6, <1>7

(* A count that is defined for every value. *)
Counts(a, n, f) ==
  f = [v \in 0..(SLOTS - 1) |->
        Cardinality(Places(a, n, v)) + (IF v = 0 THEN 0 ELSE f[v - 1])]

LEMMA CountsExist ==
  ASSUME NEW n \in Nat, NEW a, SLOTS \in Nat
  PROVE  \E f : Counts(a, n, f)
<1> DEFINE first == Cardinality(Places(a, n, 0))
           F == [v \in 0..(SLOTS - 1) |-> [s \in Int |-> Cardinality(Places(a, n, v)) + s]]
<1>1. first \in Int /\ F \in [0..(SLOTS - 1) -> [Int -> Int]]
  BY PlacesFinite
<1>2. 0 \in Int /\ SLOTS - 1 \in Int
  OBVIOUS
<1>3. \A v \in 0..(SLOTS - 1), s \in Int : F[v][s] = Cardinality(Places(a, n, v)) + s
  OBVIOUS
<1>4. first = Cardinality(Places(a, n, 0)) + 0
  BY PlacesFinite
<1> HIDE DEF F, first
<1>5. PICK f : Runs(f, 0, SLOTS - 1, Int, first, F)
  BY <1>1, <1>2, Loop
<1>6. ASSUME NEW v \in 0..(SLOTS - 1)
      PROVE  f[v] = Cardinality(Places(a, n, v)) + (IF v = 0 THEN 0 ELSE f[v - 1])
  <2>1. CASE v = 0
    BY <1>4, <1>5, <2>1 DEF Runs
  <2>2. CASE v # 0
    <3>1. v - 1 \in 0..(SLOTS - 1)
      BY <2>2
    <3> QED
      BY <1>3, <1>5, <2>2, <3>1 DEF Runs
  <2> QED
    BY <2>1, <2>2
<1>7. f = [v \in 0..(SLOTS - 1) |->
            Cardinality(Places(a, n, v)) + (IF v = 0 THEN 0 ELSE f[v - 1])]
  BY <1>5, <1>6 DEF Runs
<1> QED
  BY <1>7 DEF Counts

(* The counts up to a value count the elements not above it. *)
LEMMA CountsUpTo ==
  ASSUME SLOTS \in Nat, NEW n \in Nat, NEW a \in Arrays(n), InSlots(a, n), NEW f, Counts(a, n, f)
  PROVE  \A v \in 0..(SLOTS - 1) : f[v] = Cardinality(Left(a, n, 0, v))
<1> DEFINE T == {v \in 0..(SLOTS - 1) : f[v] = Cardinality(Left(a, n, 0, v))}
<1>1. \A v \in 0..(SLOTS - 1) :
        f[v] = Cardinality(Places(a, n, v)) + (IF v = 0 THEN 0 ELSE f[v - 1])
  BY DEF Counts
<1>2. ASSUME 0 \in 0..(SLOTS - 1) PROVE 0 \in T
  <2>1. Left(a, n, 0, 0) = Places(a, n, 0)
    BY DEF Left, Places, InSlots, Arrays
  <2>2. Cardinality(Places(a, n, 0)) \in Nat
    BY PlacesFinite
  <2> QED
    BY <1>1, <1>2, <2>1, <2>2
<1>3. ASSUME NEW v \in 0..(SLOTS - 1), v # 0, v - 1 \in T
      PROVE  v \in T
  <2> DEFINE S == Left(a, n, 0, v - 1)
             P == Places(a, n, v)
  <2>1. Left(a, n, 0, v) = S \cup P /\ S \cap P = {}
    BY DEF Left, Places, Arrays
  <2>2. IsFiniteSet(S) /\ IsFiniteSet(P) /\ Cardinality(S) \in Nat /\ Cardinality(P) \in Nat
    BY LeftFinite, PlacesFinite
  <2>3. f[v] = Cardinality(P) + Cardinality(S)
    BY <1>1, <1>3
  <2> HIDE DEF S, P
  <2>4. Cardinality(S \cup P) = Cardinality(S) + Cardinality(P)
    <3>1. Cardinality(S \cup P) = Cardinality(S) + Cardinality(P) - Cardinality(S \cap P)
      BY <2>2, FS_Union
    <3>2. Cardinality(S \cap P) = 0
      BY <2>1, FS_EmptySet
    <3> QED
      BY <2>2, <3>1, <3>2
  <2>5. f[v] = Cardinality(Left(a, n, 0, v))
    <3>1. f[v] = Cardinality(S \cup P)
      BY <2>2, <2>3, <2>4
    <3> QED
      BY <2>1, <3>1, Zenon
  <2> QED
    BY <2>5
<1>4. CASE SLOTS = 0
  BY <1>4
<1>5. CASE SLOTS # 0
  <2>1. 0 \in 0..(SLOTS - 1) /\ 0 \in Int /\ SLOTS - 1 \in Int
    BY <1>5
  <2> HIDE DEF T
  <2>2. 0..(SLOTS - 1) \subseteq T
    BY <1>2, <1>3, <2>1, Induction
  <2> QED
    BY <2>2 DEF T
<1> QED
  BY <1>4, <1>5

(* Round r of the last loop. *)
Placed(a, s, r) ==
  [t       |-> [s.t EXCEPT ![a[r - 1]] = s.t[a[r - 1]] - 1],
   c       |-> [k \in 0..(CSLOTS - 1) |-> IF k = s.t[a[r - 1]] - 1 THEN a[r - 1] ELSE s.c[k]],
   outside |-> s.outside \/ s.t[a[r - 1]] - 1 \notin 0..(CSLOTS - 1)]

Unplaced(t) == [t |-> t, c |-> [k \in 0..(CSLOTS - 1) |-> -1], outside |-> FALSE]

LEMMA PlacedLoop ==
  ASSUME SLOTS \in Nat, CSLOTS \in Nat, NEW n \in Nat, NEW a \in Arrays(n), InSlots(a, n)
  PROVE  \E f, t : /\ Counts(a, n, t)
                   /\ f[0] = Unplaced(t)
                   /\ \A r \in 1..n : f[r] = Placed(a, f[r - 1], r)
                   /\ CountingSort(a, n) = f[n]
<1> DEFINE D == 0..(SLOTS - 1)
           upTo == CHOOSE f : Counts(a, n, f)
           first == Unplaced(upTo)
           Body(g) == [r \in 0..n |-> IF r = 0 THEN first ELSE Placed(a, g[r - 1], r)]
           loop == CHOOSE g : g = Body(g)
           S == [t : [D -> Int], c : Arrays(CSLOTS), outside : BOOLEAN]
           F == [r \in 0..n |-> [s \in S |-> IF r = 0 THEN s ELSE Placed(a, s, r)]]
<1>1. Counts(a, n, upTo)
  BY CountsExist
<1>2. CountingSort(a, n) = loop[n]
  BY DEF CountingSort, Placed, Unplaced, Counts
<1> HIDE DEF upTo
<1>3. first \in S
  <2>1. \A v \in D : upTo[v] = Cardinality(Left(a, n, 0, v))
    BY <1>1, CountsUpTo
  <2>2. \A v \in D : upTo[v] \in Int
    BY <2>1, LeftFinite
  <2>3. upTo = [v \in D |-> Cardinality(Places(a, n, v)) + (IF v = 0 THEN 0 ELSE upTo[v - 1])]
    BY <1>1 DEF Counts
  <2>4. upTo = [v \in D |-> upTo[v]]
    BY <2>3
  <2> HIDE DEF D
  <2>5. upTo \in [D -> Int]
    BY <2>2, <2>4
  <2>6. [k \in 0..(CSLOTS - 1) |-> -1] \in Arrays(CSLOTS)
    BY DEF Arrays
  <2> QED
    BY <2>5, <2>6 DEF Unplaced
<1>4. F \in [0..n -> [S -> S]]
  <2>1. ASSUME NEW r \in 0..n, NEW s \in S
        PROVE  (IF r = 0 THEN s ELSE Placed(a, s, r)) \in S
    <3>1. CASE r # 0
      <4>1. a[r - 1] \in D /\ a[r - 1] \in Int
        BY <3>1 DEF InSlots
      <4>2. s.t \in [D -> Int] /\ s.c \in Arrays(CSLOTS) /\ s.outside \in BOOLEAN
        OBVIOUS
      <4> DEFINE w == a[r - 1]
                 u == s.t[w] - 1
      <4>3. w \in D /\ w \in Int /\ u \in Int
        BY <4>1, <4>2
      <4> HIDE DEF D, w, u
      <4> DEFINE c == [k \in 0..(CSLOTS - 1) |-> IF k = u THEN w ELSE s.c[k]]
                 outside == s.outside \/ u \notin 0..(CSLOTS - 1)
      <4>4. [s.t EXCEPT ![w] = u] \in [D -> Int] /\ c \in Arrays(CSLOTS) /\ outside \in BOOLEAN
        BY <4>2, <4>3 DEF Arrays
      <4>5. Placed(a, s, r) = [t |-> [s.t EXCEPT ![w] = u], c |-> c, outside |-> outside]
        BY DEF Placed, w, u
      <4> HIDE DEF c, outside
      <4> QED
        BY <3>1, <4>4, <4>5
    <3> QED
      BY <3>1
  <2> HIDE DEF S
  <2> QED
    BY <2>1
<1>5. \A r \in 0..n, s \in S : F[r][s] = IF r = 0 THEN s ELSE Placed(a, s, r)
  BY DEF F
<1> HIDE DEF F, S, first
<1>6. PICK f : Runs(f, 0, n, S, first, F)
  <2>1. 0 \in Int /\ n \in Int
    OBVIOUS
  <2> QED
    BY <1>3, <1>4, <2>1, Loop
<1>7. f = Body(f)
  <2>1. \A r \in 0..n : r # 0 => r - 1 \in 0..n
    OBVIOUS
  <2>2. \A r \in 0..n : f[r] = IF r = 0 THEN first ELSE Placed(a, f[r - 1], r)
    BY <1>5, <1>6, <2>1 DEF Runs
  <2> QED
    BY <1>6, <2>2 DEF Runs
<1>8. loop = Body(loop)
  <2> HIDE DEF Body
  <2> QED
    BY <1>7
<1> HIDE DEF loop
<1>9. loop = [r \in 0..n |-> IF r = 0 THEN first ELSE Placed(a, loop[r - 1], r)]
  BY <1>8
<1>10. loop[0] = first /\ \A r \in 1..n : loop[r] = Placed(a, loop[r - 1], r)
  <2>1. 0 \in 0..n /\ \A r \in 1..n : r \in 0..n /\ r # 0
    OBVIOUS
  <2> QED
    BY <1>9, <2>1
<1> QED
  BY <1>1, <1>2, <1>10 DEF first

(* After r rounds the counts stand for the elements left, and the others   *)
(* are in their places, as far as c has these.                             *)
PlacedInv(a, n, s, r) ==
  /\ s.t \in [0..(SLOTS - 1) -> Int]
  /\ s.c \in Arrays(CSLOTS)
  /\ \A v \in 0..(SLOTS - 1) : s.t[v] = Cardinality(Left(a, n, r, v))
  /\ \A k \in 0..(r - 1) : Slot(a, n, k) < CSLOTS => s.c[Slot(a, n, k)] = a[k]
  /\ s.outside <=> \E k \in 0..(r - 1) : Slot(a, n, k) >= CSLOTS

LEMMA PlacedStep ==
  ASSUME SLOTS \in Nat, CSLOTS \in Nat, NEW n \in Nat, NEW a \in Arrays(n), InSlots(a, n),
         NEW r \in 1..n, NEW s, PlacedInv(a, n, s, r - 1)
  PROVE  PlacedInv(a, n, Placed(a, s, r), r)
<1> DEFINE v == a[r - 1]
           q == Slot(a, n, r - 1)
           t == Placed(a, s, r)
<1>1. r - 1 \in 0..(n - 1) /\ (r - 1) + 1 = r
  OBVIOUS
<1>2. v \in 0..(SLOTS - 1) /\ v \in Int /\ q \in 0..(n - 1)
  BY <1>1, SlotsInOrder DEF InSlots
<1>3. /\ s.t \in [0..(SLOTS - 1) -> Int]
      /\ s.c \in Arrays(CSLOTS)
      /\ \A w \in 0..(SLOTS - 1) : s.t[w] = Cardinality(Left(a, n, r - 1, w))
      /\ \A k \in 0..((r - 1) - 1) : Slot(a, n, k) < CSLOTS => s.c[Slot(a, n, k)] = a[k]
      /\ s.outside <=> \E k \in 0..((r - 1) - 1) : Slot(a, n, k) >= CSLOTS
  BY DEF PlacedInv
<1>4. /\ Cardinality(Left(a, n, r - 1, v)) - 1 = q
      /\ q = Cardinality(Left(a, n, r, v))
      /\ \A w : w # v => Left(a, n, r, w) = Left(a, n, r - 1, w)
  <2>1. /\ Cardinality(Left(a, n, r - 1, v)) - 1 = q
        /\ \A w : w # v => Left(a, n, (r - 1) + 1, w) = Left(a, n, r - 1, w)
    BY <1>1, LeftLess
  <2>2. q = Cardinality(Left(a, n, (r - 1) + 1, v))
    BY DEF Slot
  <2> QED
    BY <1>1, <2>1, <2>2
<1>5. s.t[v] - 1 = q
  BY <1>2, <1>3, <1>4
<1>6. /\ t.t = [s.t EXCEPT ![v] = q]
      /\ t.c = [k \in 0..(CSLOTS - 1) |-> IF k = q THEN v ELSE s.c[k]]
      /\ t.outside <=> (s.outside \/ q \notin 0..(CSLOTS - 1))
  BY <1>5 DEF Placed
<1>7. \A k \in 0..(r - 1) : k = r - 1 \/ k \in 0..((r - 1) - 1)
  OBVIOUS
<1>8. \A k \in 0..((r - 1) - 1) : Slot(a, n, k) # q /\ Slot(a, n, k) \in 0..(n - 1)
  <2>1. \A k \in 0..((r - 1) - 1) : k \in 0..(n - 1) /\ k # r - 1
    OBVIOUS
  <2> QED
    BY <1>1, <2>1, SlotsInOrder
<1>9. v = a[r - 1] /\ q = Slot(a, n, r - 1)
  OBVIOUS
<1> HIDE DEF t, q, v
<1>10. t.t \in [0..(SLOTS - 1) -> Int] /\ t.c \in Arrays(CSLOTS)
  BY <1>2, <1>3, <1>6 DEF Arrays
<1>11. \A w \in 0..(SLOTS - 1) : t.t[w] = Cardinality(Left(a, n, r, w))
  <2>1. t.t[v] = q
    BY <1>2, <1>3, <1>6
  <2>2. \A w \in 0..(SLOTS - 1) : w # v => t.t[w] = s.t[w]
    BY <1>3, <1>6
  <2> QED
    BY <1>3, <1>4, <2>1, <2>2
<1>12. ASSUME NEW k \in 0..(r - 1), Slot(a, n, k) < CSLOTS
       PROVE  t.c[Slot(a, n, k)] = a[k]
  <2>1. Slot(a, n, k) \in 0..(CSLOTS - 1)
    BY <1>2, <1>7, <1>8, <1>9, <1>12
  <2>2. CASE k = r - 1
    BY <1>6, <1>9, <2>1, <2>2
  <2>3. CASE k # r - 1
    <3>1. Slot(a, n, k) # q /\ s.c[Slot(a, n, k)] = a[k]
      BY <1>3, <1>7, <1>8, <1>12, <2>3
    <3> QED
      BY <1>6, <2>1, <3>1
  <2> QED
    BY <2>2, <2>3
<1>13. t.outside <=> \E k \in 0..(r - 1) : Slot(a, n, k) >= CSLOTS
  <2>1. q \notin 0..(CSLOTS - 1) <=> Slot(a, n, r - 1) >= CSLOTS
    BY <1>2, <1>9
  <2>2. r - 1 \in 0..(r - 1) /\ \A k \in 0..((r - 1) - 1) : k \in 0..(r - 1)
    OBVIOUS
  <2> QED
    BY <1>3, <1>6, <1>7, <2>1, <2>2
<1>14. PlacedInv(a, n, t, r)
  BY <1>10, <1>11, <1>12, <1>13 DEF PlacedInv
<1> QED
  BY <1>14 DEF t

LEMMA CountingSorts ==
  ASSUME SLOTS \in Nat, CSLOTS \in Nat, NEW n \in Nat \ {0}, NEW a \in Arrays(n), InSlots(a, n)
  PROVE  /\ CountingSort(a, n).outside <=> n > CSLOTS
         /\ ~(n > CSLOTS) => SortOf(a, CopiedBack(CountingSort(a, n).c, n), n)
<1>0. n \in Nat
  OBVIOUS
<1>1. PICK f, t : /\ Counts(a, n, t)
                  /\ f[0] = Unplaced(t)
                  /\ \A r \in 1..n : f[r] = Placed(a, f[r - 1], r)
                  /\ CountingSort(a, n) = f[n]
  BY <1>0, PlacedLoop
<1> DEFINE T == {r \in 0..n : PlacedInv(a, n, f[r], r)}
<1>2. 0 \in T
  <2> DEFINE s == f[0]
  <2>1. /\ s.t = t /\ s.c = [k \in 0..(CSLOTS - 1) |-> -1] /\ s.outside = FALSE
        /\ 0..(0 - 1) = {}
    BY <1>1 DEF Unplaced
  <2>2. \A v \in 0..(SLOTS - 1) : t[v] = Cardinality(Left(a, n, 0, v))
    BY <1>0, <1>1, CountsUpTo
  <2>3. t \in [0..(SLOTS - 1) -> Int]
    <3>1. \A v \in 0..(SLOTS - 1) : t[v] \in Int
      BY <1>0, <2>2, LeftFinite
    <3>2. t = [v \in 0..(SLOTS - 1) |->
                Cardinality(Places(a, n, v)) + (IF v = 0 THEN 0 ELSE t[v - 1])]
      BY <1>1 DEF Counts
    <3>3. t = [v \in 0..(SLOTS - 1) |-> t[v]]
      BY <3>2
    <3> QED
      BY <3>1, <3>3
  <2>4. s.c \in Arrays(CSLOTS)
    BY <2>1 DEF Arrays
  <2> HIDE DEF s
  <2>5. PlacedInv(a, n, s, 0)
    BY <2>1, <2>2, <2>3, <2>4 DEF PlacedInv
  <2> QED
    BY <2>5 DEF s
<1>3. ASSUME NEW r \in 0..n, r # 0, r - 1 \in T
      PROVE  r \in T
  <2>1. r \in 1..n /\ PlacedInv(a, n, f[r - 1], r - 1)
    BY <1>3
  <2>2. PlacedInv(a, n, f[r], r)
    BY <1>0, <1>1, <2>1, PlacedStep
  <2> QED
    BY <2>2
<1>4. PlacedInv(a, n, f[n], n)
  <2>1. 0 \in Int /\ n \in Int /\ n \in 0..n
    OBVIOUS
  <2>2. \A r \in T : PlacedInv(a, n, f[r], r)
    OBVIOUS
  <2> HIDE DEF T
  <2>3. 0..n \subseteq T
    BY <1>2, <1>3, <2>1, Induction
  <2> QED
    BY <2>1, <2>2, <2>3
<1> DEFINE d == f[n].c
           o == [k \in 0..(n - 1) |-> Slot(a, n, k)]
<1>5. /\ d \in Arrays(CSLOTS)
      /\ \A k \in 0..(n - 1) : Slot(a, n, k) < CSLOTS => d[Slot(a, n, k)] = a[k]
      /\ CountingSort(a, n).outside <=> \E k \in 0..(n - 1) : Slot(a, n, k) >= CSLOTS
  BY <1>1, <1>4 DEF PlacedInv
<1>6. /\ \A k \in 0..(n - 1) : Slot(a, n, k) \in 0..(n - 1)
      /\ \A k, l \in 0..(n - 1) :
           /\ k # l => Slot(a, n, k) # Slot(a, n, l)
           /\ a[k] < a[l] => Slot(a, n, k) < Slot(a, n, l)
  BY <1>0, SlotsInOrder
<1>7. \A k \in 0..(n - 1) : o[k] = Slot(a, n, k)
  OBVIOUS
<1>8. o \in Moves(n)
  <2>1. o \in [0..(n - 1) -> 0..(n - 1)]
    BY <1>6
  <2> HIDE DEF o
  <2> QED
    BY <1>6, <1>7, <2>1 DEF Moves
<1> HIDE DEF o, d
<1>9. \A m \in 0..(n - 1) : \E k \in 0..(n - 1) : o[k] = m
  BY <1>0, <1>8, ComesFromAll
<1> DEFINE p == [m \in 0..(n - 1) |-> CHOOSE k \in 0..(n - 1) : o[k] = m]
<1>10. \A m \in 0..(n - 1) : p[m] \in 0..(n - 1) /\ o[p[m]] = m
  BY <1>9
<1>11. p \in [0..(n - 1) -> 0..(n - 1)]
  BY <1>10
<1> HIDE DEF p
<1>12. p \in Moves(n)
  BY <1>10, <1>11 DEF Moves
<1>13. CountingSort(a, n).outside <=> n > CSLOTS
  <2>1. CASE n > CSLOTS
    <3>1. CSLOTS \in 0..(n - 1)
      BY <2>1
    <3>2. p[CSLOTS] \in 0..(n - 1) /\ Slot(a, n, p[CSLOTS]) = CSLOTS
      BY <1>7, <1>10, <3>1
    <3> QED
      BY <1>5, <2>1, <3>2
  <2>2. CASE ~(n > CSLOTS)
    BY <1>5, <1>6, <2>2
  <2> QED
    BY <2>1, <2>2
<1>14. ASSUME ~(n > CSLOTS)
       PROVE  SortOf(a, CopiedBack(d, n), n)
  <2> DEFINE c == CopiedBack(d, n)
  <2>1. \A k \in 0..(n - 1) : k \in 0..(CSLOTS - 1) /\ k < CSLOTS
    BY <1>14
  <2>2. c \in Arrays(n) /\ \A k \in 0..(n - 1) : c[k] = d[k]
    BY <1>5, <2>1 DEF Arrays, CopiedBack
  <2> HIDE DEF c
  <2>3. \A m \in 0..(n - 1) : c[m] = a[p[m]]
    BY <1>5, <1>7, <1>10, <2>1, <2>2
  <2>4. Reordered(a, c, n, 0, n - 1)
    BY <1>12, <2>3 DEF Reordered
  <2>5. ASSUME NEW k \in 0..(n - 1), NEW l \in 0..(n - 1), k < l
        PROVE  c[k] <= c[l]
    <3>1. c[k] \in Int /\ c[l] \in Int
      BY <2>2 DEF Arrays
    <3>2. CASE c[l] < c[k]
      <4>1. a[p[l]] < a[p[k]]
        BY <2>3, <3>2
      <4>2. Slot(a, n, p[l]) < Slot(a, n, p[k])
        BY <1>6, <1>10, <4>1
      <4>3. l < k
        BY <1>7, <1>10, <4>2
      <4> QED
        BY <2>5, <4>3
    <3> QED
      BY <3>1, <3>2
  <2>6. SortOf(a, c, n)
    BY <2>2, <2>4, <2>5 DEF SortOf
  <2> QED
    BY <2>6 DEF c
<1> QED
  BY <1>1, <1>13, <1>14 DEF d

-----------------------------------------------------------------------------
(* All four. *)

Long(x) == x.program = "countingSort" /\ x.n > CSLOTS

LEMMA EachSorts ==
  ASSUME NEW x \in Inputs
  PROVE  /\ x.n \in Nat \ {0} /\ x.a \in Arrays(x.n)
         /\ Overruns(x) <=> Long(x)
         /\ ~Long(x) => SortOf(x.a, Sort(x), x.n)
<1>1. /\ SLOTS \in Nat /\ CSLOTS \in Nat
      /\ x.program \in {"mergeSort", "countingSort", "bubble", "selectionSort"}
      /\ x.n \in Nat \ {0}
      /\ x.a \in Arrays(x.n)
      /\ x.program = "countingSort" => InSlots(x.a, x.n)
  BY InputsAssumption DEF Arrays, InSlots
<1>2. CASE x.program = "mergeSort"
  <2>1. Sort(x) = MergeSort(x.a, x.n)
    BY <1>2 DEF Sort
  <2> QED
    BY <1>1, <1>2, <2>1, MergeSorts DEF Long, Overruns
<1>3. CASE x.program = "countingSort"
  <2>1. Sort(x) = CopiedBack(CountingSort(x.a, x.n).c, x.n)
    BY <1>3 DEF Sort
  <2>2. /\ CountingSort(x.a, x.n).outside <=> x.n > CSLOTS
        /\ ~(x.n > CSLOTS) => SortOf(x.a, CopiedBack(CountingSort(x.a, x.n).c, x.n), x.n)
    BY <1>1, <1>3, CountingSorts
  <2> QED
    BY <1>1, <1>3, <2>1, <2>2 DEF Long, Overruns
<1>4. CASE x.program = "bubble"
  <2>1. Sort(x) = BubbleSort(x.a, x.n)
    BY <1>4 DEF Sort
  <2> QED
    BY <1>1, <1>4, <2>1, Bubble DEF Long, Overruns
<1>5. CASE x.program = "selectionSort"
  <2>1. Sort(x) = SelectionSort(x.a, x.n)
    BY <1>5 DEF Sort
  <2> QED
    BY <1>1, <1>5, <2>1, Selection DEF Long, Overruns
<1> QED
  BY <1>1, <1>2, <1>3, <1>4, <1>5

(* The program has not run, or it left what its sort computes, or it wrote *)
(* outside c.                                                              *)
RunInv ==
  /\ input \in Inputs
  /\ overrun \in BOOLEAN
  /\ overrun => Overruns(input)
  /\ output = << >> \/ (~Overruns(input) /\ output = Sort(input))

LEMMA RunInvAgrees == RunInv => SortsAgree
<1> DEFINE n == input.n
           a == input.a
           c == output
<1>1. SUFFICES ASSUME RunInv, output # << >>, ~Long(input), n \in Nat \ {0},
                      a \in Arrays(n), SortOf(a, c, n)
               PROVE  /\ DOMAIN c = DOMAIN a
                      /\ \A k, l \in DOMAIN c : k < l => c[k] <= c[l]
                      /\ \A v \in {a[k] : k \in DOMAIN a} :
                           Cardinality(Places(c, n, v)) = Cardinality(Places(a, n, v))
  <2>1. ASSUME RunInv
        PROVE  /\ overrun => Long(input)
               /\ output # << >> => /\ ~Long(input) /\ n \in Nat \ {0}
                                   /\ a \in Arrays(n) /\ SortOf(a, c, n)
    BY <2>1, EachSorts DEF RunInv
  <2> QED
    BY <2>1 DEF SortsAgree, Long
<1>2. n \in Nat
  BY <1>1
<1> HIDE DEF n, a, c
<1>3. DOMAIN c = DOMAIN a /\ DOMAIN c = 0..(n - 1)
  BY <1>1 DEF SortOf, Arrays
<1>4. \A k, l \in DOMAIN c : k < l => c[k] <= c[l]
  BY <1>1, <1>3 DEF SortOf
<1>5. \A v : Cardinality(Places(c, n, v)) = Cardinality(Places(a, n, v))
  BY <1>1, <1>2, SameCounts DEF SortOf
<1> QED
  BY <1>3, <1>4, <1>5

(* Merge, bubble and selection sort leave every array of every length in   *)
(* ascending order, with each value as often as it was there.  So does     *)
(* countingSort with an array that is not longer than c; with a longer one *)
(* it writes outside c.                                                    *)
THEOREM AllSort == SortSpec => []SortsAgree
<1>1. SortInit => RunInv
  BY DEF SortInit, RunInv
<1>2. RunInv /\ [RunSort]_sortVars => RunInv'
  <2> SUFFICES ASSUME RunInv, [RunSort]_sortVars PROVE RunInv'
    OBVIOUS
  <2>1. CASE RunSort
    <3>1. input' = input
      BY <2>1 DEF RunSort
    <3>2. CASE Overruns(input) /\ overrun' = TRUE /\ output' = output
      BY <2>1, <3>1, <3>2 DEF RunInv, RunSort
    <3>3. CASE ~Overruns(input) /\ output' = Sort(input) /\ overrun' = overrun
      BY <3>1, <3>3 DEF RunInv
    <3> QED
      BY <2>1, <3>2, <3>3 DEF RunSort
  <2>2. CASE UNCHANGED sortVars
    BY <2>2 DEF RunInv, sortVars
  <2> QED
    BY <2>1, <2>2
<1> QED
  BY <1>1, <1>2, RunInvAgrees, PTL DEF SortSpec

-----------------------------------------------------------------------------
(* Words and their bits. *)

LEMMA WordFacts ==
  ASSUME NEW x \in Word, NEW y \in Word
  PROVE  /\ \A q \in Bit : q \in Int /\ q >= 0 /\ q < W /\ x[q] \in 0..1 /\ y[q] \in 0..1
         /\ Zero \in Word /\ \A q \in Bit : Zero[q] = 0
         /\ Not(x) \in Word /\ \A q \in Bit : Not(x)[q] = 1 - x[q]
         /\ And(x, y) \in Word
         /\ \A q \in Bit : And(x, y)[q] = IF x[q] = 1 THEN y[q] ELSE 0
         /\ Or(x, y) \in Word
         /\ \A q \in Bit : Or(x, y)[q] = IF x[q] = 1 THEN 1 ELSE y[q]
<1>1. W \in Nat \ {0}
  BY WidthAssumption
<1>2. \A q \in Bit : q \in Int /\ q >= 0 /\ q < W /\ x[q] \in 0..1 /\ y[q] \in 0..1
  BY <1>1 DEF Bit, Word
<1>3. Zero \in Word /\ \A q \in Bit : Zero[q] = 0
  BY DEF Zero, Word
<1>4. Not(x) \in Word /\ \A q \in Bit : Not(x)[q] = 1 - x[q]
  <2>1. \A q \in Bit : 1 - x[q] \in 0..1
    BY <1>2
  <2> QED
    BY <2>1 DEF Not, Word
<1>5. And(x, y) \in Word /\ \A q \in Bit : And(x, y)[q] = IF x[q] = 1 THEN y[q] ELSE 0
  <2>1. \A q \in Bit : (IF x[q] = 1 THEN y[q] ELSE 0) \in 0..1
    BY <1>2
  <2> QED
    BY <2>1 DEF And, Word
<1>6. Or(x, y) \in Word /\ \A q \in Bit : Or(x, y)[q] = IF x[q] = 1 THEN 1 ELSE y[q]
  <2>1. \A q \in Bit : (IF x[q] = 1 THEN 1 ELSE y[q]) \in 0..1
    BY <1>2
  <2> QED
    BY <2>1 DEF Or, Word
<1> QED
  BY <1>2, <1>3, <1>4, <1>5, <1>6

LEMMA ShiftFacts ==
  ASSUME NEW x \in Word, NEW n \in Nat
  PROVE  /\ LeftShift(x, n) \in Word
         /\ \A q \in Bit : LeftShift(x, n)[q] = IF q < n THEN 0 ELSE x[q - n]
         /\ RightShift(x, n) \in Word
         /\ \A q \in Bit : RightShift(x, n)[q] = IF q + n < W THEN x[q + n] ELSE 0
<1>1. W \in Nat \ {0}
  BY WidthAssumption
<1>2. \A q \in Bit : /\ ~(q < n) => q - n \in Bit
                     /\ q + n < W => q + n \in Bit
  BY <1>1 DEF Bit
<1>3. \A q \in Bit : /\ (IF q < n THEN 0 ELSE x[q - n]) \in 0..1
                     /\ (IF q + n < W THEN x[q + n] ELSE 0) \in 0..1
  BY <1>2 DEF Word
<1>4. LeftShift(x, n) \in Word /\ RightShift(x, n) \in Word
  BY <1>3 DEF LeftShift, RightShift, Word
<1> QED
  BY <1>4 DEF LeftShift, RightShift

LEMMA LowestBits ==
  ASSUME NEW n \in Bit
  PROVE  Lowest(n) \in Word /\ \A q \in Bit : Lowest(n)[q] = IF q < n THEN 1 ELSE 0
<1>1. W \in Nat \ {0} /\ n \in Nat
  BY WidthAssumption DEF Bit
<1>2. Zero \in Word /\ \A q \in Bit : Zero[q] = 0
  BY DEF Zero, Word
<1>3. Not(Zero) \in Word /\ \A q \in Bit : Not(Zero)[q] = 1
  BY <1>2, WordFacts
<1> DEFINE y == LeftShift(Not(Zero), n)
<1>4. y \in Word /\ \A q \in Bit : y[q] = IF q < n THEN 0 ELSE 1
  <2> DEFINE z == Not(Zero)
  <2>1. \A q \in Bit : ~(q < n) => q - n \in Bit
    BY <1>1 DEF Bit
  <2>2. z \in Word /\ \A q \in Bit : z[q] = 1
    BY <1>3
  <2> HIDE DEF z
  <2>3. /\ LeftShift(z, n) \in Word
        /\ \A q \in Bit : LeftShift(z, n)[q] = IF q < n THEN 0 ELSE z[q - n]
    BY <1>1, <2>2, ShiftFacts
  <2>4. \A q \in Bit : LeftShift(z, n)[q] = IF q < n THEN 0 ELSE 1
    BY <2>1, <2>2, <2>3
  <2> QED
    BY <2>3, <2>4 DEF z
<1> HIDE DEF y
<1>5. Not(y) \in Word /\ \A q \in Bit : Not(y)[q] = IF q < n THEN 1 ELSE 0
  BY <1>4, WordFacts
<1> QED
  BY <1>5 DEF Lowest, y

(* A word cut down to its lowest bits. *)
LEMMA Masked ==
  ASSUME NEW x \in Word, NEW n \in Int, NEW m \in Word,
         \A q \in Bit : m[q] = IF q < n THEN 1 ELSE 0
  PROVE  And(x, m) \in Word /\ \A q \in Bit : And(x, m)[q] = IF q < n THEN x[q] ELSE 0
<1>1. /\ And(x, m) \in Word
      /\ \A q \in Bit : And(x, m)[q] = IF x[q] = 1 THEN m[q] ELSE 0
  BY WordFacts
<1>2. \A q \in Bit : x[q] = 0 \/ x[q] = 1
  BY DEF Word
<1> QED
  BY <1>1, <1>2

LEMMA GetField ==
  ASSUME NEW x \in Word, NEW p \in Bit, NEW n \in Bit
  PROVE  /\ n <= p => \A q \in Bit : GetBits(x, p, n)[q] = IF q < n THEN x[p - n + 1 + q] ELSE 0
         /\ n > p => GetBits(x, p, n) = Zero
<1>1. W \in Nat \ {0} /\ n \in Int /\ p \in Int
  BY WidthAssumption DEF Bit
<1>2. CASE n <= p
  <2> DEFINE y == RightShift(x, p - n + 1)
             m == Lowest(n)
  <2>1. p - n + 1 \in Nat
    BY <1>1, <1>2
  <2>2. y \in Word /\ \A q \in Bit : q < n => y[q] = x[p - n + 1 + q]
    <3> DEFINE k == p - n + 1
    <3>1. \A q \in Bit : q < n => q + k < W /\ q + k = k + q
      BY <1>1, <1>2 DEF Bit
    <3> HIDE DEF k
    <3>2. /\ RightShift(x, k) \in Word
          /\ \A q \in Bit : RightShift(x, k)[q] = IF q + k < W THEN x[q + k] ELSE 0
      BY <2>1, ShiftFacts DEF k
    <3>3. /\ RightShift(x, k) \in Word
          /\ \A q \in Bit : q < n => RightShift(x, k)[q] = x[k + q]
      BY <3>1, <3>2
    <3> QED
      BY <3>3 DEF k
  <2>3. m \in Word /\ \A q \in Bit : m[q] = IF q < n THEN 1 ELSE 0
    BY LowestBits
  <2>4. GetBits(x, p, n) = And(y, m)
    BY <1>1, <1>2 DEF GetBits
  <2> HIDE DEF y, m
  <2>5. \A q \in Bit : And(y, m)[q] = IF q < n THEN y[q] ELSE 0
    BY <1>1, <2>2, <2>3, Masked
  <2> QED
    BY <1>1, <1>2, <2>2, <2>4, <2>5
<1>3. CASE n > p
  BY <1>1, <1>3 DEF GetBits
<1> QED
  BY <1>1, <1>2, <1>3

LEMMA SetField ==
  ASSUME NEW x \in Word, NEW y \in Word, NEW p \in Bit, NEW n \in Bit, n <= p
  PROVE  /\ SetBits(x, p, n, y) \in Word
         /\ \A q \in Bit :
              SetBits(x, p, n, y)[q] = IF q \in (p - n)..(p - 1) THEN y[q - (p - n)] ELSE x[q]
<1> DEFINE k == p - n
           m == Lowest(n)
           g == And(y, m)
           npos == LeftShift(m, k)
           ny == LeftShift(g, k)
           z == And(x, Not(npos))
<1>1. W \in Nat \ {0} /\ n \in Int /\ p \in Int /\ k \in Nat /\ k + n = p
  BY WidthAssumption DEF Bit
<1>2. m \in Word /\ \A q \in Bit : m[q] = IF q < n THEN 1 ELSE 0
  BY LowestBits
<1>3. SetBits(x, p, n, y) = Or(z, ny)
  BY DEF SetBits
<1>4. \A q \in Bit : q \in (p - n)..(p - 1) <=> q >= k /\ q - k < n
  BY <1>1 DEF Bit
<1>5. \A q \in Bit : q >= k => q - k \in Bit
  BY <1>1 DEF Bit
<1>6. \A q \in Bit : q \in Int
  BY DEF Bit
<1>7. \A q \in Bit : q - (p - n) = q - k
  OBVIOUS
<1> HIDE DEF k, m
<1>8. g \in Word /\ \A q \in Bit : g[q] = IF q < n THEN y[q] ELSE 0
  BY <1>1, <1>2, Masked
<1> HIDE DEF g
<1>9. npos \in Word /\ \A q \in Bit : npos[q] = IF q >= k /\ q - k < n THEN 1 ELSE 0
  <2>1. /\ LeftShift(m, k) \in Word
        /\ \A q \in Bit : LeftShift(m, k)[q] = IF q < k THEN 0 ELSE m[q - k]
    BY <1>1, <1>2, ShiftFacts
  <2>2. \A q \in Bit : q < k <=> ~(q >= k)
    BY <1>1, <1>6
  <2> QED
    BY <1>2, <1>5, <2>1, <2>2
<1>10. ny \in Word /\ \A q \in Bit : ny[q] = IF q >= k /\ q - k < n THEN y[q - k] ELSE 0
  <2>1. /\ LeftShift(g, k) \in Word
        /\ \A q \in Bit : LeftShift(g, k)[q] = IF q < k THEN 0 ELSE g[q - k]
    BY <1>1, <1>8, ShiftFacts
  <2>2. \A q \in Bit : q < k <=> ~(q >= k)
    BY <1>1, <1>6
  <2> QED
    BY <1>5, <1>8, <2>1, <2>2
<1> HIDE DEF npos, ny
<1>11. Not(npos) \in Word /\ \A q \in Bit : Not(npos)[q] = IF q >= k /\ q - k < n THEN 0 ELSE 1
  BY <1>9, WordFacts
<1>12. z \in Word /\ \A q \in Bit : z[q] = IF q >= k /\ q - k < n THEN 0 ELSE x[q]
  <2> DEFINE v == Not(npos)
  <2>1. v \in Word /\ \A q \in Bit : v[q] = IF q >= k /\ q - k < n THEN 0 ELSE 1
    BY <1>11
  <2> HIDE DEF v
  <2>2. And(x, v) \in Word /\ \A q \in Bit : And(x, v)[q] = IF q >= k /\ q - k < n THEN 0 ELSE x[q]
    <3>1. /\ And(x, v) \in Word
          /\ \A q \in Bit : And(x, v)[q] = IF x[q] = 1 THEN v[q] ELSE 0
      BY <2>1, WordFacts
    <3>2. \A q \in Bit : x[q] = 0 \/ x[q] = 1
      BY DEF Word
    <3> QED
      BY <2>1, <3>1, <3>2
  <2> QED
    BY <2>2 DEF v
<1> HIDE DEF z
<1>13. /\ Or(z, ny) \in Word
       /\ \A q \in Bit : Or(z, ny)[q] = IF q >= k /\ q - k < n THEN y[q - k] ELSE x[q]
  <2>1. \A q \in Bit : x[q] \in 0..1 /\ (q >= k => y[q - k] \in 0..1)
    BY <1>5 DEF Word
  <2>2. /\ Or(z, ny) \in Word
        /\ \A q \in Bit : Or(z, ny)[q] = IF z[q] = 1 THEN 1 ELSE ny[q]
    <3>1. z \in Word /\ ny \in Word
      BY <1>10, <1>12
    <3> QED
      BY <3>1, WordFacts
  <2>3. ASSUME NEW q \in Bit
        PROVE  Or(z, ny)[q] = IF q >= k /\ q - k < n THEN y[q - k] ELSE x[q]
    <3>1. CASE q >= k /\ q - k < n
      <4>1. z[q] = 0 /\ ny[q] = y[q - k]
        BY <1>10, <1>12, <3>1
      <4> QED
        BY <2>2, <3>1, <4>1
    <3>2. CASE ~(q >= k /\ q - k < n)
      <4>1. z[q] = x[q] /\ ny[q] = 0
        BY <1>10, <1>12, <3>2
      <4>2. x[q] = 0 \/ x[q] = 1
        BY <2>1
      <4> QED
        BY <2>2, <3>2, <4>1, <4>2
    <3> QED
      BY <3>1, <3>2
  <2> QED
    BY <2>2, <2>3
<1> QED
  BY <1>3, <1>4, <1>7, <1>13

-----------------------------------------------------------------------------
(* The bits that are set. *)

Ones(x) == {q \in Bit : x[q] = 1}

LEMMA OnesFinite ==
  ASSUME NEW x
  PROVE  IsFiniteSet(Ones(x)) /\ Cardinality(Ones(x)) \in Nat /\ Cardinality(Ones(x)) <= W
<1> DEFINE D == 0..(W - 1)
<1>1. IsFiniteSet(D) /\ Cardinality(D) = W
  <2>1. W \in Nat \ {0} /\ 0 \in Int /\ W - 1 \in Int /\ 0 <= W - 1 /\ (W - 1) - 0 + 1 = W
    BY WidthAssumption
  <2> QED
    BY <2>1, FS_Interval
<1>2. Ones(x) \in SUBSET D
  BY DEF Ones, Bit
<1> HIDE DEF D
<1>3. IsFiniteSet(Ones(x)) /\ Cardinality(Ones(x)) <= W
  BY <1>1, <1>2, FS_Subset
<1> QED
  BY <1>3, FS_CardinalityType

(* x & (x - 1) drops the lowest bit that is set and no other. *)
LEMMA ClearedOne ==
  ASSUME NEW x \in Word, x # Zero
  PROVE  Cleared(x) \in Word /\ \E m \in Ones(x) : Ones(Cleared(x)) = Ones(x) \ {m}
<1> DEFINE y == MinusOne(x)
<1>1. W \in Nat \ {0} /\ \A q \in Bit : q \in Nat /\ x[q] \in 0..1
  BY WidthAssumption DEF Bit, Word
<1>2. Ones(x) \in SUBSET Nat /\ Ones(x) # {}
  <2>1. CASE \A q \in Bit : x[q] = 0
    <3>1. x = Zero
      BY <2>1 DEF Word, Zero
    <3> QED
      BY <3>1
  <2>2. CASE \E q \in Bit : x[q] # 0
    BY <1>1, <2>2 DEF Ones
  <2> QED
    BY <1>1, <2>1, <2>2 DEF Ones
<1>3. PICK m \in Ones(x) : \A l \in Ones(x) : m <= l
  BY <1>2, LeastNat
<1>4. m \in Bit /\ x[m] = 1 /\ m \in Nat /\ \A q \in Bit : q < m => x[q] = 0
  <2>1. \A q \in Bit : q < m => q \notin Ones(x)
    BY <1>1, <1>2, <1>3
  <2> QED
    BY <1>1, <1>3, <2>1 DEF Ones
<1>5. \A q \in Bit : (\A r \in 0..(q - 1) : x[r] = 0) <=> q <= m
  <2>1. ASSUME NEW q \in Bit, q <= m, NEW r \in 0..(q - 1)
        PROVE  x[r] = 0
    <3>1. r \in Bit /\ r < m
      BY <1>1, <1>4, <2>1 DEF Bit
    <3> QED
      BY <1>4, <3>1
  <2>2. ASSUME NEW q \in Bit, ~(q <= m)
        PROVE  m \in 0..(q - 1)
    BY <1>1, <1>4, <2>2
  <2> QED
    BY <1>4, <2>1, <2>2
<1>6. \A q \in Bit : y[q] = IF q <= m THEN 1 - x[q] ELSE x[q]
  <2>1. \A q \in Bit : y[q] = IF \A r \in 0..(q - 1) : x[r] = 0 THEN 1 - x[q] ELSE x[q]
    BY DEF MinusOne
  <2> HIDE DEF y
  <2> QED
    BY <1>5, <2>1
<1>7. y \in Word
  <2>1. \A q \in Bit : y[q] \in 0..1
    <3> HIDE DEF y
    <3> QED
      BY <1>1, <1>6
  <2>2. y = [q \in Bit |-> y[q]]
    BY DEF MinusOne
  <2> HIDE DEF y
  <2> QED
    BY <2>1, <2>2 DEF Word
<1>8. Cleared(x) = And(x, y)
  BY DEF Cleared
<1> HIDE DEF y
<1>9. And(x, y) \in Word /\ \A q \in Bit : And(x, y)[q] = IF x[q] = 1 THEN y[q] ELSE 0
  BY <1>7, WordFacts
<1>10. \A q \in Bit : And(x, y)[q] = 1 <=> x[q] = 1 /\ q # m
  <2> SUFFICES ASSUME NEW q \in Bit PROVE And(x, y)[q] = 1 <=> x[q] = 1 /\ q # m
    OBVIOUS
  <2>1. CASE x[q] # 1
    BY <1>9, <2>1
  <2>2. CASE x[q] = 1
    <3>1. And(x, y)[q] = y[q]
      BY <1>9, <2>2
    <3>2. q <= m <=> q = m
      BY <1>1, <1>4, <2>2
    <3>3. y[q] = IF q = m THEN 0 ELSE 1
      BY <1>6, <2>2, <3>2
    <3> QED
      BY <2>2, <3>1, <3>3
  <2> QED
    BY <2>1, <2>2
<1>11. Ones(And(x, y)) = Ones(x) \ {m}
  BY <1>10 DEF Ones
<1> QED
  BY <1>3, <1>8, <1>9, <1>11

LEMMA CountLoop ==
  ASSUME NEW x \in Word
  PROVE  \E f : /\ f[0] = [x |-> x, count |-> 0]
                /\ \A k \in 1..W : f[k] = Round(f[k - 1])
                /\ BitCount(x) = f[W].count
<1> DEFINE first == [x |-> x, count |-> 0]
           Body(g) == [k \in 0..W |-> IF k = 0 THEN first ELSE Round(g[k - 1])]
           loop == CHOOSE g : g = Body(g)
           S == [x : Word, count : Int]
           F == [k \in 0..W |-> [s \in S |-> Round(s)]]
<1>1. F \in [0..W -> [S -> S]]
  <2>1. ASSUME NEW s \in S PROVE Round(s) \in S
    <3>1. s.x \in Word /\ s.count \in Int
      OBVIOUS
    <3>2. s.x # Zero => Cleared(s.x) \in Word
      BY <3>1, ClearedOne
    <3> QED
      BY <3>1, <3>2 DEF Round
  <2> HIDE DEF S
  <2> QED
    BY <2>1
<1>2. \A k \in 0..W, s \in S : F[k][s] = Round(s)
  BY DEF F
<1>3. first \in S
  OBVIOUS
<1> HIDE DEF F, S, first
<1>4. PICK f : Runs(f, 0, W, S, first, F)
  <2>1. 0 \in Int /\ W \in Int
    BY WidthAssumption
  <2> QED
    BY <1>1, <1>3, <2>1, Loop
<1>5. f = Body(f)
  <2>1. W \in Nat
    BY WidthAssumption
  <2>2. \A k \in 0..W : k # 0 => k - 1 \in 0..W
    BY <2>1
  <2>3. \A k \in 0..W : f[k] = IF k = 0 THEN first ELSE Round(f[k - 1])
    BY <1>2, <1>4, <2>2 DEF Runs
  <2> QED
    BY <1>4, <2>3 DEF Runs
<1>6. loop = Body(loop)
  <2> HIDE DEF Body
  <2> QED
    BY <1>5
<1>7. BitCount(x) = loop[W].count
  BY DEF BitCount, first
<1> HIDE DEF loop
<1>8. loop = [k \in 0..W |-> IF k = 0 THEN first ELSE Round(loop[k - 1])]
  BY <1>6
<1>9. loop[0] = first /\ \A k \in 1..W : loop[k] = Round(loop[k - 1])
  <2>1. W \in Nat
    BY WidthAssumption
  <2>2. 0 \in 0..W /\ \A k \in 1..W : k \in 0..W /\ k # 0
    BY <2>1
  <2> QED
    BY <1>8, <2>2
<1> QED
  BY <1>7, <1>9 DEF first

LEMMA CountsBits ==
  ASSUME NEW x \in Word
  PROVE  BitCount(x) = Cardinality(Ones(x))
<1>1. PICK f : /\ f[0] = [x |-> x, count |-> 0]
               /\ \A k \in 1..W : f[k] = Round(f[k - 1])
               /\ BitCount(x) = f[W].count
  BY CountLoop
<1> DEFINE C(y) == Cardinality(Ones(y))
           T == {k \in 0..W : /\ f[k].x \in Word /\ f[k].count \in Int
                              /\ C(f[k].x) + f[k].count = C(x)
                              /\ f[k].x = Zero \/ f[k].count = k}
<1>2. W \in Nat \ {0}
  BY WidthAssumption
<1>3. \A y : IsFiniteSet(Ones(y)) /\ C(y) \in Nat /\ C(y) <= W
  BY OnesFinite
<1>4. 0 \in T
  <2> DEFINE s == f[0]
  <2>1. s.x = x /\ s.count = 0
    BY <1>1
  <2> HIDE DEF s, C
  <2>2. s.x \in Word /\ s.count \in Int /\ C(s.x) + s.count = C(x) /\ s.count = 0
    BY <1>3, <2>1
  <2>3. 0 \in 0..W
    BY <1>2
  <2> QED
    BY <2>2, <2>3 DEF s
<1>5. ASSUME NEW k \in 0..W, k # 0, k - 1 \in T
      PROVE  k \in T
  <2> DEFINE s == f[k - 1]
             t == f[k]
  <2>1. /\ s.x \in Word /\ s.count \in Int /\ C(s.x) + s.count = C(x)
        /\ s.x = Zero \/ s.count = k - 1
    BY <1>5
  <2>2. t = Round(s)
    <3>1. k \in 1..W
      BY <1>2, <1>5
    <3> QED
      BY <1>1, <3>1
  <2> HIDE DEF s, t
  <2>3. CASE s.x = Zero
    <3>1. t = s
      BY <2>2, <2>3 DEF Round
    <3>2. /\ t.x \in Word /\ t.count \in Int /\ C(t.x) + t.count = C(x)
          /\ t.x = Zero
      BY <2>1, <2>3, <3>1
    <3> QED
      BY <3>2 DEF t
  <2>4. CASE s.x # Zero
    <3>1. t = [x |-> Cleared(s.x), count |-> s.count + 1]
      BY <2>2, <2>4 DEF Round
    <3>2. t.x = Cleared(s.x) /\ t.count = s.count + 1
      BY <3>1
    <3>3. t.x \in Word /\ \E m \in Ones(s.x) : Ones(t.x) = Ones(s.x) \ {m}
      BY <2>1, <2>4, <3>2, ClearedOne
    <3>4. C(t.x) = C(s.x) - 1
      <4>1. PICK m \in Ones(s.x) : Ones(t.x) = Ones(s.x) \ {m}
        BY <3>3
      <4>2. Cardinality(Ones(s.x) \ {m}) = Cardinality(Ones(s.x)) - 1
        BY <1>3, FS_RemoveElement
      <4> QED
        BY <4>1, <4>2
    <3>5. C(s.x) \in Nat
      BY <1>3
    <3> HIDE DEF C
    <3>6. t.count \in Int /\ C(t.x) + t.count = C(x) /\ t.count = k
      BY <2>1, <2>4, <3>2, <3>4, <3>5
    <3> QED
      BY <3>3, <3>6 DEF t
  <2> QED
    BY <2>3, <2>4
<1>6. W \in T
  <2>1. 0 \in Int /\ W \in Int /\ W \in 0..W
    BY <1>2
  <2> HIDE DEF T
  <2>2. 0..W \subseteq T
    BY <1>4, <1>5, <2>1, Induction
  <2> QED
    BY <2>1, <2>2
<1> DEFINE s == f[W]
<1>7. /\ s.x \in Word /\ s.count \in Int /\ C(s.x) + s.count = C(x)
      /\ s.x = Zero \/ s.count = W
  BY <1>6
<1> HIDE DEF s
<1>8. C(s.x) = 0
  <2>1. CASE s.x = Zero
    <3>1. Ones(Zero) = {}
      BY DEF Ones, Zero
    <3> QED
      BY <2>1, <3>1, FS_EmptySet
  <2>2. CASE s.count = W
    <3> HIDE DEF C
    <3> QED
      BY <1>2, <1>3, <1>7, <2>2
  <2> QED
    BY <1>7, <2>1, <2>2
<1>9. s.count = C(x)
  <2>1. C(x) \in Nat
    BY <1>3
  <2> HIDE DEF C
  <2> QED
    BY <1>7, <1>8, <2>1
<1> QED
  BY <1>1, <1>9 DEF s

-----------------------------------------------------------------------------
(* The digits. *)

HalvedFact(c, a) ==
  /\ c[0] = a
  /\ \A k \in 1..W : c[k] = Halved(c[k - 1])

(* What call W - k prints, given the calls' arguments. *)
PrintedFact(f, c) ==
  \A k \in 0..W :
    f[k] = IF k = 0 \/ c[W - k] = Zero THEN << >> ELSE f[k - 1] \o <<c[W - k][0]>>

LEMMA PrintedFirst ==
  ASSUME NEW f, NEW c, PrintedFact(f, c)
  PROVE  f[0] = << >>
<1>1. 0 \in 0..W
  BY WidthAssumption
<1>2. f[0] = IF 0 = 0 \/ c[W - 0] = Zero THEN << >> ELSE f[0 - 1] \o <<c[W - 0][0]>>
  BY <1>1 DEF PrintedFact
<1> QED
  BY <1>2

LEMMA HalvedWord ==
  ASSUME NEW a \in Word
  PROVE  Halved(a) \in Word /\ \A q \in Bit : Halved(a)[q] = IF q < W - 1 THEN a[q + 1] ELSE a[q]
<1>1. \A q \in Bit : q < W - 1 => q + 1 \in Bit
  BY WidthAssumption DEF Bit
<1>2. \A q \in Bit : (IF q < W - 1 THEN a[q + 1] ELSE a[q]) \in 0..1
  BY <1>1 DEF Word
<1> QED
  BY <1>2 DEF Halved, Word

LEMMA CallLoop ==
  ASSUME NEW a \in Word
  PROVE  \E c, f : /\ HalvedFact(c, a) /\ \A k \in 0..W : c[k] \in Word
                   /\ PrintedFact(f, c) /\ f[W] \in Seq(0..1)
                   /\ PrintRightBit(a) = IF c[W] = Zero THEN f[W] ELSE Endless
<1>0. W \in Nat \ {0} /\ W \in Nat /\ 0 \in Int /\ W \in Int /\ W \in 0..W /\ 0 \in 0..W
  BY WidthAssumption
<1> DEFINE Body1(g) == [k \in 0..W |-> IF k = 0 THEN a ELSE Halved(g[k - 1])]
           word == CHOOSE g : g = Body1(g)
           Body2(g) ==
             [k \in 0..W |-> IF k = 0 \/ word[W - k] = Zero THEN << >>
                             ELSE g[k - 1] \o <<word[W - k][0]>>]
           printed == CHOOSE g : g = Body2(g)
           D == 0..1
           F == [k \in 0..W |-> [b \in Word |-> Halved(b)]]
           G == [k \in 0..W |-> [s \in Seq(D) |->
                  IF k = 0 \/ word[W - k] = Zero THEN << >> ELSE s \o <<word[W - k][0]>>]]
<1>1. \A k \in 0..W : k # 0 => k - 1 \in 0..W
  BY <1>0
<1>2. F \in [0..W -> [Word -> Word]] /\ \A k \in 0..W, b \in Word : F[k][b] = Halved(b)
  BY HalvedWord
<1> HIDE DEF F
<1>3. PICK f : Runs(f, 0, W, Word, a, F)
  BY <1>0, <1>2, Loop
<1>4. f = Body1(f)
  <2>1. \A k \in 0..W : f[k] = IF k = 0 THEN a ELSE Halved(f[k - 1])
    BY <1>1, <1>2, <1>3 DEF Runs
  <2> QED
    BY <1>3, <2>1 DEF Runs
<1>5. word = Body1(word)
  <2> HIDE DEF Body1
  <2> QED
    BY <1>4
<1>6. PrintRightBit(a) = IF word[W] = Zero THEN printed[W] ELSE Endless
  BY DEF PrintRightBit
<1> HIDE DEF word
<1>7. HalvedFact(word, a) /\ \A k \in 0..W : k # 0 => word[k] = Halved(word[k - 1])
  <2>1. word = [k \in 0..W |-> IF k = 0 THEN a ELSE Halved(word[k - 1])]
    BY <1>5
  <2>2. word[0] = a /\ \A k \in 0..W : k # 0 => word[k] = Halved(word[k - 1])
    BY <1>0, <2>1
  <2>3. \A k \in 1..W : k \in 0..W /\ k # 0
    BY <1>0
  <2> QED
    BY <2>2, <2>3 DEF HalvedFact
<1>8. \A k \in 0..W : word[k] \in Word
  <2> DEFINE T == {k \in 0..W : word[k] \in Word}
  <2>1. 0 \in T
    BY <1>0, <1>7 DEF HalvedFact
  <2>2. \A k \in 0..W : k # 0 /\ k - 1 \in T => k \in T
    BY <1>7, HalvedWord
  <2> HIDE DEF T
  <2>3. 0..W \subseteq T
    BY <1>0, <2>1, <2>2, Induction
  <2> QED
    BY <2>3 DEF T
<1>9. \A k \in 0..W : word[W - k][0] \in D
  <2>1. \A k \in 0..W : W - k \in 0..W /\ 0 \in Bit
    BY <1>0 DEF Bit
  <2> QED
    BY <1>8, <2>1 DEF Word
<1> HIDE DEF D
<1>10. /\ G \in [0..W -> [Seq(D) -> Seq(D)]]
       /\ \A k \in 0..W, s \in Seq(D) :
            G[k][s] = IF k = 0 \/ word[W - k] = Zero THEN << >> ELSE s \o <<word[W - k][0]>>
  <2>1. ASSUME NEW k \in 0..W, NEW s \in Seq(D)
        PROVE  (IF k = 0 \/ word[W - k] = Zero THEN << >> ELSE s \o <<word[W - k][0]>>) \in Seq(D)
    <3>1. <<word[W - k][0]>> \in Seq(D) /\ << >> \in Seq(D)
      BY <1>9
    <3> QED
      BY <3>1
  <2> QED
    BY <2>1
<1> HIDE DEF G
<1>11. PICK h : Runs(h, 0, W, Seq(D), << >>, G)
  <2>1. << >> \in Seq(D)
    OBVIOUS
  <2> QED
    BY <1>0, <1>10, <2>1, Loop
<1>12. h = Body2(h)
  <2>1. ASSUME NEW k \in 0..W
        PROVE  h[k] = IF k = 0 \/ word[W - k] = Zero THEN << >> ELSE h[k - 1] \o <<word[W - k][0]>>
    <3>1. CASE k = 0
      BY <1>11, <3>1 DEF Runs
    <3>2. CASE k # 0
      <4>1. h[k] = G[k][h[k - 1]] /\ h[k - 1] \in Seq(D)
        BY <1>1, <1>11, <3>2 DEF Runs
      <4> QED
        BY <1>10, <3>2, <4>1
    <3> QED
      BY <3>1, <3>2
  <2> QED
    BY <1>11, <2>1 DEF Runs
<1>13. printed = Body2(printed)
  <2> HIDE DEF Body2
  <2> QED
    BY <1>12
<1> HIDE DEF printed
<1>14. PrintedFact(printed, word)
  <2>1. printed = [k \in 0..W |-> IF k = 0 \/ word[W - k] = Zero THEN << >>
                                  ELSE printed[k - 1] \o <<word[W - k][0]>>]
    BY <1>13
  <2> QED
    BY <2>1 DEF PrintedFact
<1>15. printed[W] \in Seq(D)
  <2> DEFINE T == {k \in 0..W : printed[k] \in Seq(D)}
  <2>1. 0 \in T
    <3>1. printed[0] = << >> /\ << >> \in Seq(D)
      BY <1>14, PrintedFirst
    <3> QED
      BY <1>0, <3>1
  <2>2. ASSUME NEW k \in 0..W, k # 0, k - 1 \in T
        PROVE  k \in T
    <3>1. <<word[W - k][0]>> \in Seq(D) /\ << >> \in Seq(D) /\ printed[k - 1] \in Seq(D)
      BY <1>9, <2>2
    <3>2. printed[k] = IF k = 0 \/ word[W - k] = Zero THEN << >>
                       ELSE printed[k - 1] \o <<word[W - k][0]>>
      BY <1>14 DEF PrintedFact
    <3>3. printed[k - 1] \o <<word[W - k][0]>> \in Seq(D)
      BY <3>1
    <3>4. printed[k] \in Seq(D)
      BY <3>1, <3>2, <3>3
    <3> QED
      BY <3>4
  <2> HIDE DEF T
  <2>3. 0..W \subseteq T
    BY <1>0, <2>1, <2>2, Induction
  <2> QED
    BY <1>0, <2>3 DEF T
<1> QED
  BY <1>6, <1>7, <1>8, <1>14, <1>15 DEF D

(* Call k gets a shifted by k, with copies of the sign from above. *)
LEMMA CallShifted ==
  ASSUME NEW a \in Word, NEW c, HalvedFact(c, a), \A k \in 0..W : c[k] \in Word
  PROVE  \A k \in 0..W, q \in Bit : c[k][q] = IF q + k < W THEN a[q + k] ELSE a[W - 1]
<1>0. W \in Nat \ {0} /\ 0 \in Int /\ W \in Int
  BY WidthAssumption
<1> DEFINE P(k) == \A q \in Bit : c[k][q] = IF q + k < W THEN a[q + k] ELSE a[W - 1]
           T == {k \in 0..W : P(k)}
<1>1. 0 \in T
  <2>1. c[0] = a /\ 0 \in 0..W
    BY <1>0 DEF HalvedFact
  <2>2. \A q \in Bit : q + 0 < W /\ q + 0 = q
    BY <1>0 DEF Bit
  <2> QED
    BY <2>1, <2>2
<1>2. ASSUME NEW k \in 0..W, k # 0, k - 1 \in T
      PROVE  k \in T
  <2>1. k \in 1..W /\ k - 1 \in 0..W /\ P(k - 1)
    BY <1>2
  <2> DEFINE b == c[k - 1]
  <2>2. c[k] = Halved(b) /\ b \in Word
    BY <2>1 DEF HalvedFact
  <2>3. \A q \in Bit : b[q] = IF q + (k - 1) < W THEN a[q + (k - 1)] ELSE a[W - 1]
    BY <2>1
  <2> HIDE DEF b
  <2>4. ASSUME NEW q \in Bit
        PROVE  c[k][q] = IF q + k < W THEN a[q + k] ELSE a[W - 1]
    <3>1. q \in Int /\ q >= 0 /\ q < W /\ k >= 1
      BY <1>0, <2>1 DEF Bit
    <3>2. c[k][q] = IF q < W - 1 THEN b[q + 1] ELSE b[q]
      BY <2>2, HalvedWord
    <3>3. CASE q < W - 1
      <4>1. q + 1 \in Bit /\ (q + 1) + (k - 1) = q + k
        BY <1>0, <3>1, <3>3 DEF Bit
      <4>2. b[q + 1] = IF (q + 1) + (k - 1) < W THEN a[(q + 1) + (k - 1)] ELSE a[W - 1]
        BY <2>3, <4>1
      <4> QED
        BY <3>2, <3>3, <4>1, <4>2
    <3>4. CASE ~(q < W - 1)
      <4>1. q = W - 1 /\ ~(q + k < W)
        BY <1>0, <3>1, <3>4
      <4>2. q + (k - 1) < W => q + (k - 1) = W - 1
        BY <1>0, <3>1, <4>1
      <4>3. b[q] = a[W - 1]
        BY <2>3, <4>2
      <4> QED
        BY <3>2, <3>4, <4>1, <4>3
    <3> QED
      BY <3>3, <3>4
  <2> QED
    BY <2>4
<1>3. 0..W \subseteq T
  <2> HIDE DEF T
  <2> QED
    BY <1>0, <1>1, <1>2, Induction
<1> QED
  BY <1>3

(* The number of digits: up to the highest bit that is set. *)
Significant(a, h) ==
  /\ h \in 0..W
  /\ h > 0 => a[h - 1] = 1
  /\ \A q \in Bit : q >= h => a[q] = 0

LEMMA SomeSignificant ==
  ASSUME NEW a \in Word
  PROVE  \E h : Significant(a, h)
<1>0. W \in Nat \ {0}
  BY WidthAssumption
<1> DEFINE T == {h \in 0..W : \A q \in Bit : q >= h => a[q] = 0}
<1>1. T \in SUBSET Nat /\ W \in T
  BY <1>0 DEF Bit
<1>2. T # {}
  BY <1>1
<1>3. PICK h \in T : \A l \in T : h <= l
  BY <1>1, <1>2, LeastNat
<1>4. h \in 0..W /\ h \in Nat /\ \A q \in Bit : q >= h => a[q] = 0
  BY <1>1, <1>3
<1>5. h > 0 => a[h - 1] = 1
  <2> SUFFICES ASSUME h > 0 PROVE a[h - 1] = 1
    OBVIOUS
  <2>1. h - 1 \in 0..W /\ h - 1 \in Bit /\ ~(h <= h - 1)
    BY <1>0, <1>4 DEF Bit
  <2>2. h - 1 \notin T
    BY <1>3, <2>1
  <2>3. PICK q \in Bit : q >= h - 1 /\ a[q] # 0
    BY <2>1, <2>2
  <2>4. q = h - 1
    BY <1>4, <2>3 DEF Bit
  <2> QED
    BY <2>3, <2>4 DEF Word
<1> QED
  BY <1>4, <1>5 DEF Significant

(* The digits of a number that is not negative. *)
LEMMA DigitsPrinted ==
  ASSUME NEW a \in Word, a[W - 1] = 0, NEW h, Significant(a, h),
         NEW c, NEW f, PrintedFact(f, c),
         \A k \in 0..W, q \in Bit : c[k][q] = IF q + k < W THEN a[q + k] ELSE a[W - 1],
         \A k \in 0..W : c[k] \in Word
  PROVE  f[W] = [d \in 1..h |-> a[h - d]]
<1>0. W \in Nat \ {0} /\ 0 \in Int /\ W \in Int /\ 0 \in 0..W /\ W \in 0..W /\ 0 \in Bit
  BY WidthAssumption DEF Bit
<1>1. h \in 0..W /\ h \in Int /\ h >= 0 /\ (h > 0 => a[h - 1] = 1) /\ \A q \in Bit : q >= h => a[q] = 0
  BY <1>0 DEF Significant
<1>2. ASSUME NEW k \in 0..W
      PROVE  (c[k] = Zero <=> k >= h) /\ (k < W => c[k][0] = a[k])
  <2>1. k < W => c[k][0] = a[k]
    BY <1>0
  <2>2. ASSUME k >= h PROVE c[k] = Zero
    <3>1. \A q \in Bit : c[k][q] = 0
      <4> TAKE q \in Bit
      <4>1. q + k < W => q + k \in Bit /\ q + k >= h
        BY <1>0, <1>1, <2>2 DEF Bit
      <4> QED
        BY <1>1, <4>1
    <3> QED
      BY <3>1 DEF Word, Zero
  <2>3. ASSUME ~(k >= h) PROVE c[k] # Zero
    <3> DEFINE q == (h - 1) - k
    <3>1. q \in Bit /\ q + k < W /\ q + k = h - 1 /\ h > 0
      BY <1>0, <1>1, <2>3 DEF Bit
    <3> HIDE DEF q
    <3>2. c[k][q] = 1
      BY <1>1, <3>1
    <3>3. Zero[q] = 0
      BY <3>1 DEF Zero
    <3> QED
      BY <3>2, <3>3
  <2> QED
    BY <2>1, <2>2, <2>3
<1> DEFINE Len1(k) == IF W - k >= h THEN 0 ELSE h - (W - k)
           P(k) == f[k] = [d \in 1..Len1(k) |-> a[h - d]]
           T == {k \in 0..W : P(k)}
<1>3. 0 \in T
  <2>1. f[0] = << >> /\ Len1(0) = 0
    <3>1. f[0] = << >>
      BY <1>0, PrintedFirst
    <3> QED
      BY <1>0, <1>1, <3>1
  <2>2. << >> = [d \in 1..0 |-> a[h - d]]
    OBVIOUS
  <2> QED
    BY <1>0, <2>1, <2>2
<1>4. ASSUME NEW k \in 0..W, k # 0, k - 1 \in T
      PROVE  k \in T
  <2>1. W - k \in 0..W /\ W - k < W /\ k - 1 \in 0..W /\ P(k - 1)
    BY <1>0, <1>4
  <2>2. f[k] = IF c[W - k] = Zero THEN << >> ELSE f[k - 1] \o <<a[W - k]>>
    <3>1. f[k] = IF c[W - k] = Zero THEN << >> ELSE f[k - 1] \o <<c[W - k][0]>>
      BY <1>4 DEF PrintedFact
    <3> QED
      BY <1>2, <2>1, <3>1
  <2>3. CASE W - k >= h
    <3>1. f[k] = << >> /\ Len1(k) = 0
      BY <1>2, <2>1, <2>2, <2>3
    <3>2. << >> = [d \in 1..0 |-> a[h - d]]
      OBVIOUS
    <3> QED
      BY <3>1, <3>2
  <2>4. CASE ~(W - k >= h)
    <3> DEFINE l == Len1(k - 1)
    <3>1. l \in Nat /\ Len1(k) = l + 1 /\ h - (l + 1) = W - k
      BY <1>0, <1>1, <2>1, <2>4
    <3>2. f[k - 1] = [d \in 1..l |-> a[h - d]]
      BY <2>1
    <3>3. f[k] = f[k - 1] \o <<a[W - k]>>
      BY <1>2, <2>1, <2>2, <2>4
    <3> HIDE DEF l, Len1
    <3> DEFINE s == [d \in 1..l |-> a[h - d]]
               t == [d \in 1..(l + 1) |-> a[h - d]]
               v == a[W - k]
    <3>4. s \o <<v>> = t
      <4>1. \A d \in 1..l : h - d \in Bit
        <5>1. h - (l + 1) >= 0 /\ h <= W /\ h \in Int /\ l \in Nat
          BY <1>1, <2>1, <3>1
        <5> QED
          BY <1>0, <5>1 DEF Bit
      <4>2. W - k \in Bit
        BY <1>0, <2>1 DEF Bit
      <4>3. s \in Seq(0..1) /\ Len(s) = l /\ \A d \in 1..l : s[d] = a[h - d]
        <5>1. \A d \in 1..l : a[h - d] \in 0..1
          BY <4>1 DEF Word
        <5>2. s \in [1..l -> 0..1]
          BY <5>1
        <5> QED
          BY <3>1, <5>2
      <4>4. v \in 0..1
        BY <4>2 DEF Word
      <4>5. t[l + 1] = v /\ \A d \in 1..l : t[d] = a[h - d]
        BY <3>1
      <4>6. DOMAIN t = 1..(l + 1)
        OBVIOUS
      <4>7. t \in Seq(0..1) /\ Len(t) = l + 1
        <5>1. \A d \in 1..(l + 1) : d = l + 1 \/ d \in 1..l
          BY <3>1
        <5>2. \A d \in 1..(l + 1) : t[d] \in 0..1
          <6> HIDE DEF t
          <6> QED
            BY <4>3, <4>4, <4>5, <5>1, ElementOfSeq
        <5>3. t \in [1..(l + 1) -> 0..1]
          <6>1. t = [d \in 1..(l + 1) |-> t[d]]
            OBVIOUS
          <6> HIDE DEF t
          <6> QED
            BY <5>2, <6>1
        <5> HIDE DEF t
        <5> QED
          BY <3>1, <5>3
      <4> HIDE DEF s, t, v
      <4>8. s \o <<v>> \in Seq(0..1) /\ Len(s \o <<v>>) = l + 1
            /\ \A d \in 1..(l + 1) : (s \o <<v>>)[d] = IF d <= l THEN s[d] ELSE v
        BY <3>1, <4>3, <4>4
      <4>9. \A d \in 1..(l + 1) : (s \o <<v>>)[d] = t[d]
        <5> TAKE d \in 1..(l + 1)
        <5>1. CASE d <= l
          <6>1. d \in 1..l
            BY <3>1, <5>1
          <6> QED
            BY <4>3, <4>5, <4>8, <5>1, <6>1
        <5>2. CASE ~(d <= l)
          <6>1. d = l + 1
            BY <3>1, <5>2
          <6> QED
            BY <4>5, <4>8, <5>2, <6>1
        <5> QED
          BY <5>1, <5>2
      <4> QED
        BY <4>7, <4>8, <4>9, SeqEqual
    <3> QED
      BY <3>1, <3>2, <3>3, <3>4
  <2> QED
    BY <2>3, <2>4
<1>5. W \in T
  <2> HIDE DEF T
  <2>1. 0..W \subseteq T
    BY <1>0, <1>3, <1>4, Induction
  <2> QED
    BY <1>0, <2>1
<1>6. Len1(W) = h
  BY <1>0, <1>1
<1> QED
  BY <1>5, <1>6

LEMMA DigitsRight ==
  ASSUME NEW a \in Word
  PROVE  LET d == PrintRightBit(a)
         IN /\ a[W - 1] = 1 <=> d = Endless
            /\ a[W - 1] = 0 =>
                 /\ d # << >> => d[1] = 1
                 /\ \A q \in Bit : a[q] = IF q < Len(d) THEN d[Len(d) - q] ELSE 0
<1>0. W \in Nat \ {0} /\ W \in 0..W /\ W - 1 \in Bit
  BY WidthAssumption DEF Bit
<1>1. PICK c, f : /\ HalvedFact(c, a) /\ \A k \in 0..W : c[k] \in Word
                  /\ PrintedFact(f, c) /\ f[W] \in Seq(0..1)
                  /\ PrintRightBit(a) = IF c[W] = Zero THEN f[W] ELSE Endless
  BY CallLoop
<1>2. \A k \in 0..W, q \in Bit : c[k][q] = IF q + k < W THEN a[q + k] ELSE a[W - 1]
  BY <1>1, CallShifted
<1>3. a[W - 1] \in 0..1
  BY <1>0 DEF Word
<1>4. c[W] = Zero <=> a[W - 1] = 0
  <2>1. \A q \in Bit : c[W][q] = a[W - 1]
    <3>1. \A q \in Bit : ~(q + W < W)
      BY <1>0 DEF Bit
    <3> QED
      BY <1>0, <1>2, <3>1
  <2>2. \A q \in Bit : Zero[q] = 0
    BY DEF Zero
  <2>3. c[W] = Zero => a[W - 1] = 0
    BY <1>0, <2>1, <2>2
  <2>4. a[W - 1] = 0 => c[W] = Zero
    <3> SUFFICES ASSUME a[W - 1] = 0 PROVE c[W] = Zero
      OBVIOUS
    <3>1. c[W] \in Word /\ \A q \in Bit : c[W][q] = 0
      BY <1>0, <1>1, <2>1
    <3> QED
      BY <3>1 DEF Word, Zero
  <2> QED
    BY <2>3, <2>4
<1>5. f[W] # Endless
  <2>1. ASSUME f[W] = <<-1>> PROVE FALSE
    <3>1. f[W][1] = -1 /\ Len(f[W]) = 1
      BY <2>1
    <3>2. f[W][1] \in 0..1
      BY <1>1, <3>1, ElementOfSeq
    <3> QED
      BY <3>1, <3>2
  <2> QED
    BY <2>1 DEF Endless
<1>6. ASSUME a[W - 1] = 0
      PROVE  /\ f[W] # << >> => f[W][1] = 1
             /\ \A q \in Bit : a[q] = IF q < Len(f[W]) THEN f[W][Len(f[W]) - q] ELSE 0
  <2>1. PICK h : Significant(a, h)
    BY SomeSignificant
  <2>2. f[W] = [d \in 1..h |-> a[h - d]]
    BY <1>1, <1>2, <1>6, <2>1, DigitsPrinted
  <2>3. h \in 0..W /\ h \in Nat /\ (h > 0 => a[h - 1] = 1) /\ \A q \in Bit : q >= h => a[q] = 0
    BY <1>0, <2>1 DEF Significant
  <2>4. Len(f[W]) = h
    <3>1. DOMAIN f[W] = 1..h
      BY <2>2
    <3> QED
      BY <1>1, <2>3, <3>1, LenProperties
  <2>5. f[W] # << >> => f[W][1] = 1
    <3>1. CASE h = 0
      <4>1. f[W] = << >>
        BY <1>1, <2>4, <3>1, EmptySeq
      <4> QED
        BY <4>1
    <3>2. CASE h # 0
      <4>1. 1 \in 1..h /\ h > 0
        BY <2>3, <3>2
      <4> QED
        BY <2>2, <2>3, <4>1
    <3> QED
      BY <3>1, <3>2
  <2>6. ASSUME NEW q \in Bit
        PROVE  a[q] = IF q < h THEN f[W][h - q] ELSE 0
    <3>1. CASE q < h
      <4>1. h - q \in 1..h /\ h - (h - q) = q
        BY <1>0, <2>3, <3>1 DEF Bit
      <4> QED
        BY <2>2, <3>1, <4>1
    <3>2. CASE ~(q < h)
      <4>1. q >= h
        BY <1>0, <2>3, <3>2 DEF Bit
      <4> QED
        BY <2>3, <3>2, <4>1
    <3> QED
      BY <3>1, <3>2
  <2> QED
    BY <2>4, <2>5, <2>6
<1> QED
  BY <1>1, <1>3, <1>4, <1>5, <1>6

-----------------------------------------------------------------------------
(* The run of the programs. *)

BitsInv ==
  /\ args \in [x : Word, y : Word, p : Bit, n : Bit]
  /\ results # << >> => results =
       [get     |-> GetBits(args.x, args.p, args.n),
        set     |-> IF args.n <= args.p THEN SetBits(args.x, args.p, args.n, args.y) ELSE args.x,
        count   |-> BitCount(args.x),
        printed |-> PrintRightBit(args.x)]

LEMMA BitsInvHolds == BitsSpec => []BitsInv
<1>1. BitsInit => BitsInv
  BY DEF BitsInit, BitsInv
<1>2. BitsInv /\ [RunBits]_<<args, results>> => BitsInv'
  <2> SUFFICES ASSUME BitsInv, [RunBits]_<<args, results>> PROVE BitsInv'
    OBVIOUS
  <2>1. CASE RunBits
    BY <2>1 DEF RunBits, BitsInv
  <2>2. CASE UNCHANGED <<args, results>>
    BY <2>2 DEF BitsInv
  <2> QED
    BY <2>1, <2>2
<1> QED
  BY <1>1, <1>2, PTL DEF BitsSpec

(* getbits and setbits read and write the fields they are for, for words   *)
(* of every width and all fields that fit.                                 *)
THEOREM Fields == BitsSpec => []FieldsAgree
<1>1. BitsInv => FieldsAgree
  <2> SUFFICES ASSUME BitsInv, results # << >> PROVE FieldsAgree
    BY DEF FieldsAgree
  <2> DEFINE x == args.x  y == args.y  p == args.p  n == args.n
             get == results.get
             set == results.set
  <2>1. /\ x \in Word /\ y \in Word /\ p \in Bit /\ n \in Bit
        /\ get = GetBits(x, p, n)
        /\ n <= p => set = SetBits(x, p, n, y)
    BY DEF BitsInv
  <2> HIDE DEF x, y, p, n, get, set
  <2>2. W \in Nat \ {0} /\ p \in Int /\ n \in Int
    BY <2>1, WidthAssumption DEF Bit
  <2>3. ASSUME n <= p, NEW q \in Bit
        PROVE  /\ get[q] = IF q < n THEN x[p - n + 1 + q] ELSE 0
               /\ set[q] = IF q \in (p - n)..(p - 1) THEN y[q - (p - n)] ELSE x[q]
    <3>0. x \in Word /\ y \in Word /\ p \in Bit /\ n \in Bit
      BY <2>1
    <3>1. GetBits(x, p, n)[q] = IF q < n THEN x[p - n + 1 + q] ELSE 0
      BY <2>3, <3>0, GetField
    <3>2. SetBits(x, p, n, y)[q] = IF q \in (p - n)..(p - 1) THEN y[q - (p - n)] ELSE x[q]
      BY <2>3, <3>0, SetField
    <3>3. get[q] = IF q < n THEN x[p - n + 1 + q] ELSE 0
      BY <2>1, <3>1
    <3>4. set[q] = IF q \in (p - n)..(p - 1) THEN y[q - (p - n)] ELSE x[q]
      BY <2>1, <2>3, <3>2
    <3> QED
      BY <3>3, <3>4
  <2>4. ASSUME n < p, NEW q \in Bit
        PROVE  GetBits(set, p - 1, n)[q] = IF q < n THEN y[q] ELSE 0
    <3> DEFINE r == p - 1
    <3>1. r \in Bit /\ n <= r /\ n <= p /\ r - n + 1 = p - n
      BY <2>1, <2>2, <2>4 DEF Bit
    <3>2. set \in Word
      BY <2>1, <3>1, SetField
    <3> HIDE DEF r
    <3>3. GetBits(set, r, n)[q] = IF q < n THEN set[r - n + 1 + q] ELSE 0
      BY <2>1, <3>1, <3>2, GetField
    <3>4. ASSUME q < n PROVE set[r - n + 1 + q] = y[q]
      <4> DEFINE k == (p - n) + q
      <4>1. /\ k \in Bit /\ k \in (p - n)..(p - 1) /\ k - (p - n) = q
            /\ r - n + 1 + q = k
        BY <2>1, <2>2, <2>4, <3>1, <3>4 DEF Bit
      <4> HIDE DEF k
      <4>2. set[k] = IF k \in (p - n)..(p - 1) THEN y[k - (p - n)] ELSE x[k]
        BY <2>3, <3>1, <4>1
      <4> QED
        BY <4>1, <4>2
    <3> QED
      BY <3>3, <3>4 DEF r
  <2>5. n > p => get = Zero
    BY <2>1, GetField
  <2> QED
    BY <2>3, <2>4, <2>5 DEF FieldsAgree, x, y, p, n, get, set
<1> QED
  BY <1>1, BitsInvHolds, PTL

(* The loop of bitcount counts the bits that are set, and printrightbit    *)
(* prints exactly the digits of a number that is not negative.             *)
THEOREM Digits == BitsSpec => []CountsAgree
<1>1. BitsInv => CountsAgree
  <2> SUFFICES ASSUME BitsInv, results # << >> PROVE CountsAgree
    BY DEF CountsAgree
  <2> DEFINE x == args.x
             d == results.printed
  <2>1. x \in Word /\ results.count = BitCount(x) /\ d = PrintRightBit(x)
    BY DEF BitsInv
  <2> HIDE DEF x, d
  <2>2. results.count = Cardinality({q \in Bit : x[q] = 1})
    BY <2>1, CountsBits DEF Ones
  <2>3. /\ x[W - 1] = 1 <=> d = Endless
        /\ x[W - 1] = 0 =>
             /\ d # << >> => d[1] = 1
             /\ \A q \in Bit : x[q] = IF q < Len(d) THEN d[Len(d) - q] ELSE 0
    BY <2>1, DigitsRight
  <2> QED
    BY <2>2, <2>3 DEF CountsAgree, x, d
<1> QED
  BY <1>1, BitsInvHolds, PTL

--------------------------------------------------------------------------------
(* Tree: who is called by whom, and what the nodes of finished calls hold. *)
Caller == [n : Node(traversals), nodeindex : Node(traversals), end : Node(traversals),
           child : {"left", "right"}]

Cell == [data : Int, left : Node(traversals) \cup {NULL}, right : Node(traversals) \cup {NULL}]

TreeTypeOK ==
  /\ traversals \in TreeInputs
  /\ phase \in {"call", "return", "print", "done", "killed"}
  /\ call \in [start : Int, end : Int]
  /\ calls \in Seq(Caller)
  /\ preindex \in Int
  /\ value \in Node(traversals) \cup {NULL}
  /\ heap \in [Node(traversals) -> Cell]
  /\ lost \subseteq Node(traversals)
  /\ tree \in Node(traversals) \cup {NULL}
  /\ walk \in Seq(Node(traversals))
  /\ text \in Seq(Int)

(* The range and the node of the call that c makes, of the k-th call, and  *)
(* of the running one.                                                     *)
CallBy(c) ==
  IF c.child = "left"
  THEN [start |-> traversals.first[c.n], end |-> traversals.at[c.n] - 1,
        node |-> LeftNode(c.n)]
  ELSE [start |-> traversals.at[c.n] + 1, end |-> traversals.last[c.n],
        node |-> RightNode(traversals, c.n)]

CallAt(k) ==
  IF k = 1 THEN [start |-> 0, end |-> traversals.n - 1, node |-> 0] ELSE CallBy(calls[k - 1])

Running == CallAt(Len(calls) + 1)

(* The subtree of node v on one side is built, and is as it should be.     *)
LeftDone(v) ==
  heap[v].left = LeftKept(v) /\ (HasLeft(traversals, v) => LeftNode(v) < preindex)
RightDone(v) ==
  heap[v].right = RightKept(v) /\ (HasRight(traversals, v) => RightNode(traversals, v) < preindex)

(* Each call ranges over the subtree of its node.                          *)
CallOK(k, v) ==
  /\ CallAt(k) = [start |-> traversals.first[v], end |-> traversals.last[v], node |-> v]
  /\ calls[k].nodeindex = traversals.at[v] /\ calls[k].end = traversals.last[v]
  /\ v \notin lost /\ v < preindex
  /\ calls[k].child = "right" => LeftDone(v)

CallsOK == \A k \in 1..Len(calls) : CallOK(k, calls[k].n)

(* preindex is at the node of the running call before it, and behind its   *)
(* subtree after it.                                                       *)
PreindexOK ==
  LET r == Running
  IN /\ phase = "call" =>
          call.start = r.start /\ call.end = r.end /\ preindex = r.node
     /\ phase = "return" =>
          /\ preindex = r.node + (r.end - r.start + 1)
          /\ value = IF r.start > r.end THEN NULL ELSE Kept(r.node)

(* What the calls have still to do at node v. *)
LeftDue(v)  == \E k \in 1..Len(calls) : calls[k].n = v /\ calls[k].child = "left"
RightDue(v) == \E k \in 1..Len(calls) : calls[k].n = v

HeapOK ==
  \A v \in Node(traversals) :
    v < preindex /\ v \notin lost =>
      /\ heap[v].data = traversals.pre[v]
      /\ LeftDone(v) \/ LeftDue(v)
      /\ RightDone(v) \/ RightDue(v)

LostOK ==
  /\ \A v \in lost : v < preindex /\ (phase # "killed" => IsLeaf(traversals, v))
  /\ phase = "killed" => \E v \in lost : ~IsLeaf(traversals, v)

BuiltOK ==
  phase \in {"print", "done"} => calls = << >> /\ preindex = traversals.n /\ tree = Kept(0)

(* The k-th caller of printInorder has its node and the right subtree left *)
(* to print, up to the node of the caller below it.                        *)
EndOf(k) == IF k = 0 THEN traversals.n ELSE traversals.at[walk[k]]

WalkOK ==
  /\ phase \in {"call", "return"} => walk = << >> /\ text = << >>
  /\ phase = "print" =>
       /\ \A k \in 1..Len(walk) :
            walk[k] \notin lost /\ traversals.last[walk[k]] + 1 = EndOf(k - 1)
       /\ value = NULL => Shows(text, KeptBelow(EndOf(Len(walk))))
       /\ value # NULL =>
            /\ value \notin lost /\ traversals.last[value] + 1 = EndOf(Len(walk))
            /\ Shows(text, KeptBelow(traversals.first[value]))
  /\ phase = "done" => Shows(text, KeptBelow(traversals.n))

TreeInv ==
  TreeTypeOK /\ CallsOK /\ PreindexOK /\ HeapOK /\ LostOK /\ BuiltOK /\ WalkOK

-------------------------------------------------------------------------------
(* Nodes are numbers, and their subtrees ranges of places.                 *)
LEMMA TreeShape ==
  ASSUME traversals \in TreeInputs
  PROVE  /\ traversals.n \in Nat /\ traversals.n > 0 /\ NULL = -1
         /\ \A v : v \in Node(traversals) <=> v \in Int /\ 0 <= v /\ v < traversals.n
         /\ traversals.in \in [Node(traversals) -> Int]
         /\ traversals.pre \in [Node(traversals) -> Int]
         /\ \A v \in Node(traversals) :
              /\ traversals.at[v] \in Node(traversals)
              /\ traversals.first[v] \in Node(traversals)
              /\ traversals.last[v] \in Node(traversals)
              /\ traversals.first[v] <= traversals.at[v]
              /\ traversals.at[v] <= traversals.last[v]
              /\ traversals.pre[v] = traversals.in[traversals.at[v]]
         /\ \A v, w \in Node(traversals) : v # w => traversals.at[v] # traversals.at[w]
<1>1. /\ traversals.n \in Nat \ {0} /\ IsTree(traversals)
      /\ traversals.in \in [Node(traversals) -> Int]
      /\ traversals.pre \in [Node(traversals) -> Int]
      /\ {traversals.at, traversals.first, traversals.last}
           \subseteq [Node(traversals) -> Node(traversals)]
      /\ \A v, w \in Node(traversals) : v # w => traversals.pre[v] # traversals.pre[w]
  BY TreesAssumption
<1>2. /\ traversals.at \in [Node(traversals) -> Node(traversals)]
      /\ traversals.first \in [Node(traversals) -> Node(traversals)]
      /\ traversals.last \in [Node(traversals) -> Node(traversals)]
  BY <1>1
<1>3. \A v \in Node(traversals) :
        /\ traversals.first[v] <= traversals.at[v]
        /\ traversals.at[v] <= traversals.last[v]
        /\ traversals.pre[v] = traversals.in[traversals.at[v]]
  BY <1>1 DEF IsTree
<1>4. \A v : v \in Node(traversals) <=> v \in Int /\ 0 <= v /\ v < traversals.n
  BY <1>1 DEF Node
<1>5. NULL = -1
  BY DEF NULL
<1>6. \A v, w \in Node(traversals) : v # w => traversals.at[v] # traversals.at[w]
  BY <1>1, <1>3
<1>7. \A v \in Node(traversals) :
        /\ traversals.at[v] \in Node(traversals)
        /\ traversals.first[v] \in Node(traversals)
        /\ traversals.last[v] \in Node(traversals)
  BY <1>2
<1>8. traversals.n \in Nat /\ traversals.n > 0
  BY <1>1
<1>9. \A v \in Node(traversals) :
        /\ traversals.at[v] \in Node(traversals)
        /\ traversals.first[v] \in Node(traversals)
        /\ traversals.last[v] \in Node(traversals)
        /\ traversals.first[v] <= traversals.at[v]
        /\ traversals.at[v] <= traversals.last[v]
        /\ traversals.pre[v] = traversals.in[traversals.at[v]]
  BY <1>3, <1>7
<1> QED
  BY <1>1, <1>4, <1>5, <1>6, <1>8, <1>9

(* The children of a node. *)
LEMMA TreeChildren ==
  ASSUME traversals \in TreeInputs, NEW v \in Node(traversals)
  PROVE  /\ LeftNode(v) \in Int /\ RightNode(traversals, v) \in Int
         /\ LeftNode(v) = v + 1
         /\ RightNode(traversals, v) = v + 1 + traversals.at[v] - traversals.first[v]
         /\ HasLeft(traversals, v) <=> traversals.first[v] < traversals.at[v]
         /\ HasRight(traversals, v) <=> traversals.at[v] < traversals.last[v]
         /\ IsLeaf(traversals, v) <=> traversals.first[v] = traversals.last[v]
         /\ HasLeft(traversals, v) =>
              /\ LeftNode(v) \in Node(traversals)
              /\ traversals.first[LeftNode(v)] = traversals.first[v]
              /\ traversals.last[LeftNode(v)] = traversals.at[v] - 1
         /\ HasRight(traversals, v) =>
              /\ RightNode(traversals, v) \in Node(traversals)
              /\ traversals.first[RightNode(traversals, v)] = traversals.at[v] + 1
              /\ traversals.last[RightNode(traversals, v)] = traversals.last[v]
<1>1. IsTree(traversals)
  BY TreesAssumption
<1>2. /\ HasLeft(traversals, v) =>
           Spans(traversals, LeftNode(v), traversals.first[v], traversals.at[v] - 1)
      /\ HasRight(traversals, v) =>
           Spans(traversals, RightNode(traversals, v), traversals.at[v] + 1, traversals.last[v])
  BY <1>1 DEF IsTree
<1>3. /\ v \in Int /\ traversals.at[v] \in Int /\ traversals.first[v] \in Int /\ traversals.last[v] \in Int
      /\ traversals.first[v] <= traversals.at[v] /\ traversals.at[v] <= traversals.last[v]
  BY TreeShape
<1>4. /\ HasLeft(traversals, v) <=> traversals.first[v] < traversals.at[v]
      /\ HasRight(traversals, v) <=> traversals.at[v] < traversals.last[v]
      /\ IsLeaf(traversals, v) <=> traversals.first[v] = traversals.last[v]
  BY <1>3 DEF HasLeft, HasRight, IsLeaf
<1>5. /\ LeftNode(v) \in Int /\ RightNode(traversals, v) \in Int
      /\ LeftNode(v) = v + 1
      /\ RightNode(traversals, v) = v + 1 + traversals.at[v] - traversals.first[v]
  BY <1>3 DEF LeftNode, RightNode
<1> QED
  BY <1>2, <1>4, <1>5 DEF Spans

(* The whole tree is that of node 0. *)
LEMMA TreeRoot ==
  ASSUME traversals \in TreeInputs
  PROVE  /\ 0 \in Node(traversals)
         /\ traversals.first[0] = 0 /\ traversals.last[0] = traversals.n - 1
<1>1. IsTree(traversals)
  BY TreesAssumption
<1> QED
  BY <1>1 DEF IsTree, Spans

(* The running call is on an empty range, or on the subtree of its node.   *)
LEMMA RunningRange ==
  ASSUME TreeTypeOK, CallsOK
  PROVE  /\ Running = [start |-> Running.start, end |-> Running.end, node |-> Running.node]
         /\ Running.start \in Int /\ Running.end \in Int /\ Running.node \in Int
         /\ Running.start <= Running.end + 1
         /\ Running.start <= Running.end =>
              /\ Running.node \in Node(traversals)
              /\ traversals.first[Running.node] = Running.start
              /\ traversals.last[Running.node] = Running.end
<1>1. traversals \in TreeInputs /\ calls \in Seq(Caller) /\ Len(calls) \in Nat
  BY DEF TreeTypeOK
<1>2. CASE Len(calls) = 0
  <2>1. Running = [start |-> 0, end |-> traversals.n - 1, node |-> 0]
    BY <1>2 DEF Running, CallAt
  <2> QED
    BY <1>1, <2>1, TreeRoot, TreeShape
<1>3. CASE Len(calls) > 0
  <2> DEFINE c == calls[Len(calls)]
             v == c.n
  <2>1. Running = CallBy(c)
    BY <1>1, <1>3 DEF Running, CallAt
  <2>2. c \in Caller
    BY <1>1, <1>3
  <2>3. v \in Node(traversals) /\ c.child \in {"left", "right"}
    BY <2>2 DEF Caller
  <2> HIDE DEF c
  <2>4. /\ v \in Int /\ traversals.first[v] \in Int /\ traversals.at[v] \in Int
        /\ traversals.last[v] \in Int
        /\ traversals.first[v] <= traversals.at[v] /\ traversals.at[v] <= traversals.last[v]
    BY <1>1, <2>3, TreeShape
  <2>5. CASE c.child = "left"
    <3>1. Running = [start |-> traversals.first[v], end |-> traversals.at[v] - 1, node |-> LeftNode(v)]
      BY <2>1, <2>5 DEF CallBy
    <3>2. /\ Running.start = traversals.first[v] /\ Running.end = traversals.at[v] - 1
          /\ Running.node = LeftNode(v)
      BY <3>1
    <3>3. Running.node \in Int
      BY <1>1, <2>3, <3>2, TreeChildren
    <3>4. Running.start <= Running.end => HasLeft(traversals, v)
      BY <2>4, <3>2 DEF HasLeft
    <3>5. HasLeft(traversals, v) =>
            Spans(traversals, LeftNode(v), traversals.first[v], traversals.at[v] - 1)
      BY <1>1, <2>3, TreeChildren DEF Spans
    <3> QED
      BY <2>4, <3>1, <3>2, <3>3, <3>4, <3>5 DEF Spans
  <2>6. CASE c.child = "right"
    <3>1. Running = [start |-> traversals.at[v] + 1, end |-> traversals.last[v],
                     node |-> RightNode(traversals, v)]
      BY <2>1, <2>6 DEF CallBy
    <3>2. /\ Running.start = traversals.at[v] + 1 /\ Running.end = traversals.last[v]
          /\ Running.node = RightNode(traversals, v)
      BY <3>1
    <3>3. Running.node \in Int
      BY <1>1, <2>3, <3>2, TreeChildren
    <3>4. Running.start <= Running.end => HasRight(traversals, v)
      BY <2>4, <3>2 DEF HasRight
    <3>5. HasRight(traversals, v) =>
            Spans(traversals, RightNode(traversals, v), traversals.at[v] + 1, traversals.last[v])
      BY <1>1, <2>3, TreeChildren DEF Spans
    <3> QED
      BY <2>4, <3>1, <3>2, <3>3, <3>4, <3>5 DEF Spans
  <2> QED
    BY <2>3, <2>5, <2>6
<1> QED
  BY <1>1, <1>2, <1>3

(* What is built stays built while the nodes that are there stay. *)
LEMMA DoneStays ==
  ASSUME TreeTypeOK, NEW v \in Node(traversals), UNCHANGED traversals,
         preindex' \in Int, preindex <= preindex',
         \A w : w < preindex => (w \in lost' <=> w \in lost)
  PROVE  /\ LeftDone(v) /\ heap'[v].left = heap[v].left => LeftDone(v)'
         /\ RightDone(v) /\ heap'[v].right = heap[v].right => RightDone(v)'
<1>1. traversals \in TreeInputs /\ preindex \in Int
  BY DEF TreeTypeOK
<1>2. LeftNode(v) \in Int /\ RightNode(traversals, v) \in Int
  BY <1>1, TreeChildren
<1>3. LeftNode(v) < preindex => Kept(LeftNode(v))' = Kept(LeftNode(v)) /\ LeftNode(v) < preindex'
  BY <1>1, <1>2 DEF Kept, LeftNode
<1>4. RightNode(traversals, v) < preindex =>
        Kept(RightNode(traversals, v))' = Kept(RightNode(traversals, v)) /\ RightNode(traversals, v) < preindex'
  BY <1>1, <1>2 DEF Kept, RightNode
<1>5. ASSUME LeftDone(v), heap'[v].left = heap[v].left PROVE LeftDone(v)'
  BY <1>3, <1>5 DEF LeftDone, LeftKept, HasLeft, LeftNode
<1>6. ASSUME RightDone(v), heap'[v].right = heap[v].right PROVE RightDone(v)'
  BY <1>4, <1>6 DEF RightDone, RightKept, HasRight, RightNode
<1> QED
  BY <1>5, <1>6

(* The calls below a changed one are what they were. *)
LEMMA CallAtStays ==
  ASSUME UNCHANGED traversals, NEW k \in Int,
         k # 1 => calls'[k - 1].n = calls[k - 1].n /\ calls'[k - 1].child = calls[k - 1].child
  PROVE  CallAt(k)' = CallAt(k)
BY DEF CallAt, CallBy, LeftNode, RightNode

(* The calls that are OK after a step, one node at a time. *)
LEMMA CallsOKNext ==
  ASSUME \A k \in 1..Len(calls') : \A v : v = calls'[k].n => CallOK(k, v)'
  PROVE  CallsOK'
<1> SUFFICES ASSUME NEW k \in 1..Len(calls') PROVE CallOK(k, calls[k].n)'
  BY DEF CallsOK
<1>1. PICK v : v = calls'[k].n
  OBVIOUS
<1>2. CallOK(k, v)'
  BY <1>1
<1> QED
  BY <1>1, <1>2 DEF CallOK, LeftDone, LeftKept, Kept, HasLeft, LeftNode

(* A call whose node and range stay. *)
LEMMA CallOKStays ==
  ASSUME UNCHANGED traversals, CallsOK, NEW k \in 1..Len(calls), NEW v, v = calls[k].n,
         CallAt(k)' = CallAt(k),
         calls'[k].nodeindex = calls[k].nodeindex, calls'[k].end = calls[k].end,
         v \notin lost', v < preindex', calls'[k].child = "right" => LeftDone(v)'
  PROVE  CallOK(k, v)'
<1>1. CallOK(k, calls[k].n)
  BY DEF CallsOK
<1>2. /\ CallAt(k) = [start |-> traversals.first[v], end |-> traversals.last[v], node |-> v]
      /\ calls[k].nodeindex = traversals.at[v] /\ calls[k].end = traversals.last[v]
  BY <1>1 DEF CallOK
<1> QED
  BY <1>2 DEF CallOK

BuildOK == CallsOK /\ PreindexOK /\ HeapOK /\ LostOK

(* An empty range has no tree. *)
LEMMA StepEmptyRange == TreeTypeOK /\ BuildOK /\ EmptyRange => BuildOK'
<1> SUFFICES ASSUME TreeTypeOK, BuildOK, EmptyRange PROVE BuildOK'
  OBVIOUS
<1>1. /\ phase = "call" /\ phase' = "return" /\ value' = NULL /\ call.start > call.end
      /\ UNCHANGED <<traversals, calls, preindex, heap, lost>>
  BY DEF EmptyRange
<1>2. \A k : CallAt(k)' = CallAt(k)
  BY <1>1 DEF CallAt, CallBy, LeftNode, RightNode
<1>3. \A v : LeftDone(v)' = LeftDone(v) /\ RightDone(v)' = RightDone(v)
  BY <1>1 DEF LeftDone, RightDone, LeftKept, RightKept, Kept, HasLeft, HasRight, LeftNode, RightNode
<1>4. CallsOK'
  BY <1>1, <1>2, <1>3 DEF BuildOK, CallsOK, CallOK
<1>5. PreindexOK'
  <2>1. Running' = Running
    BY <1>1, <1>2 DEF Running
  <2>2. /\ Running.start \in Int /\ Running.end \in Int /\ Running.node \in Int
        /\ Running.start <= Running.end + 1
    BY RunningRange DEF BuildOK
  <2>3. call.start = Running.start /\ call.end = Running.end /\ preindex = Running.node
    BY <1>1 DEF BuildOK, PreindexOK
  <2>4. preindex' = Running.node + (Running.end - Running.start + 1) /\ Running.start > Running.end
    BY <1>1, <2>2, <2>3
  <2> QED
    BY <1>1, <2>1, <2>4 DEF PreindexOK
<1>6. HeapOK'
  BY <1>1, <1>3 DEF BuildOK, HeapOK, LeftDue, RightDue, Node
<1>7. LostOK'
  BY <1>1 DEF BuildOK, LostOK, IsLeaf, HasLeft, HasRight
<1> QED
  BY <1>4, <1>5, <1>6, <1>7 DEF BuildOK

(* The node that a call on a range that is not empty creates, or does not. *)
LEMMA Created ==
  ASSUME TreeTypeOK, BuildOK, phase = "call", call.start <= call.end,
         NEW m, create_node(m), UNCHANGED traversals
  PROVE  /\ preindex \in Node(traversals) /\ preindex \in Int /\ preindex' = preindex + 1
         /\ Running.node = preindex
         /\ Running.start = call.start /\ Running.end = call.end
         /\ traversals.first[preindex] = call.start /\ traversals.last[preindex] = call.end
         /\ m = NULL \/ m = preindex
         /\ m = NULL => lost' = lost \cup {preindex} /\ heap' = heap
         /\ m # NULL => m = preindex /\ lost' = lost /\ heap'[preindex] =
              [data |-> traversals.pre[preindex], left |-> NULL, right |-> NULL]
         /\ \A v \in Node(traversals) : v # preindex => heap'[v] = heap[v]
         /\ \A w : w < preindex => (w \in lost' <=> w \in lost)
         /\ \A w \in lost : w \in Int /\ w < preindex
         /\ \A v \in Node(traversals) : v < preindex' => v \in Int /\ (v < preindex \/ v = preindex)
<1>1. call.start = Running.start /\ call.end = Running.end /\ preindex = Running.node
  BY DEF BuildOK, PreindexOK
<1>2. /\ preindex \in Node(traversals)
      /\ traversals.first[preindex] = call.start /\ traversals.last[preindex] = call.end
  BY <1>1, RunningRange DEF BuildOK
<1>3. /\ traversals \in TreeInputs /\ heap \in [Node(traversals) -> Cell]
      /\ lost \subseteq Node(traversals)
  BY DEF TreeTypeOK
<1>4. preindex \in Int /\ preindex # NULL /\ \A v \in Node(traversals) : v \in Int
  BY <1>2, <1>3, TreeShape
<1>5. preindex' = preindex + 1
  BY DEF create_node
<1>6. \/ /\ m = preindex /\ lost' = lost
         /\ heap' = [heap EXCEPT ![m] =
                       [data |-> traversals.pre[m], left |-> NULL, right |-> NULL]]
      \/ m = NULL /\ lost' = lost \cup {preindex} /\ heap' = heap
  BY DEF create_node
<1>7. \A w \in lost : w \in Int /\ w < preindex
  BY <1>3, <1>4 DEF BuildOK, LostOK
<1>8. m # NULL => m = preindex /\ lost' = lost /\ heap'[preindex] =
              [data |-> traversals.pre[preindex], left |-> NULL, right |-> NULL]
  BY <1>2, <1>3, <1>6
<1>9. m = NULL => lost' = lost \cup {preindex} /\ heap' = heap
  BY <1>4, <1>6
<1>10. \A v \in Node(traversals) : v # preindex => heap'[v] = heap[v]
  BY <1>3, <1>6
<1>11. \A w : w < preindex => (w \in lost' <=> w \in lost)
  BY <1>4, <1>8, <1>9
<1>12. \A v \in Node(traversals) : v < preindex' => v \in Int /\ (v < preindex \/ v = preindex)
  BY <1>4, <1>5
<1> QED
  BY <1>1, <1>2, <1>4, <1>5, <1>6, <1>7, <1>8, <1>9, <1>10, <1>11, <1>12

(* Nodes created before stay as they are. *)
LEMMA CreatedBefore ==
  ASSUME TreeTypeOK, BuildOK, phase = "call", call.start <= call.end,
         NEW m, create_node(m), UNCHANGED traversals,
         NEW v \in Node(traversals), v < preindex
  PROVE  (LeftDone(v) => LeftDone(v)') /\ (RightDone(v) => RightDone(v)')
<1>1. preindex \in Int /\ preindex' = preindex + 1 /\ \A w : w < preindex => (w \in lost' <=> w \in lost)
  BY Created
<1>2. heap'[v] = heap[v]
  BY Created
<1>3. preindex' \in Int /\ preindex <= preindex'
  BY <1>1
<1> QED
  BY <1>1, <1>2, <1>3, DoneStays

(* A leaf is there, or lost for good. *)
LEMMA StepCreateLeaf == TreeTypeOK /\ BuildOK /\ CreateLeaf => BuildOK'
<1> SUFFICES ASSUME TreeTypeOK, BuildOK, CreateLeaf PROVE BuildOK'
  OBVIOUS
<1>1. /\ phase = "call" /\ phase' = "return" /\ call.start = call.end
      /\ UNCHANGED <<traversals, calls>>
  BY DEF CreateLeaf
<1>2. PICK m : create_node(m) /\ value' = m
  BY DEF CreateLeaf
<1>3. traversals \in TreeInputs /\ call.start \in Int /\ call.end \in Int /\ call.start <= call.end
  BY <1>1 DEF TreeTypeOK
<1>4. preindex \in Node(traversals) /\ preindex \in Int /\ preindex' = preindex + 1
  BY <1>1, <1>2, <1>3, Created
<1>5. IsLeaf(traversals, preindex) /\ ~HasLeft(traversals, preindex) /\ ~HasRight(traversals, preindex)
  <2>1. IsLeaf(traversals, preindex)
    BY <1>1, <1>2, <1>3, <1>4, Created, TreeChildren
  <2> QED
    BY <2>1 DEF IsLeaf
<1>6. \A k : CallAt(k)' = CallAt(k)
  BY <1>1 DEF CallAt, CallBy, LeftNode, RightNode
<1>7. \A v \in Node(traversals) :
        v < preindex => (LeftDone(v) => LeftDone(v)') /\ (RightDone(v) => RightDone(v)')
  BY <1>1, <1>2, <1>3, CreatedBefore
<1>8. CallsOK'
  <2> SUFFICES ASSUME NEW k \in 1..Len(calls) PROVE CallOK(k, calls[k].n)'
    BY <1>1 DEF CallsOK
  <2> DEFINE v == calls[k].n
  <2>1. calls[k] \in Caller
    BY DEF TreeTypeOK
  <2>2. v \in Node(traversals) /\ v \in Int
    BY <1>3, <2>1, TreeShape DEF Caller
  <2>3. CallOK(k, v)
    BY DEF BuildOK, CallsOK
  <2>4. v < preindex /\ v \notin lost
    BY <2>3 DEF CallOK
  <2>5. v \notin lost'
    BY <1>1, <1>2, <1>3, <2>4, Created
  <2>6. v < preindex'
    BY <1>4, <2>2, <2>4
  <2> QED
    BY <1>1, <1>6, <1>7, <2>2, <2>3, <2>4, <2>5, <2>6 DEF CallOK
<1>9. PreindexOK'
  <2>1. Running' = Running
    BY <1>1, <1>6 DEF Running
  <2>2. /\ Running.start = call.start /\ Running.end = call.end /\ Running.node = preindex
    BY <1>1, <1>2, <1>3, Created
  <2>3. preindex' = Running.node + (Running.end - Running.start + 1)
    BY <1>1, <1>3, <1>4, <2>2
  <2>4. value' = IF preindex \in lost' THEN NULL ELSE preindex
    <3>1. CASE m = NULL
      BY <1>1, <1>2, <1>3, <3>1, Created
    <3>2. CASE m # NULL
      BY <1>1, <1>2, <1>3, <3>2, Created
    <3> QED
      BY <3>1, <3>2
  <2> QED
    BY <1>1, <1>3, <2>1, <2>2, <2>3, <2>4 DEF PreindexOK, Kept
<1>10. HeapOK'
  <2> SUFFICES ASSUME NEW v \in Node(traversals), v < preindex', v \notin lost'
               PROVE  /\ heap'[v].data = traversals.pre[v]
                      /\ LeftDone(v)' \/ LeftDue(v)'
                      /\ RightDone(v)' \/ RightDue(v)'
    BY <1>1 DEF HeapOK, Node
  <2>1. CASE v < preindex
    <3>1. heap'[v] = heap[v]
      <4>1. v # preindex
        BY <1>4, <2>1
      <4> QED
        BY <1>1, <1>2, <1>3, <4>1, Created
    <3>2. v \notin lost
      BY <1>1, <1>2, <1>3, <2>1, Created
    <3> QED
      BY <1>1, <1>7, <2>1, <3>1, <3>2 DEF BuildOK, HeapOK, LeftDue, RightDue
  <2>2. CASE v = preindex
    <3>1. heap'[v] = [data |-> traversals.pre[v], left |-> NULL, right |-> NULL]
      BY <1>1, <1>2, <1>3, <2>2, Created
    <3> QED
      BY <1>1, <1>5, <2>2, <3>1 DEF LeftDone, RightDone, LeftKept, RightKept, HasLeft, HasRight
  <2> QED
    BY <1>1, <1>2, <1>3, <2>1, <2>2, Created
<1>11. LostOK'
  <2>1. \A w \in lost' : w < preindex' /\ IsLeaf(traversals, w)
    <3> SUFFICES ASSUME NEW w \in lost' PROVE w < preindex' /\ IsLeaf(traversals, w)
      OBVIOUS
    <3>1. w \in lost \/ w = preindex
      BY <1>1, <1>2, <1>3, Created
    <3>2. CASE w \in lost
      <4>1. w \in Int /\ w < preindex
        BY <1>1, <1>2, <1>3, <3>2, Created
      <4> QED
        BY <1>1, <1>4, <3>2, <4>1 DEF BuildOK, LostOK
    <3> QED
      BY <1>4, <1>5, <3>1, <3>2
  <2> QED
    BY <1>1, <2>1 DEF LostOK, IsLeaf, HasLeft, HasRight
<1> QED
  BY <1>8, <1>9, <1>10, <1>11 DEF BuildOK
(* searchindex finds the place of the node it is asked for.                *)
LEMMA FindsNode ==
  ASSUME traversals \in TreeInputs, NEW v \in Node(traversals), NEW end \in Int,
         traversals.at[v] <= end
  PROVE  searchindex(traversals.pre[v], end) = traversals.at[v]
<1> DEFINE data == traversals.pre[v]
           k == traversals.at[v]
           Found(l) == traversals.in[l] = data /\ \A m \in 0..(l - 1) : traversals.in[m] # data
<1>1. /\ k \in Node(traversals) /\ k \in Int /\ 0 <= k
      /\ traversals.in[k] = data
      /\ \A l \in Node(traversals) : l # k => traversals.in[l] # data
      /\ \A l \in Node(traversals) : l \in Int /\ 0 <= l /\ l < traversals.n
      /\ \A l \in Int : 0 <= l /\ l <= k => l \in Node(traversals)
  <2>1. /\ k \in Node(traversals) /\ traversals.in[k] = data
        /\ traversals.n \in Nat
        /\ \A l : l \in Node(traversals) <=> l \in Int /\ 0 <= l /\ l < traversals.n
    BY TreeShape
  <2>2. \A l \in Node(traversals) : l # k => traversals.in[l] # data
    BY <2>1, TreesAssumption
  <2> QED
    BY <2>1, <2>2
<1> HIDE DEF data, k
<1>2. k \in 0..end /\ Found(k)
  BY <1>1 DEF k
<1>3. \A l \in 0..end : Found(l) => l = k
  <2> SUFFICES ASSUME NEW l \in 0..end, Found(l), l # k PROVE FALSE
    OBVIOUS
  <2>1. CASE l < k
    BY <1>1, <2>1
  <2>2. CASE k < l
    BY <1>1, <2>2
  <2> QED
    BY <1>1, <2>1, <2>2
<1>4. (CHOOSE l \in 0..end : Found(l)) = k
  BY <1>2, <1>3
<1> QED
  BY <1>4 DEF searchindex, data, k

(* An inner node calls for its left subtree, or kills the program. *)
LEMMA StepCreateInner == TreeTypeOK /\ BuildOK /\ CreateInner => BuildOK'
<1> SUFFICES ASSUME TreeTypeOK, BuildOK, CreateInner PROVE BuildOK'
  OBVIOUS
<1>1. /\ phase = "call" /\ call.start < call.end /\ UNCHANGED traversals
  BY DEF CreateInner
<1>2. PICK m : /\ create_node(m)
               /\ IF m = NULL THEN phase' = "killed" /\ UNCHANGED <<call, calls>>
                  ELSE LET nodeindex == searchindex(traversals.pre[m], call.end)
                       IN /\ calls' = Append(calls, [n |-> m, nodeindex |-> nodeindex,
                                                     end |-> call.end, child |-> "left"])
                          /\ call' = [start |-> call.start, end |-> nodeindex - 1]
                          /\ UNCHANGED phase
  BY DEF CreateInner
<1>3. traversals \in TreeInputs /\ call.start \in Int /\ call.end \in Int /\ call.start <= call.end
  BY <1>1 DEF TreeTypeOK
<1>4. preindex \in Node(traversals) /\ preindex \in Int /\ preindex' = preindex + 1
  BY <1>1, <1>2, <1>3, Created
<1>5. /\ traversals.first[preindex] = call.start /\ traversals.last[preindex] = call.end
      /\ traversals.at[preindex] \in Int
      /\ traversals.first[preindex] <= traversals.at[preindex]
      /\ traversals.at[preindex] <= traversals.last[preindex]
      /\ ~IsLeaf(traversals, preindex)
  <2>1. traversals.first[preindex] = call.start /\ traversals.last[preindex] = call.end
    BY <1>1, <1>2, <1>3, Created
  <2> QED
    BY <1>1, <1>3, <1>4, <2>1, TreeShape, TreeChildren
<1>6. calls \in Seq(Caller) /\ Len(calls) \in Nat
  BY DEF TreeTypeOK
<1>7. \A v \in Node(traversals) :
        v < preindex => (LeftDone(v) => LeftDone(v)') /\ (RightDone(v) => RightDone(v)')
  BY <1>1, <1>2, <1>3, CreatedBefore
<1>8. \A k \in 1..Len(calls) :
        /\ calls[k].n \in Node(traversals) /\ calls[k].n < preindex
        /\ calls[k].n < preindex' /\ calls[k].n \notin lost'
  <2> SUFFICES ASSUME NEW k \in 1..Len(calls)
               PROVE  /\ calls[k].n \in Node(traversals) /\ calls[k].n < preindex
                      /\ calls[k].n < preindex' /\ calls[k].n \notin lost'
    OBVIOUS
  <2>1. calls[k].n \in Node(traversals) /\ calls[k].n \in Int
    <3>1. calls[k] \in Caller
      BY <1>6
    <3> QED
      BY <1>3, <3>1, TreeShape DEF Caller
  <2>2. calls[k].n < preindex /\ calls[k].n \notin lost
    BY DEF BuildOK, CallsOK, CallOK
  <2>3. calls[k].n \notin lost'
    BY <1>1, <1>2, <1>3, <2>2, Created
  <2> QED
    BY <1>4, <2>1, <2>2, <2>3
<1>9. \A w \in lost : w \in Int /\ w < preindex /\ w < preindex' /\ IsLeaf(traversals, w)
  BY <1>1, <1>2, <1>3, <1>4, Created DEF BuildOK, LostOK
<1>10. CASE m = NULL
  <2>1. /\ phase' = "killed" /\ UNCHANGED calls
        /\ lost' = lost \cup {preindex} /\ heap' = heap
    BY <1>1, <1>2, <1>3, <1>10, Created
  <2>2. \A k : CallAt(k)' = CallAt(k)
    BY <1>1, <2>1 DEF CallAt, CallBy, LeftNode, RightNode
  <2>3. CallsOK'
    <3> SUFFICES ASSUME NEW k \in 1..Len(calls'), NEW v, v = calls'[k].n PROVE CallOK(k, v)'
      BY CallsOKNext
    <3>1. k \in 1..Len(calls) /\ v = calls[k].n
      BY <2>1
    <3>2. v \in Node(traversals) /\ v < preindex /\ v < preindex' /\ v \notin lost'
      BY <1>8, <3>1
    <3>3. calls[k].child = "right" => LeftDone(v)
      BY <3>1 DEF BuildOK, CallsOK, CallOK
    <3> QED
      BY <1>1, <1>7, <2>1, <2>2, <3>1, <3>2, <3>3, CallOKStays DEF BuildOK
  <2>4. PreindexOK'
    BY <2>1 DEF PreindexOK
  <2>5. HeapOK'
    <3> SUFFICES ASSUME NEW v \in Node(traversals), v < preindex', v \notin lost'
                 PROVE  /\ heap'[v].data = traversals.pre[v]
                        /\ LeftDone(v)' \/ LeftDue(v)'
                        /\ RightDone(v)' \/ RightDue(v)'
      BY <1>1 DEF HeapOK, Node
    <3>1. v < preindex /\ v \notin lost
      BY <1>1, <1>2, <1>3, <2>1, Created
    <3> QED
      BY <1>1, <1>7, <2>1, <3>1 DEF BuildOK, HeapOK, LeftDue, RightDue
  <2>6. LostOK'
    <3>1. \A w \in lost' : w < preindex'
      BY <1>4, <1>9, <2>1
    <3>2. PICK w : w = preindex
      OBVIOUS
    <3>3. w \in lost' /\ ~IsLeaf(traversals, w)'
      BY <1>1, <1>5, <2>1, <3>2 DEF IsLeaf, HasLeft, HasRight
    <3> QED
      BY <2>1, <3>1, <3>3 DEF LostOK
  <2> QED
    BY <2>3, <2>4, <2>5, <2>6 DEF BuildOK
<1>11. CASE m # NULL
  <2> DEFINE L == Len(calls)
             k0 == searchindex(traversals.pre[m], call.end)
             c == [n |-> m, nodeindex |-> k0, end |-> call.end, child |-> "left"]
  <2>1. /\ m = preindex /\ lost' = lost
        /\ heap'[preindex] = [data |-> traversals.pre[preindex], left |-> NULL, right |-> NULL]
        /\ \A v \in Node(traversals) : v # preindex => heap'[v] = heap[v]
    BY <1>1, <1>2, <1>3, <1>11, Created
  <2>2. k0 = traversals.at[preindex]
    BY <1>3, <1>4, <1>5, <2>1, FindsNode
  <2>3. /\ calls' = Append(calls, c) /\ phase' = "call"
        /\ call' = [start |-> call.start, end |-> k0 - 1]
    BY <1>1, <1>2, <1>11
  <2> HIDE DEF k0
  <2>4. /\ Len(calls') = L + 1 /\ calls'[L + 1] = c
        /\ \A k \in 1..L : calls'[k] = calls[k]
    BY <1>6, <2>3
  <2>5. \A k \in 1..(L + 1) : CallAt(k)' = CallAt(k)
    <3> SUFFICES ASSUME NEW k \in 1..(L + 1) PROVE CallAt(k)' = CallAt(k)
      OBVIOUS
    <3>1. k # 1 => calls'[k - 1] = calls[k - 1]
      BY <1>6, <2>4
    <3> QED
      BY <1>1, <1>6, <3>1, CallAtStays
  <2>6. CallsOK'
    <3> SUFFICES ASSUME NEW k \in 1..Len(calls'), NEW v, v = calls'[k].n PROVE CallOK(k, v)'
      BY CallsOKNext
    <3>1. CASE k \in 1..L
      <4>1. calls'[k] = calls[k] /\ v = calls[k].n /\ CallAt(k)' = CallAt(k)
        BY <1>6, <2>4, <2>5, <3>1
      <4>2. v \in Node(traversals) /\ v < preindex /\ v < preindex' /\ v \notin lost'
        BY <1>8, <3>1, <4>1
      <4>3. calls[k].child = "right" => LeftDone(v)
        BY <3>1, <4>1 DEF BuildOK, CallsOK, CallOK
      <4> QED
        BY <1>1, <1>7, <3>1, <4>1, <4>2, <4>3, CallOKStays DEF BuildOK
    <3>2. CASE k = L + 1
      <4>1. CallAt(k)' = Running
        BY <1>6, <2>5, <3>2 DEF Running
      <4>2. /\ Running = [start |-> Running.start, end |-> Running.end, node |-> Running.node]
            /\ Running.start = call.start /\ Running.end = call.end /\ Running.node = preindex
        <5>1. Running = [start |-> Running.start, end |-> Running.end, node |-> Running.node]
          BY RunningRange DEF BuildOK
        <5> QED
          BY <1>1, <1>2, <1>3, <5>1, Created
      <4>3. /\ v = preindex /\ calls'[k].nodeindex = traversals.at[v]
            /\ calls'[k].end = traversals.last[v] /\ calls'[k].child = "left"
        BY <1>5, <2>1, <2>2, <2>4, <3>2
      <4>4. v \notin lost' /\ v < preindex'
        BY <1>4, <1>9, <2>1, <4>3
      <4>5. CallAt(k)' = [start |-> traversals.first[v], end |-> traversals.last[v], node |-> v]
        BY <1>5, <4>1, <4>2, <4>3
      <4> QED
        BY <1>1, <4>3, <4>4, <4>5 DEF CallOK
    <3> QED
      BY <1>6, <2>4, <3>1, <3>2
  <2>7. PreindexOK'
    <3>1. PICK d : d = c
      OBVIOUS
    <3>2. L + 2 # 1 /\ Len(calls') + 1 = L + 2 /\ calls'[(L + 2) - 1] = d
      BY <1>6, <2>4, <3>1
    <3>3. d.n = preindex /\ d.child = "left"
      BY <2>1, <3>1
    <3>4. Running' = [start |-> traversals.first[preindex], end |-> traversals.at[preindex] - 1,
                      node |-> preindex + 1]
      BY <1>1, <3>2, <3>3 DEF Running, CallAt, CallBy, LeftNode
    <3> QED
      BY <1>4, <1>5, <2>2, <2>3, <3>4 DEF PreindexOK
  <2>8. HeapOK'
    <3> SUFFICES ASSUME NEW v \in Node(traversals), v < preindex', v \notin lost'
                 PROVE  /\ heap'[v].data = traversals.pre[v]
                        /\ LeftDone(v)' \/ LeftDue(v)'
                        /\ RightDone(v)' \/ RightDue(v)'
      BY <1>1 DEF HeapOK, Node
    <3>1. CASE v < preindex
      <4>1. /\ heap'[v] = heap[v] /\ v \notin lost
            /\ heap[v].data = traversals.pre[v]
            /\ LeftDone(v) \/ LeftDue(v)
            /\ RightDone(v) \/ RightDue(v)
        <5>1. v # preindex
          BY <1>4, <3>1
        <5> QED
          BY <2>1, <3>1, <5>1 DEF BuildOK, HeapOK
      <4>2. LeftDue(v) => LeftDue(v)'
        BY <1>6, <2>4 DEF LeftDue
      <4>3. RightDue(v) => RightDue(v)'
        BY <1>6, <2>4 DEF RightDue
      <4> QED
        BY <1>7, <3>1, <4>1, <4>2, <4>3
    <3>2. CASE v = preindex
      <4>1. L + 1 \in 1..Len(calls') /\ calls'[L + 1].n = v /\ calls'[L + 1].child = "left"
        BY <1>6, <2>1, <2>4, <3>2
      <4>2. LeftDue(v)' /\ RightDue(v)'
        BY <4>1 DEF LeftDue, RightDue
      <4> QED
        BY <2>1, <3>2, <4>2
    <3> QED
      BY <1>1, <1>2, <1>3, <3>1, <3>2, Created
  <2>9. LostOK'
    BY <1>1, <1>9, <2>1, <2>3 DEF LostOK, IsLeaf, HasLeft, HasRight
  <2> QED
    BY <2>6, <2>7, <2>8, <2>9 DEF BuildOK
<1> QED
  BY <1>10, <1>11

(* A sequence without its last element. *)
LEMMA WithoutLast ==
  ASSUME NEW S, NEW s \in Seq(S), s # << >>
  PROVE  /\ SubSeq(s, 1, Len(s) - 1) \in Seq(S)
         /\ Len(SubSeq(s, 1, Len(s) - 1)) = Len(s) - 1
         /\ \A k \in 1..(Len(s) - 1) : SubSeq(s, 1, Len(s) - 1)[k] = s[k]
<1> DEFINE n == Len(s) - 1
<1>1. n \in Nat /\ Len(s) = n + 1 /\ \A k \in 1..n : s[k] \in S
  OBVIOUS
<1> HIDE DEF n
<1>2. /\ SubSeq(s, 1, n) \in Seq(S)
      /\ Len(SubSeq(s, 1, n)) = IF 1 <= n THEN n - 1 + 1 ELSE 0
      /\ \A k \in 1..(n - 1 + 1) : SubSeq(s, 1, n)[k] = s[1 + k - 1]
  BY <1>1, SubSeqProperties
<1>3. /\ SubSeq(s, 1, n) \in Seq(S)
      /\ Len(SubSeq(s, 1, n)) = n
      /\ \A k \in 1..n : SubSeq(s, 1, n)[k] = s[k]
  BY <1>1, <1>2
<1> QED
  BY <1>3 DEF n

(* What a step does to the nodes whose subtrees are built. *)
LEMMA HeapOKNext ==
  ASSUME UNCHANGED traversals,
         \A v \in Node(traversals) :
           v < preindex' /\ v \notin lost' =>
             /\ heap'[v].data = traversals.pre[v]
             /\ LeftDone(v)' \/ LeftDue(v)'
             /\ RightDone(v)' \/ RightDue(v)'
  PROVE  HeapOK'
BY DEF HeapOK, Node

(* The caller of the running call, and its node. *)
LEMMA Calling ==
  ASSUME TreeTypeOK, BuildOK, calls # << >>
  PROVE  /\ Len(calls) \in Nat /\ Len(calls) > 0 /\ Top = calls[Len(calls)]
         /\ Top \in Caller /\ Top.n \in Node(traversals) /\ Top.n \in Int
         /\ Top.n \notin lost /\ Top.n < preindex
         /\ Top.nodeindex = traversals.at[Top.n] /\ Top.end = traversals.last[Top.n]
         /\ CallAt(Len(calls)) = [start |-> traversals.first[Top.n],
                                  end |-> traversals.last[Top.n], node |-> Top.n]
         /\ Running = CallBy(Top)
         /\ Top.child = "right" => LeftDone(Top.n)
<1>1. calls \in Seq(Caller) /\ traversals \in TreeInputs
  BY DEF TreeTypeOK
<1>2. Len(calls) \in Nat /\ Len(calls) > 0 /\ Top = calls[Len(calls)] /\ Top \in Caller
  BY <1>1 DEF Top
<1>3. Top.n \in Node(traversals) /\ Top.n \in Int
  BY <1>1, <1>2, TreeShape DEF Caller
<1>4. CallOK(Len(calls), Top.n)
  BY <1>2 DEF BuildOK, CallsOK
<1>5. Running = CallBy(Top)
  BY <1>2 DEF Running, CallAt
<1> QED
  BY <1>2, <1>3, <1>4, <1>5 DEF CallOK

(* The left subtree is done; the right one begins where it ends. *)
LEMMA StepReturnLeft == TreeTypeOK /\ BuildOK /\ ReturnLeft => BuildOK'
<1> SUFFICES ASSUME TreeTypeOK, BuildOK, ReturnLeft PROVE BuildOK'
  OBVIOUS
<1> DEFINE L == Len(calls)
<1>1. /\ phase = "return" /\ phase' = "call" /\ calls # << >> /\ Top.child = "left"
      /\ heap' = [heap EXCEPT ![Top.n].left = value]
      /\ calls' = [calls EXCEPT ![Len(calls)].child = "right"]
      /\ call' = [start |-> Top.nodeindex + 1, end |-> Top.end]
      /\ UNCHANGED <<traversals, preindex, value, lost>>
  BY DEF ReturnLeft
<1>2. /\ traversals \in TreeInputs /\ calls \in Seq(Caller) /\ heap \in [Node(traversals) -> Cell]
      /\ preindex \in Int
  BY DEF TreeTypeOK
<1>3. PICK t : t = Top.n
  OBVIOUS
<1>4. /\ L \in Nat /\ L > 0 /\ Top = calls[L] /\ Top \in Caller
      /\ t \in Node(traversals) /\ t \in Int /\ t \notin lost /\ t < preindex
      /\ Top.nodeindex = traversals.at[t] /\ Top.end = traversals.last[t]
      /\ Running = CallBy(Top)
  BY <1>1, <1>3, Calling
<1>5. Running = [start |-> traversals.first[t], end |-> traversals.at[t] - 1, node |-> LeftNode(t)]
  BY <1>1, <1>3, <1>4 DEF CallBy
<1>6. /\ traversals.first[t] \in Int /\ traversals.at[t] \in Int /\ traversals.last[t] \in Int
      /\ traversals.first[t] <= traversals.at[t] /\ traversals.at[t] <= traversals.last[t]
      /\ LeftNode(t) = t + 1 /\ LeftNode(t) \in Int
      /\ HasLeft(traversals, t) <=> traversals.first[t] < traversals.at[t]
      /\ RightNode(traversals, t) = t + 1 + traversals.at[t] - traversals.first[t]
  BY <1>2, <1>4, TreeShape, TreeChildren
<1>7. /\ preindex = LeftNode(t) + (traversals.at[t] - 1 - traversals.first[t] + 1)
      /\ value = IF traversals.first[t] > traversals.at[t] - 1 THEN NULL ELSE Kept(LeftNode(t))
  BY <1>1, <1>5 DEF BuildOK, PreindexOK
<1>8. value = LeftKept(t) /\ (HasLeft(traversals, t) => LeftNode(t) < preindex)
      /\ preindex = RightNode(traversals, t)
  <2>1. HasLeft(traversals, t) <=> ~(traversals.first[t] > traversals.at[t] - 1)
    BY <1>6
  <2>2. preindex = RightNode(traversals, t) /\ (HasLeft(traversals, t) => LeftNode(t) < preindex)
    <3>1. t \in Int /\ traversals.first[t] \in Int /\ traversals.at[t] \in Int
      BY <1>4, <1>6
    <3>2. /\ LeftNode(t) = t + 1
          /\ RightNode(traversals, t) = t + 1 + traversals.at[t] - traversals.first[t]
          /\ preindex = LeftNode(t) + (traversals.at[t] - 1 - traversals.first[t] + 1)
      BY <1>6, <1>7
    <3>3. preindex = RightNode(traversals, t)
      BY <3>1, <3>2
    <3>4. traversals.first[t] < traversals.at[t] => LeftNode(t) < preindex
      BY <3>1, <3>2
    <3> QED
      BY <1>6, <3>3, <3>4
  <2> QED
    BY <1>7, <2>1, <2>2 DEF LeftKept
<1>9. /\ \A v \in Node(traversals) : v # t => heap'[v] = heap[v]
      /\ heap'[t] = [heap[t] EXCEPT !.left = value]
      /\ heap[t] \in Cell
  BY <1>1, <1>2, <1>3, <1>4
<1>10. heap'[t].left = value /\ heap'[t].right = heap[t].right /\ heap'[t].data = heap[t].data
  BY <1>9 DEF Cell
<1>11. LeftDone(t)'
  BY <1>1, <1>8, <1>10 DEF LeftDone, LeftKept, Kept, HasLeft, LeftNode
<1>12. \A v \in Node(traversals) : (LeftDone(v) => LeftDone(v)') /\ (RightDone(v) => RightDone(v)')
  <2> SUFFICES ASSUME NEW v \in Node(traversals)
               PROVE (LeftDone(v) => LeftDone(v)') /\ (RightDone(v) => RightDone(v)')
    OBVIOUS
  <2>1. preindex' \in Int /\ preindex <= preindex' /\ \A w : w < preindex => (w \in lost' <=> w \in lost)
    BY <1>1, <1>2
  <2>2. RightDone(v) => RightDone(v)'
    <3>1. heap'[v].right = heap[v].right
      BY <1>9, <1>10
    <3> QED
      BY <1>1, <2>1, <3>1, DoneStays
  <2>3. CASE v = t
    BY <1>11, <2>2, <2>3
  <2>4. CASE v # t
    BY <1>1, <1>9, <2>1, <2>2, <2>4, DoneStays
  <2> QED
    BY <2>3, <2>4
<1>13. /\ Len(calls') = L /\ \A k \in 1..(L - 1) : calls'[k] = calls[k]
       /\ calls'[L] = [calls[L] EXCEPT !.child = "right"]
  BY <1>1, <1>2, <1>4
<1>14. /\ calls'[L].n = t /\ calls'[L].nodeindex = calls[L].nodeindex
       /\ calls'[L].end = calls[L].end /\ calls'[L].child = "right"
  BY <1>3, <1>4, <1>13 DEF Caller
<1>20. /\ \A k \in 1..L : /\ calls'[k].n = calls[k].n /\ calls'[k].nodeindex = calls[k].nodeindex
                           /\ calls'[k].end = calls[k].end
       /\ \A k \in 1..L : k # L => calls'[k] = calls[k]
       /\ calls[L].n = t
  <2>1. calls[L].n = t /\ calls'[L].n = calls[L].n
    BY <1>3, <1>4, <1>14
  <2>2. \A k \in 1..L : k # L => calls'[k] = calls[k]
    BY <1>4, <1>13
  <2> QED
    BY <1>14, <2>1, <2>2
<1>15. \A k \in 1..L : CallAt(k)' = CallAt(k)
  <2> SUFFICES ASSUME NEW k \in 1..L PROVE CallAt(k)' = CallAt(k)
    OBVIOUS
  <2>1. k # 1 => calls'[k - 1] = calls[k - 1]
    BY <1>4, <1>13
  <2> QED
    BY <1>1, <1>4, <2>1, CallAtStays
<1>16. CallsOK'
  <2> SUFFICES ASSUME NEW k \in 1..Len(calls'), NEW v, v = calls'[k].n PROVE CallOK(k, v)'
    BY CallsOKNext
  <2>1. /\ k \in 1..Len(calls) /\ v = calls[k].n /\ calls'[k].nodeindex = calls[k].nodeindex
        /\ calls'[k].end = calls[k].end /\ CallAt(k)' = CallAt(k)
        /\ k # L => calls'[k].child = calls[k].child
    BY <1>13, <1>14, <1>15, <1>20
  <2>2. CallOK(k, v)
    BY <2>1 DEF BuildOK, CallsOK
  <2>3. v \in Node(traversals)
    <3>1. calls[k] \in Caller
      BY <1>2, <2>1
    <3> QED
      BY <2>1, <3>1 DEF Caller
  <2>4. calls'[k].child = "right" => LeftDone(v)'
    <3>1. CASE k = L
      BY <1>11, <1>14, <2>1, <3>1
    <3>2. CASE k # L
      BY <1>12, <2>1, <2>2, <2>3, <3>2 DEF CallOK
    <3> QED
      BY <3>1, <3>2
  <2>5. v \notin lost' /\ v < preindex'
    BY <1>1, <2>2 DEF CallOK
  <2> QED
    BY <1>1, <2>1, <2>4, <2>5, CallOKStays DEF BuildOK
<1>17. PreindexOK'
  <2>1. PICK d : d = calls'[L]
    OBVIOUS
  <2>2. L + 1 # 1 /\ Len(calls') + 1 = L + 1 /\ calls'[(L + 1) - 1] = d
    BY <1>4, <1>13, <2>1
  <2>3. d.n = t /\ d.child # "left"
    BY <1>14, <2>1
  <2>4. Running' = [start |-> traversals.at[t] + 1, end |-> traversals.last[t],
                    node |-> RightNode(traversals, t)]
    BY <1>1, <2>2, <2>3 DEF Running, CallAt, CallBy, RightNode
  <2> QED
    BY <1>1, <1>4, <1>8, <2>4 DEF PreindexOK
<1>18. HeapOK'
  <2> SUFFICES ASSUME NEW v \in Node(traversals), v < preindex', v \notin lost'
               PROVE  /\ heap'[v].data = traversals.pre[v]
                      /\ LeftDone(v)' \/ LeftDue(v)'
                      /\ RightDone(v)' \/ RightDue(v)'
    BY <1>1, HeapOKNext
  <2>1. /\ heap[v].data = traversals.pre[v]
        /\ LeftDone(v) \/ LeftDue(v)
        /\ RightDone(v) \/ RightDue(v)
    BY <1>1 DEF BuildOK, HeapOK
  <2>2. heap'[v].data = heap[v].data
    BY <1>9, <1>10
  <2>3. \A k \in 1..L : calls'[k].n = calls[k].n /\ (k # L => calls'[k] = calls[k])
    BY <1>20
  <2>4. RightDue(v) => RightDue(v)'
    BY <1>13, <2>3 DEF RightDue
  <2>5. v # t /\ LeftDue(v) => LeftDue(v)'
    BY <1>3, <1>4, <1>13, <2>3 DEF LeftDue
  <2> QED
    BY <1>11, <1>12, <2>1, <2>2, <2>4, <2>5
<1>19. LostOK'
  BY <1>1 DEF BuildOK, LostOK, IsLeaf, HasLeft, HasRight
<1> QED
  BY <1>16, <1>17, <1>18, <1>19 DEF BuildOK

(* Both subtrees are done, and the node is what its caller gets. *)
LEMMA StepReturnRight == TreeTypeOK /\ BuildOK /\ ReturnRight => BuildOK'
<1> SUFFICES ASSUME TreeTypeOK, BuildOK, ReturnRight PROVE BuildOK'
  OBVIOUS
<1> DEFINE L == Len(calls)
<1>1. /\ phase = "return" /\ phase' = "return" /\ calls # << >> /\ Top.child = "right"
      /\ heap' = [heap EXCEPT ![Top.n].right = value]
      /\ value' = Top.n
      /\ calls' = SubSeq(calls, 1, Len(calls) - 1)
      /\ UNCHANGED <<traversals, preindex, lost>>
  BY DEF ReturnRight, Callers
<1>2. /\ traversals \in TreeInputs /\ calls \in Seq(Caller) /\ heap \in [Node(traversals) -> Cell]
      /\ preindex \in Int
  BY DEF TreeTypeOK
<1>3. PICK t : t = Top.n
  OBVIOUS
<1>4. /\ L \in Nat /\ L > 0 /\ Top = calls[L] /\ Top \in Caller
      /\ t \in Node(traversals) /\ t \in Int /\ t \notin lost /\ t < preindex
      /\ CallAt(L) = [start |-> traversals.first[t], end |-> traversals.last[t], node |-> t]
      /\ Running = CallBy(Top) /\ LeftDone(t)
  BY <1>1, <1>3, Calling
<1>5. Running = [start |-> traversals.at[t] + 1, end |-> traversals.last[t],
                 node |-> RightNode(traversals, t)]
  BY <1>1, <1>3, <1>4 DEF CallBy
<1>6. /\ traversals.first[t] \in Int /\ traversals.at[t] \in Int /\ traversals.last[t] \in Int
      /\ traversals.first[t] <= traversals.at[t] /\ traversals.at[t] <= traversals.last[t]
      /\ HasRight(traversals, t) <=> traversals.at[t] < traversals.last[t]
      /\ RightNode(traversals, t) = t + 1 + traversals.at[t] - traversals.first[t]
  BY <1>2, <1>4, TreeShape, TreeChildren
<1>7. /\ preindex = RightNode(traversals, t) + (traversals.last[t] - (traversals.at[t] + 1) + 1)
      /\ value = IF traversals.at[t] + 1 > traversals.last[t] THEN NULL
                 ELSE Kept(RightNode(traversals, t))
  BY <1>1, <1>5 DEF BuildOK, PreindexOK
<1>8. value = RightKept(t) /\ (HasRight(traversals, t) => RightNode(traversals, t) < preindex)
      /\ preindex = t + (traversals.last[t] - traversals.first[t] + 1)
  <2>1. HasRight(traversals, t) <=> ~(traversals.at[t] + 1 > traversals.last[t])
    BY <1>6
  <2>2. /\ HasRight(traversals, t) => RightNode(traversals, t) < preindex
        /\ preindex = t + (traversals.last[t] - traversals.first[t] + 1)
    <3>1. preindex = RightNode(traversals, t) + (traversals.last[t] - (traversals.at[t] + 1) + 1)
      BY <1>7
    <3>2. HasRight(traversals, t) => traversals.at[t] < traversals.last[t]
      BY <1>6
    <3>3. /\ traversals.first[t] \in Int /\ traversals.at[t] \in Int
          /\ traversals.last[t] \in Int
          /\ RightNode(traversals, t) = t + 1 + traversals.at[t] - traversals.first[t]
      BY <1>6
    <3>4. t \in Int
      BY <1>4
    <3>5. preindex = t + (traversals.last[t] - traversals.first[t] + 1)
      BY <3>1, <3>3, <3>4
    <3>6. traversals.at[t] < traversals.last[t] => RightNode(traversals, t) < preindex
      BY <3>3, <3>4, <3>5
    <3> QED
      BY <3>2, <3>5, <3>6
  <2> QED
    BY <1>7, <2>1, <2>2 DEF RightKept
<1>9. /\ \A v \in Node(traversals) : v # t => heap'[v] = heap[v]
      /\ heap'[t] = [heap[t] EXCEPT !.right = value]
      /\ heap[t] \in Cell
  BY <1>1, <1>2, <1>3, <1>4
<1>10. heap'[t].right = value /\ heap'[t].left = heap[t].left /\ heap'[t].data = heap[t].data
  BY <1>9 DEF Cell
<1>11. RightDone(t)'
  BY <1>1, <1>8, <1>10 DEF RightDone, RightKept, Kept, HasRight, RightNode
<1>12. \A v \in Node(traversals) : (LeftDone(v) => LeftDone(v)') /\ (RightDone(v) => RightDone(v)')
  <2> SUFFICES ASSUME NEW v \in Node(traversals)
               PROVE (LeftDone(v) => LeftDone(v)') /\ (RightDone(v) => RightDone(v)')
    OBVIOUS
  <2>1. preindex' \in Int /\ preindex <= preindex' /\ \A w : w < preindex => (w \in lost' <=> w \in lost)
    BY <1>1, <1>2
  <2>2. LeftDone(v) => LeftDone(v)'
    <3>1. heap'[v].left = heap[v].left
      BY <1>9, <1>10
    <3> QED
      BY <1>1, <2>1, <3>1, DoneStays
  <2>3. CASE v = t
    BY <1>11, <2>2, <2>3
  <2>4. CASE v # t
    BY <1>1, <1>9, <2>1, <2>2, <2>4, DoneStays
  <2> QED
    BY <2>3, <2>4
<1>13. Len(calls') = L - 1 /\ \A k \in 1..(L - 1) : calls'[k] = calls[k]
  BY <1>1, <1>2, WithoutLast
<1>15. \A k \in 1..L : CallAt(k)' = CallAt(k)
  <2> SUFFICES ASSUME NEW k \in 1..L PROVE CallAt(k)' = CallAt(k)
    OBVIOUS
  <2>1. k # 1 => calls'[k - 1] = calls[k - 1]
    BY <1>4, <1>13
  <2> QED
    BY <1>1, <1>4, <2>1, CallAtStays
<1>16. CallsOK'
  <2> SUFFICES ASSUME NEW k \in 1..Len(calls'), NEW v, v = calls'[k].n PROVE CallOK(k, v)'
    BY CallsOKNext
  <2>1. k \in 1..Len(calls) /\ v = calls[k].n /\ calls'[k] = calls[k] /\ CallAt(k)' = CallAt(k)
    BY <1>4, <1>13, <1>15
  <2>2. CallOK(k, v)
    BY <2>1 DEF BuildOK, CallsOK
  <2>3. v \in Node(traversals)
    <3>1. calls[k] \in Caller
      BY <1>2, <2>1
    <3> QED
      BY <2>1, <3>1 DEF Caller
  <2>4. calls'[k].child = "right" => LeftDone(v)'
    BY <1>12, <2>1, <2>2, <2>3 DEF CallOK
  <2>5. v \notin lost' /\ v < preindex'
    BY <1>1, <2>2 DEF CallOK
  <2> QED
    BY <1>1, <2>1, <2>4, <2>5, CallOKStays DEF BuildOK
<1>17. PreindexOK'
  <2>1. PICK l : l = L
    OBVIOUS
  <2>2. Len(calls') + 1 = l /\ l \in 1..L
    BY <1>4, <1>13, <2>1
  <2>3. CallAt(l)' = CallAt(l)
    BY <1>15, <2>2
  <2>4. Running' = CallAt(l)'
    BY <2>2 DEF Running, CallAt
  <2>5. Running' = [start |-> traversals.first[t], end |-> traversals.last[t], node |-> t]
    BY <1>4, <2>1, <2>3, <2>4
  <2>6. value' = IF traversals.first[t] > traversals.last[t] THEN NULL
                 ELSE IF t \in lost' THEN NULL ELSE t
    <3>1. value' = t /\ t \notin lost'
      BY <1>1, <1>3, <1>4
    <3>2. ~(traversals.first[t] > traversals.last[t])
      BY <1>6
    <3> QED
      BY <3>1, <3>2
  <2> QED
    BY <1>1, <1>8, <2>5, <2>6 DEF PreindexOK, Kept
<1>18. HeapOK'
  <2> SUFFICES ASSUME NEW v \in Node(traversals), v < preindex', v \notin lost'
               PROVE  /\ heap'[v].data = traversals.pre[v]
                      /\ LeftDone(v)' \/ LeftDue(v)'
                      /\ RightDone(v)' \/ RightDue(v)'
    BY <1>1, HeapOKNext
  <2>1. /\ heap[v].data = traversals.pre[v]
        /\ LeftDone(v) \/ LeftDue(v)
        /\ RightDone(v) \/ RightDue(v)
    BY <1>1 DEF BuildOK, HeapOK
  <2>2. heap'[v].data = heap[v].data
    BY <1>9, <1>10
  <2>3. v # t /\ RightDue(v) => RightDue(v)'
    BY <1>3, <1>4, <1>13 DEF RightDue
  <2>4. LeftDue(v) => LeftDue(v)'
    BY <1>1, <1>3, <1>4, <1>13 DEF LeftDue
  <2> QED
    BY <1>11, <1>12, <2>1, <2>2, <2>3, <2>4
<1>19. LostOK'
  BY <1>1 DEF BuildOK, LostOK, IsLeaf, HasLeft, HasRight
<1> QED
  BY <1>16, <1>17, <1>18, <1>19 DEF BuildOK

(* The tree is not touched after it is built. *)
LEMMA BuildStays ==
  ASSUME BuildOK, UNCHANGED <<traversals, calls, preindex, heap, lost>>,
         phase # "killed", phase' \in {"print", "done"}
  PROVE  BuildOK'
<1>1. \A k : CallAt(k)' = CallAt(k)
  BY DEF CallAt, CallBy, LeftNode, RightNode
<1>2. \A v : LeftDone(v)' = LeftDone(v) /\ RightDone(v)' = RightDone(v)
  BY DEF LeftDone, RightDone, LeftKept, RightKept, Kept, HasLeft, HasRight, LeftNode, RightNode
<1>3. CallsOK'
  BY <1>1, <1>2 DEF BuildOK, CallsOK, CallOK
<1>4. PreindexOK'
  BY DEF PreindexOK
<1>5. HeapOK'
  BY <1>2 DEF BuildOK, HeapOK, LeftDue, RightDue, Node
<1>6. LostOK'
  BY DEF BuildOK, LostOK, IsLeaf, HasLeft, HasRight
<1> QED
  BY <1>3, <1>4, <1>5, <1>6 DEF BuildOK

(* What is built at the end. *)
LEMMA WhenBuilt ==
  ASSUME TreeTypeOK, BuildOK, BuiltOK, phase \in {"print", "done"}
  PROVE  /\ preindex = traversals.n /\ tree = Kept(0)
         /\ \A v \in lost : IsLeaf(traversals, v)
         /\ \A v \in Node(traversals) \ lost :
              heap[v] = [data |-> traversals.pre[v], left |-> LeftKept(v), right |-> RightKept(v)]
<1>1. /\ traversals \in TreeInputs /\ heap \in [Node(traversals) -> Cell]
  BY DEF TreeTypeOK
<1>2. calls = << >> /\ preindex = traversals.n /\ tree = Kept(0)
  BY DEF BuiltOK
<1>3. \A v \in lost : IsLeaf(traversals, v)
  BY DEF BuildOK, LostOK
<1>4. ASSUME NEW v \in Node(traversals) \ lost
      PROVE heap[v] = [data |-> traversals.pre[v], left |-> LeftKept(v), right |-> RightKept(v)]
  <2>1. v < preindex
    BY <1>1, <1>2, TreeShape
  <2>2. ~LeftDue(v) /\ ~RightDue(v)
    BY <1>2 DEF LeftDue, RightDue
  <2>3. heap[v].data = traversals.pre[v] /\ LeftDone(v) /\ RightDone(v)
    BY <1>4, <2>1, <2>2 DEF BuildOK, HeapOK
  <2>4. heap[v] \in Cell
    BY <1>1
  <2>5. heap[v] = [data |-> heap[v].data, left |-> heap[v].left, right |-> heap[v].right]
    BY <2>4 DEF Cell
  <2> QED
    BY <2>3, <2>5 DEF LeftDone, RightDone
<1> QED
  BY <1>2, <1>3, <1>4

(* One more element, at a place above all others. *)
LEMMA ShowsNext ==
  ASSUME NEW s \in Seq(Int), NEW K, IsFiniteSet(K), NEW m \in Int,
         \A k \in K : k \in Int /\ k < m, Shows(s, K), traversals.in[m] \in Int
  PROVE  Shows(Append(s, traversals.in[m]), K \cup {m})
<1> DEFINE d == traversals.in[m]
           Up(k) == {l \in K : l <= k}
           UpM(k) == {l \in K \cup {m} : l <= k}
<1>1. Len(s) = Cardinality(K) /\ \A k \in K : s[Cardinality(Up(k))] = traversals.in[k]
  BY DEF Shows
<1>2. m \notin K /\ Cardinality(K) \in Nat
  BY FS_CardinalityType
<1>3. Cardinality(K \cup {m}) = Cardinality(K) + 1
  BY <1>2, FS_AddElement
<1>4. /\ Append(s, d) \in Seq(Int) /\ Len(Append(s, d)) = Len(s) + 1
      /\ \A k \in 1..Len(s) : Append(s, d)[k] = s[k]
      /\ Append(s, d)[Len(s) + 1] = d
  BY AppendProperties
<1>5. ASSUME NEW k \in K PROVE Append(s, d)[Cardinality(UpM(k))] = traversals.in[k]
  <2>1. UpM(k) = Up(k)
    OBVIOUS
  <2>2. Up(k) \subseteq K /\ k \in Up(k)
    OBVIOUS
  <2> HIDE DEF Up, UpM
  <2>3. IsFiniteSet(Up(k)) /\ Cardinality(Up(k)) <= Cardinality(K) /\ Cardinality(Up(k)) \in Nat
    BY <2>2, FS_Subset, FS_CardinalityType
  <2>4. Cardinality(Up(k)) # 0
    BY <2>2, <2>3, FS_EmptySet
  <2>5. Cardinality(Up(k)) \in 1..Len(s)
    BY <1>1, <1>2, <2>3, <2>4
  <2> QED
    BY <1>1, <1>4, <2>1, <2>5
<1>6. Append(s, d)[Cardinality(UpM(m))] = d
  <2>1. UpM(m) = K \cup {m}
    OBVIOUS
  <2> HIDE DEF UpM
  <2> QED
    BY <1>1, <1>3, <1>4, <2>1
<1> HIDE DEF d
<1>7. Shows(Append(s, d), K \cup {m})
  <2>1. Len(Append(s, d)) = Cardinality(K \cup {m})
    BY <1>1, <1>3, <1>4
  <2>2. \A k \in K \cup {m} : Append(s, d)[Cardinality(UpM(k))] = traversals.in[k]
    BY <1>5, <1>6 DEF d
  <2> QED
    BY <2>1, <2>2 DEF Shows
<1> QED
  BY <1>7 DEF d

(* The places of the nodes there are. *)
LEMMA KeptPlaces ==
  ASSUME TreeTypeOK, BuildOK
  PROVE  /\ Shows(<< >>, KeptBelow(0))
         /\ \A m \in Int : IsFiniteSet(KeptBelow(m)) /\ \A k \in KeptBelow(m) : k \in Int /\ k < m
         /\ \A v \in Node(traversals) :
              v \in lost /\ IsLeaf(traversals, v) =>
                KeptBelow(traversals.last[v] + 1) = KeptBelow(traversals.first[v])
         /\ \A v \in Node(traversals) :
              v \notin lost =>
                KeptBelow(traversals.at[v] + 1) = KeptBelow(traversals.at[v]) \cup {traversals.at[v]}
<1>1. traversals \in TreeInputs /\ lost \subseteq Node(traversals)
  BY DEF TreeTypeOK
<1>2. KeptBelow(0) = {}
  BY DEF KeptBelow
<1>3. Shows(<< >>, KeptBelow(0))
  BY <1>2, FS_EmptySet DEF Shows
<1>4. ASSUME NEW m \in Int
      PROVE IsFiniteSet(KeptBelow(m)) /\ \A k \in KeptBelow(m) : k \in Int /\ k < m
  <2>1. IsFiniteSet(0..(m - 1))
    BY FS_Interval
  <2>2. KeptBelow(m) \subseteq 0..(m - 1)
    BY DEF KeptBelow
  <2> QED
    BY <2>1, <2>2, FS_Subset
<1>5. ASSUME NEW v \in Node(traversals), v \in lost, IsLeaf(traversals, v)
      PROVE KeptBelow(traversals.last[v] + 1) = KeptBelow(traversals.first[v])
  <2>1. /\ traversals.at[v] \in Int /\ traversals.first[v] = traversals.at[v]
        /\ traversals.last[v] = traversals.at[v]
    <3>1. /\ traversals.at[v] \in Int /\ traversals.first[v] \in Int /\ traversals.last[v] \in Int
          /\ traversals.first[v] <= traversals.at[v] /\ traversals.at[v] <= traversals.last[v]
      BY <1>1, TreeShape
    <3>2. traversals.first[v] = traversals.last[v]
      BY <1>1, <1>5, TreeChildren
    <3> QED
      BY <3>1, <3>2
  <2>2. \A k : k \in 0..(traversals.at[v] + 1 - 1) <=>
                 k \in 0..(traversals.at[v] - 1) \/ (k = traversals.at[v] /\ k >= 0)
    BY <2>1
  <2> QED
    BY <1>5, <2>1, <2>2 DEF KeptBelow
<1>6. ASSUME NEW v \in Node(traversals), v \notin lost
      PROVE KeptBelow(traversals.at[v] + 1) = KeptBelow(traversals.at[v]) \cup {traversals.at[v]}
  <2>1. traversals.at[v] \in Int /\ traversals.at[v] >= 0
    BY <1>1, TreeShape
  <2>2. \A k : k \in 0..(traversals.at[v] + 1 - 1) <=>
                 k \in 0..(traversals.at[v] - 1) \/ k = traversals.at[v]
    BY <2>1
  <2>3. \A w \in lost : traversals.at[w] # traversals.at[v]
    <3>1. \A w \in lost : w \in Node(traversals) /\ w # v
      BY <1>1, <1>6
    <3> QED
      BY <1>1, <3>1, TreeShape
  <2> QED
    BY <2>2, <2>3 DEF KeptBelow
<1> QED
  BY <1>3, <1>4, <1>5, <1>6

(* The subtrees of a node, or their places if they are missing. *)
LEMMA KeptChildren ==
  ASSUME TreeTypeOK, BuildOK, phase # "killed", NEW v \in Node(traversals)
  PROVE  /\ LeftKept(v) = NULL => KeptBelow(traversals.at[v]) = KeptBelow(traversals.first[v])
         /\ LeftKept(v) # NULL =>
              /\ LeftKept(v) \in Node(traversals) /\ LeftKept(v) \notin lost
              /\ traversals.last[LeftKept(v)] + 1 = traversals.at[v]
              /\ traversals.first[LeftKept(v)] = traversals.first[v]
         /\ RightKept(v) = NULL =>
              KeptBelow(traversals.last[v] + 1) = KeptBelow(traversals.at[v] + 1)
         /\ RightKept(v) # NULL =>
              /\ RightKept(v) \in Node(traversals) /\ RightKept(v) \notin lost
              /\ traversals.last[RightKept(v)] = traversals.last[v]
              /\ traversals.first[RightKept(v)] = traversals.at[v] + 1
<1>1. /\ traversals \in TreeInputs
      /\ \A w \in lost : IsLeaf(traversals, w)
  BY DEF TreeTypeOK, BuildOK, LostOK
<1>2. /\ traversals.at[v] \in Int /\ traversals.first[v] \in Int /\ traversals.last[v] \in Int
      /\ traversals.first[v] <= traversals.at[v] /\ traversals.at[v] <= traversals.last[v]
      /\ \A w \in Node(traversals) : w # NULL
  BY <1>1, TreeShape
<1> DEFINE LeftOK ==
             /\ LeftKept(v) = NULL => KeptBelow(traversals.at[v]) = KeptBelow(traversals.first[v])
             /\ LeftKept(v) # NULL =>
                  /\ LeftKept(v) \in Node(traversals) /\ LeftKept(v) \notin lost
                  /\ traversals.last[LeftKept(v)] + 1 = traversals.at[v]
                  /\ traversals.first[LeftKept(v)] = traversals.first[v]
           RightOK ==
             /\ RightKept(v) = NULL =>
                  KeptBelow(traversals.last[v] + 1) = KeptBelow(traversals.at[v] + 1)
             /\ RightKept(v) # NULL =>
                  /\ RightKept(v) \in Node(traversals) /\ RightKept(v) \notin lost
                  /\ traversals.last[RightKept(v)] = traversals.last[v]
                  /\ traversals.first[RightKept(v)] = traversals.at[v] + 1
<1>3. ASSUME HasLeft(traversals, v) PROVE LeftOK
  <2>1. PICK w : w = LeftNode(v)
    OBVIOUS
  <2>2. /\ w \in Node(traversals) /\ traversals.first[w] = traversals.first[v]
        /\ traversals.last[w] = traversals.at[v] - 1
    BY <1>1, <1>3, <2>1, TreeChildren
  <2>3. LeftKept(v) = IF w \in lost THEN NULL ELSE w
    BY <1>3, <2>1 DEF LeftKept, Kept
  <2>4. traversals.last[w] + 1 = traversals.at[v]
    BY <1>2, <2>2
  <2>5. w \in lost => KeptBelow(traversals.at[v]) = KeptBelow(traversals.first[v])
    <3>1. w \in lost => KeptBelow(traversals.last[w] + 1) = KeptBelow(traversals.first[w])
      BY <1>1, <2>2, KeptPlaces
    <3> QED
      BY <2>2, <2>4, <3>1
  <2> QED
    BY <1>2, <2>2, <2>3, <2>4, <2>5
<1>4. ASSUME ~HasLeft(traversals, v) PROVE LeftOK
  <2>1. LeftKept(v) = NULL
    BY <1>4 DEF LeftKept
  <2>2. traversals.at[v] = traversals.first[v]
    BY <1>2, <1>4 DEF HasLeft
  <2> QED
    BY <2>1, <2>2
<1>5. ASSUME HasRight(traversals, v) PROVE RightOK
  <2>1. PICK w : w = RightNode(traversals, v)
    OBVIOUS
  <2>2. /\ w \in Node(traversals) /\ traversals.first[w] = traversals.at[v] + 1
        /\ traversals.last[w] = traversals.last[v]
    BY <1>1, <1>5, <2>1, TreeChildren
  <2>3. RightKept(v) = IF w \in lost THEN NULL ELSE w
    BY <1>5, <2>1 DEF RightKept, Kept
  <2>4. w \in lost => KeptBelow(traversals.last[v] + 1) = KeptBelow(traversals.at[v] + 1)
    <3>1. w \in lost => KeptBelow(traversals.last[w] + 1) = KeptBelow(traversals.first[w])
      BY <1>1, <2>2, KeptPlaces
    <3> QED
      BY <2>2, <3>1
  <2> QED
    BY <1>2, <2>2, <2>3, <2>4
<1>6. ASSUME ~HasRight(traversals, v) PROVE RightOK
  <2>1. RightKept(v) = NULL
    BY <1>6 DEF RightKept
  <2>2. traversals.at[v] = traversals.last[v]
    BY <1>2, <1>6 DEF HasRight
  <2> QED
    BY <2>1, <2>2
<1> QED
  BY <1>3, <1>4, <1>5, <1>6

(* What a step to the next call of printInorder has to keep. *)
LEMMA WalkNext ==
  ASSUME UNCHANGED <<traversals, lost>>, phase' = "print",
         NEW e, e = EndOf(Len(walk))', NEW s, s = text', NEW u, u = value',
         \A k \in 1..Len(walk') :
           walk'[k] \notin lost /\ traversals.last[walk'[k]] + 1 = EndOf(k - 1)',
         u = NULL => Shows(s, KeptBelow(e)),
         u # NULL => /\ u \notin lost /\ traversals.last[u] + 1 = e
                     /\ Shows(s, KeptBelow(traversals.first[u]))
  PROVE  WalkOK'
<1>1. value' = NULL => Shows(text, KeptBelow(EndOf(Len(walk))))'
  <2>1. KeptBelow(EndOf(Len(walk)))' = KeptBelow(e)
    BY DEF KeptBelow, EndOf
  <2> QED
    BY <2>1 DEF Shows
<1>2. value' # NULL => Shows(text, KeptBelow(traversals.first[value]))'
  <2>1. PICK f : f = traversals.first[u]
    OBVIOUS
  <2>2. u # NULL => Shows(s, KeptBelow(f))
    BY <2>1
  <2>3. value' # NULL => KeptBelow(traversals.first[value])' = KeptBelow(f)
    BY <2>1 DEF KeptBelow
  <2> QED
    BY <2>2, <2>3 DEF Shows
<1> QED
  BY <1>1, <1>2 DEF WalkOK, EndOf

(* All calls have returned, and nothing is printed yet. *)
LEMMA StepTreeBuilt ==
  TreeTypeOK /\ BuildOK /\ BuiltOK /\ WalkOK /\ TreeBuilt => BuildOK' /\ BuiltOK' /\ WalkOK'
<1> SUFFICES ASSUME TreeTypeOK, BuildOK, BuiltOK, WalkOK, TreeBuilt
             PROVE  BuildOK' /\ BuiltOK' /\ WalkOK'
  OBVIOUS
<1>1. /\ phase = "return" /\ phase' = "print" /\ calls = << >> /\ tree' = value
      /\ UNCHANGED <<traversals, call, calls, preindex, value, heap, lost, walk, text>>
  BY DEF TreeBuilt
<1>2. BuildOK'
  BY <1>1, BuildStays
<1>3. traversals \in TreeInputs /\ lost \subseteq Node(traversals)
  BY DEF TreeTypeOK
<1>4. /\ 0 \in Node(traversals) /\ traversals.first[0] = 0 /\ traversals.last[0] = traversals.n - 1
      /\ traversals.n \in Int /\ traversals.n > 0 /\ NULL = -1
  BY <1>3, TreeRoot, TreeShape
<1>5. Running = [start |-> 0, end |-> traversals.n - 1, node |-> 0]
  BY <1>1 DEF Running, CallAt
<1>6. preindex = traversals.n /\ value = Kept(0)
  BY <1>1, <1>4, <1>5 DEF BuildOK, PreindexOK
<1>7. BuiltOK'
  BY <1>1, <1>6 DEF BuiltOK, Kept
<1>8. WalkOK'
  <2>1. walk' = << >> /\ text' = << >>
    BY <1>1 DEF WalkOK
  <2>2. EndOf(Len(walk))' = traversals.n
    BY <1>1, <2>1 DEF EndOf
  <2>3. PICK u : u = value'
    OBVIOUS
  <2>4. u = IF 0 \in lost THEN NULL ELSE 0
    BY <1>1, <1>6, <2>3 DEF Kept
  <2>5. u = NULL => Shows(<< >>, KeptBelow(traversals.n))
    <3> SUFFICES ASSUME u = NULL PROVE Shows(<< >>, KeptBelow(traversals.n))
      OBVIOUS
    <3>1. 0 \in lost
      BY <1>4, <2>4
    <3>2. IsLeaf(traversals, 0)
      BY <1>1, <3>1 DEF BuildOK, LostOK
    <3>3. KeptBelow(traversals.last[0] + 1) = KeptBelow(traversals.first[0])
      BY <1>4, <3>1, <3>2, KeptPlaces
    <3>4. traversals.last[0] + 1 = traversals.n
      BY <1>4
    <3> QED
      BY <1>4, <3>3, <3>4, KeptPlaces
  <2>6. u # NULL => u = 0 /\ u \notin lost
    BY <2>4
  <2>7. u # NULL => /\ u \notin lost /\ traversals.last[u] + 1 = traversals.n
                    /\ Shows(<< >>, KeptBelow(traversals.first[u]))
    BY <1>4, <2>6, KeptPlaces
  <2> QED
    BY <1>1, <2>1, <2>2, <2>3, <2>5, <2>7, WalkNext
<1> QED
  BY <1>2, <1>7, <1>8

(* printInorder goes down to the left. *)
LEMMA StepPrintLeft ==
  TreeTypeOK /\ BuildOK /\ BuiltOK /\ WalkOK /\ PrintLeft => BuildOK' /\ BuiltOK' /\ WalkOK'
<1> SUFFICES ASSUME TreeTypeOK, BuildOK, BuiltOK, WalkOK, PrintLeft
             PROVE  BuildOK' /\ BuiltOK' /\ WalkOK'
  OBVIOUS
<1>1. /\ phase = "print" /\ phase' = "print" /\ value # NULL
      /\ walk' = Append(walk, value) /\ value' = heap[value].left
      /\ UNCHANGED <<traversals, calls, preindex, heap, lost, tree, text>>
  BY DEF PrintLeft
<1>2. BuildOK' /\ BuiltOK'
  BY <1>1, BuildStays DEF BuiltOK, Kept
<1>3. PICK v : v = value
  OBVIOUS
<1>4. /\ v \in Node(traversals) /\ v \notin lost /\ traversals.last[v] + 1 = EndOf(Len(walk))
      /\ Shows(text, KeptBelow(traversals.first[v]))
      /\ walk \in Seq(Node(traversals)) /\ Len(walk) \in Nat
  BY <1>1, <1>3 DEF WalkOK, TreeTypeOK
<1>5. heap[v].left = LeftKept(v)
  <2>1. heap[v] = [data |-> traversals.pre[v], left |-> LeftKept(v), right |-> RightKept(v)]
    BY <1>1, <1>4, WhenBuilt
  <2> QED
    BY <2>1
<1>6. /\ Len(walk') = Len(walk) + 1 /\ walk'[Len(walk) + 1] = v
      /\ \A k \in 1..Len(walk) : walk'[k] = walk[k]
  BY <1>1, <1>3, <1>4, AppendProperties
<1>7. \A k \in 0..Len(walk) : EndOf(k)' = EndOf(k)
  BY <1>1, <1>4, <1>6 DEF EndOf
<1>8. EndOf(Len(walk))' = traversals.at[v]
  BY <1>1, <1>4, <1>6 DEF EndOf
<1>9. \A k \in 1..Len(walk') :
        walk'[k] \notin lost /\ traversals.last[walk'[k]] + 1 = EndOf(k - 1)'
  <2> SUFFICES ASSUME NEW k \in 1..Len(walk')
               PROVE  walk'[k] \notin lost /\ traversals.last[walk'[k]] + 1 = EndOf(k - 1)'
    OBVIOUS
  <2>1. EndOf(k - 1)' = EndOf(k - 1)
    BY <1>4, <1>6, <1>7
  <2>2. CASE k \in 1..Len(walk)
    BY <1>1, <1>6, <2>1, <2>2 DEF WalkOK
  <2>3. CASE k = Len(walk) + 1
    <3>1. k - 1 = Len(walk)
      BY <1>4, <2>3
    <3> QED
      BY <1>4, <1>6, <2>1, <2>3, <3>1
  <2> QED
    BY <1>4, <1>6, <2>2, <2>3
<1>10. PICK u : u = value'
  OBVIOUS
<1>11. u = LeftKept(v)
  BY <1>1, <1>3, <1>5, <1>10
<1>12. u = NULL => Shows(text, KeptBelow(traversals.at[v]))
  BY <1>1, <1>4, <1>11, KeptChildren
<1>13. u # NULL => /\ u \notin lost /\ traversals.last[u] + 1 = traversals.at[v]
                   /\ Shows(text, KeptBelow(traversals.first[u]))
  BY <1>1, <1>4, <1>11, KeptChildren
<1>14. text' = text
  BY <1>1
<1> QED
  BY <1>1, <1>2, <1>8, <1>9, <1>10, <1>12, <1>13, <1>14, WalkNext

(* What is below and the node itself are printed; it goes to the right. *)
LEMMA StepPrintNode ==
  TreeTypeOK /\ BuildOK /\ BuiltOK /\ WalkOK /\ PrintNode => BuildOK' /\ BuiltOK' /\ WalkOK'
<1> SUFFICES ASSUME TreeTypeOK, BuildOK, BuiltOK, WalkOK, PrintNode
             PROVE  BuildOK' /\ BuiltOK' /\ WalkOK'
  OBVIOUS
<1>1. PICK v : v = walk[Len(walk)]
  OBVIOUS
<1>2. /\ phase = "print" /\ phase' = "print" /\ value = NULL /\ walk # << >>
      /\ text' = Append(text, heap[v].data) /\ value' = heap[v].right
      /\ walk' = SubSeq(walk, 1, Len(walk) - 1)
      /\ UNCHANGED <<traversals, calls, preindex, heap, lost, tree>>
  BY <1>1 DEF PrintNode
<1>3. BuildOK' /\ BuiltOK'
  BY <1>2, BuildStays DEF BuiltOK, Kept
<1>4. /\ traversals \in TreeInputs /\ walk \in Seq(Node(traversals)) /\ text \in Seq(Int)
  BY DEF TreeTypeOK
<1>5. Len(walk) \in Nat /\ Len(walk) > 0 /\ v \in Node(traversals)
  BY <1>1, <1>2, <1>4
<1>6. /\ v \notin lost /\ traversals.last[v] + 1 = EndOf(Len(walk) - 1)
      /\ Shows(text, KeptBelow(EndOf(Len(walk))))
  BY <1>1, <1>2, <1>5 DEF WalkOK
<1>7. EndOf(Len(walk)) = traversals.at[v]
  BY <1>1, <1>5 DEF EndOf
<1>8. /\ traversals.at[v] \in Int /\ heap[v].right = RightKept(v)
      /\ heap[v].data = traversals.in[traversals.at[v]]
      /\ traversals.in[traversals.at[v]] \in Int
  <2>1. heap[v] = [data |-> traversals.pre[v], left |-> LeftKept(v), right |-> RightKept(v)]
    BY <1>2, <1>5, <1>6, WhenBuilt
  <2>2. /\ traversals.at[v] \in Node(traversals) /\ traversals.at[v] \in Int
        /\ traversals.pre[v] = traversals.in[traversals.at[v]]
        /\ traversals.in \in [Node(traversals) -> Int]
    BY <1>4, <1>5, TreeShape
  <2> QED
    BY <2>1, <2>2
<1>9. Shows(Append(text, traversals.in[traversals.at[v]]), KeptBelow(traversals.at[v] + 1))
  <2>1. PICK K : K = KeptBelow(traversals.at[v])
    OBVIOUS
  <2>2. /\ IsFiniteSet(K) /\ \A k \in K : k \in Int /\ k < traversals.at[v]
        /\ KeptBelow(traversals.at[v] + 1) = K \cup {traversals.at[v]}
    BY <1>5, <1>6, <1>8, <2>1, KeptPlaces
  <2>3. Shows(text, K)
    BY <1>6, <1>7, <2>1
  <2>4. PICK m : m = traversals.at[v]
    OBVIOUS
  <2>5. /\ m \in Int /\ IsFiniteSet(K) /\ \A k \in K : k \in Int /\ k < m
        /\ traversals.in[m] \in Int
    BY <1>8, <2>2, <2>4
  <2>6. Shows(Append(text, traversals.in[m]), K \cup {m})
    BY <1>4, <2>3, <2>5, ShowsNext
  <2> QED
    BY <2>2, <2>4, <2>6
<1>10. Len(walk') = Len(walk) - 1 /\ \A k \in 1..(Len(walk) - 1) : walk'[k] = walk[k]
  BY <1>2, <1>4, WithoutLast
<1>11. \A k \in 0..(Len(walk) - 1) : EndOf(k)' = EndOf(k)
  BY <1>2, <1>5, <1>10 DEF EndOf
<1>12. EndOf(Len(walk))' = traversals.last[v] + 1
  <2>1. PICK l : l = Len(walk) - 1
    OBVIOUS
  <2>2. l \in 0..(Len(walk) - 1) /\ Len(walk') = l
    BY <1>5, <1>10, <2>1
  <2>3. EndOf(Len(walk))' = EndOf(l)'
    BY <2>2 DEF EndOf
  <2> QED
    BY <1>6, <1>11, <2>1, <2>2, <2>3
<1>13. \A k \in 1..Len(walk') :
        walk'[k] \notin lost /\ traversals.last[walk'[k]] + 1 = EndOf(k - 1)'
  <2> SUFFICES ASSUME NEW k \in 1..Len(walk')
               PROVE  walk'[k] \notin lost /\ traversals.last[walk'[k]] + 1 = EndOf(k - 1)'
    OBVIOUS
  <2>1. k \in 1..Len(walk) /\ k - 1 \in 0..(Len(walk) - 1) /\ walk'[k] = walk[k]
    BY <1>5, <1>10
  <2>2. EndOf(k - 1)' = EndOf(k - 1)
    BY <1>11, <2>1
  <2> QED
    BY <1>2, <2>1, <2>2 DEF WalkOK
<1>14. PICK u : u = value'
  OBVIOUS
<1>15. u = RightKept(v)
  BY <1>2, <1>8, <1>14
<1>16. PICK s : s = text'
  OBVIOUS
<1>17. Shows(s, KeptBelow(traversals.at[v] + 1))
  BY <1>2, <1>8, <1>9, <1>16
<1>18. u = NULL => Shows(s, KeptBelow(traversals.last[v] + 1))
  BY <1>2, <1>5, <1>15, <1>17, KeptChildren
<1>19. u # NULL => /\ u \notin lost /\ traversals.last[u] + 1 = traversals.last[v] + 1
                   /\ Shows(s, KeptBelow(traversals.first[u]))
  BY <1>2, <1>5, <1>15, <1>17, KeptChildren
<1>20. PICK e : e = traversals.last[v] + 1
  OBVIOUS
<1>21. /\ e = EndOf(Len(walk))'
       /\ u = NULL => Shows(s, KeptBelow(e))
       /\ u # NULL => /\ u \notin lost /\ traversals.last[u] + 1 = e
                      /\ Shows(s, KeptBelow(traversals.first[u]))
  BY <1>12, <1>18, <1>19, <1>20
<1>22. UNCHANGED <<traversals, lost>> /\ phase' = "print"
  BY <1>2
<1>23. WalkOK'
  BY <1>13, <1>14, <1>16, <1>21, <1>22, WalkNext
<1> QED
  BY <1>3, <1>23

(* All is printed. *)
LEMMA StepTreePrinted ==
  TreeTypeOK /\ BuildOK /\ BuiltOK /\ WalkOK /\ TreePrinted => BuildOK' /\ BuiltOK' /\ WalkOK'
<1> SUFFICES ASSUME TreeTypeOK, BuildOK, BuiltOK, WalkOK, TreePrinted
             PROVE  BuildOK' /\ BuiltOK' /\ WalkOK'
  OBVIOUS
<1>1. /\ phase = "print" /\ phase' = "done" /\ value = NULL /\ walk = << >>
      /\ UNCHANGED <<traversals, call, calls, preindex, value, heap, lost, tree, walk, text>>
  BY DEF TreePrinted
<1>2. BuildOK' /\ BuiltOK'
  BY <1>1, BuildStays DEF BuiltOK, Kept
<1>3. EndOf(Len(walk)) = traversals.n
  BY <1>1 DEF EndOf
<1>4. Shows(text, KeptBelow(traversals.n))
  BY <1>1, <1>3 DEF WalkOK
<1>5. Shows(text, KeptBelow(traversals.n))'
  <2>1. KeptBelow(traversals.n)' = KeptBelow(traversals.n)
    BY <1>1 DEF KeptBelow
  <2> QED
    BY <1>1, <1>4, <2>1 DEF Shows
<1> QED
  BY <1>1, <1>2, <1>5 DEF WalkOK

(* While the tree is being built, nothing is printed. *)
LEMMA StepBuilding ==
  ASSUME TreeTypeOK, WalkOK, phase \in {"call", "return"},
         phase' \in {"call", "return", "killed"}, UNCHANGED <<walk, text>>
  PROVE  BuiltOK' /\ WalkOK'
BY DEF BuiltOK, WalkOK

(* The types of the variables after each step. *)
LEMMA TypeCreateInner == TreeTypeOK /\ BuildOK /\ CreateInner => TreeTypeOK'
<1> SUFFICES ASSUME TreeTypeOK, BuildOK, CreateInner PROVE TreeTypeOK'
  OBVIOUS
<1>1. /\ phase = "call" /\ call.start < call.end
      /\ UNCHANGED <<traversals, value, tree, walk, text>>
  BY DEF CreateInner
<1>2. PICK m : /\ create_node(m)
               /\ IF m = NULL THEN phase' = "killed" /\ UNCHANGED <<call, calls>>
                  ELSE LET nodeindex == searchindex(traversals.pre[m], call.end)
                       IN /\ calls' = Append(calls, [n |-> m, nodeindex |-> nodeindex,
                                                     end |-> call.end, child |-> "left"])
                          /\ call' = [start |-> call.start, end |-> nodeindex - 1]
                          /\ UNCHANGED phase
  BY DEF CreateInner
<1>3. traversals \in TreeInputs /\ call.start \in Int /\ call.end \in Int /\ call.start <= call.end
  BY <1>1 DEF TreeTypeOK
<1>4. /\ preindex \in Node(traversals) /\ preindex' \in Int
      /\ traversals.first[preindex] = call.start /\ traversals.last[preindex] = call.end
  BY <1>1, <1>2, <1>3, Created
<1>5. heap' \in [Node(traversals) -> Cell] /\ lost' \subseteq Node(traversals)
  <2>1. heap \in [Node(traversals) -> Cell] /\ lost \subseteq Node(traversals)
    BY DEF TreeTypeOK
  <2>2. \/ lost' = lost /\ heap' = [heap EXCEPT ![preindex] =
                       [data |-> traversals.pre[preindex], left |-> NULL, right |-> NULL]]
        \/ lost' = lost \cup {preindex} /\ heap' = heap
    BY <1>2 DEF create_node
  <2>3. [data |-> traversals.pre[preindex], left |-> NULL, right |-> NULL] \in Cell
    BY <1>3, <1>4, TreeShape DEF Cell
  <2> QED
    BY <1>4, <2>1, <2>2, <2>3
<1>6. /\ phase' \in {"call", "killed"} /\ call' \in [start : Int, end : Int]
      /\ calls' \in Seq(Caller)
  <2>1. CASE m = NULL
    BY <1>1, <1>2, <2>1 DEF TreeTypeOK
  <2>2. CASE m # NULL
    <3> DEFINE k == searchindex(traversals.pre[m], call.end)
               c == [n |-> m, nodeindex |-> k, end |-> call.end, child |-> "left"]
    <3>1. m = preindex
      BY <2>2, <1>2 DEF create_node
    <3>2. k = traversals.at[preindex]
      <4>1. traversals.at[preindex] <= call.end
        BY <1>3, <1>4, TreeShape
      <4> QED
        BY <1>3, <1>4, <3>1, <4>1, FindsNode
    <3>3. /\ calls' = Append(calls, c) /\ call' = [start |-> call.start, end |-> k - 1]
          /\ phase' = phase
      BY <1>2, <2>2
    <3> HIDE DEF k
    <3>4. k \in Node(traversals) /\ k \in Int /\ call.end \in Node(traversals)
      BY <1>3, <1>4, <3>2, TreeShape
    <3>5. c \in Caller
      BY <1>4, <3>1, <3>4 DEF Caller
    <3>6. calls \in Seq(Caller)
      BY DEF TreeTypeOK
    <3>7. calls' \in Seq(Caller)
      BY <3>3, <3>5, <3>6, AppendProperties
    <3> QED
      BY <1>1, <1>3, <3>3, <3>4, <3>7
  <2> QED
    BY <2>1, <2>2
<1>7. Caller' = Caller /\ Cell' = Cell /\ Node(traversals)' = Node(traversals)
  BY <1>1 DEF Caller, Cell, Node
<1> QED
  BY <1>1, <1>4, <1>5, <1>6, <1>7 DEF TreeTypeOK

LEMMA TypeCreateLeaf == TreeTypeOK /\ BuildOK /\ CreateLeaf => TreeTypeOK'
<1> SUFFICES ASSUME TreeTypeOK, BuildOK, CreateLeaf PROVE TreeTypeOK'
  OBVIOUS
<1>1. /\ phase = "call" /\ phase' = "return" /\ call.start = call.end
      /\ UNCHANGED <<traversals, call, calls, tree, walk, text>>
  BY DEF CreateLeaf
<1>2. PICK m : create_node(m) /\ value' = m
  BY DEF CreateLeaf
<1>3. traversals \in TreeInputs /\ call.start <= call.end
  BY <1>1 DEF TreeTypeOK
<1>4. preindex \in Node(traversals) /\ preindex' \in Int /\ (m = NULL \/ m = preindex)
  BY <1>1, <1>2, <1>3, Created
<1>5. heap' \in [Node(traversals) -> Cell] /\ lost' \subseteq Node(traversals)
  <2>1. heap \in [Node(traversals) -> Cell] /\ lost \subseteq Node(traversals)
    BY DEF TreeTypeOK
  <2>2. \/ lost' = lost /\ heap' = [heap EXCEPT ![preindex] =
                       [data |-> traversals.pre[preindex], left |-> NULL, right |-> NULL]]
        \/ lost' = lost \cup {preindex} /\ heap' = heap
    BY <1>2 DEF create_node
  <2>3. [data |-> traversals.pre[preindex], left |-> NULL, right |-> NULL] \in Cell
    BY <1>3, <1>4, TreeShape DEF Cell
  <2> QED
    BY <1>4, <2>1, <2>2, <2>3
<1>6. Caller' = Caller /\ Cell' = Cell /\ Node(traversals)' = Node(traversals)
  BY <1>1 DEF Caller, Cell, Node
<1> QED
  BY <1>1, <1>2, <1>4, <1>5, <1>6 DEF TreeTypeOK

LEMMA TypeReturnLeft == TreeTypeOK /\ BuildOK /\ ReturnLeft => TreeTypeOK'
<1> SUFFICES ASSUME TreeTypeOK, BuildOK, ReturnLeft PROVE TreeTypeOK'
  OBVIOUS
<1>1. /\ phase' = "call" /\ calls # << >>
      /\ heap' = [heap EXCEPT ![Top.n].left = value]
      /\ calls' = [calls EXCEPT ![Len(calls)].child = "right"]
      /\ call' = [start |-> Top.nodeindex + 1, end |-> Top.end]
      /\ UNCHANGED <<traversals, preindex, value, lost, tree, walk, text>>
  BY DEF ReturnLeft
<1>2. /\ traversals \in TreeInputs /\ calls \in Seq(Caller) /\ heap \in [Node(traversals) -> Cell]
      /\ value \in Node(traversals) \cup {NULL}
  BY DEF TreeTypeOK
<1>3. /\ Len(calls) \in Nat /\ Len(calls) > 0 /\ Top = calls[Len(calls)] /\ Top \in Caller
      /\ Top.n \in Node(traversals)
  BY <1>1, Calling
<1>4. Top.nodeindex \in Int /\ Top.end \in Int
  BY <1>2, <1>3, TreeShape DEF Caller
<1>5. call' \in [start : Int, end : Int]
  BY <1>1, <1>4
<1>6. heap' \in [Node(traversals) -> Cell]
  <2>1. heap[Top.n] \in Cell
    BY <1>2, <1>3
  <2>2. [heap[Top.n] EXCEPT !.left = value] \in Cell
    BY <1>2, <2>1 DEF Cell
  <2> QED
    BY <1>1, <1>2, <1>3, <2>2
<1>7. calls' \in Seq(Caller)
  <2>1. [calls[Len(calls)] EXCEPT !.child = "right"] \in Caller
    BY <1>3 DEF Caller
  <2> QED
    BY <1>1, <1>2, <1>3, <2>1
<1>8. Caller' = Caller /\ Cell' = Cell /\ Node(traversals)' = Node(traversals)
  BY <1>1 DEF Caller, Cell, Node
<1> QED
  BY <1>1, <1>5, <1>6, <1>7, <1>8 DEF TreeTypeOK

LEMMA TypeReturnRight == TreeTypeOK /\ BuildOK /\ ReturnRight => TreeTypeOK'
<1> SUFFICES ASSUME TreeTypeOK, BuildOK, ReturnRight PROVE TreeTypeOK'
  OBVIOUS
<1>1. /\ calls # << >>
      /\ heap' = [heap EXCEPT ![Top.n].right = value] /\ value' = Top.n
      /\ calls' = SubSeq(calls, 1, Len(calls) - 1)
      /\ UNCHANGED <<traversals, phase, call, preindex, lost, tree, walk, text>>
  BY DEF ReturnRight, Callers
<1>2. /\ traversals \in TreeInputs /\ calls \in Seq(Caller) /\ heap \in [Node(traversals) -> Cell]
      /\ value \in Node(traversals) \cup {NULL}
  BY DEF TreeTypeOK
<1>3. Top.n \in Node(traversals)
  BY <1>1, Calling
<1>4. heap' \in [Node(traversals) -> Cell]
  <2>1. heap[Top.n] \in Cell
    BY <1>2, <1>3
  <2>2. [heap[Top.n] EXCEPT !.right = value] \in Cell
    BY <1>2, <2>1 DEF Cell
  <2> QED
    BY <1>1, <1>2, <1>3, <2>2
<1>5. calls' \in Seq(Caller)
  BY <1>1, <1>2, WithoutLast
<1>6. Caller' = Caller /\ Cell' = Cell /\ Node(traversals)' = Node(traversals)
  BY <1>1 DEF Caller, Cell, Node
<1> QED
  BY <1>1, <1>3, <1>4, <1>5, <1>6 DEF TreeTypeOK

LEMMA TypePrint == TreeTypeOK /\ (PrintLeft \/ PrintNode) => TreeTypeOK'
<1> SUFFICES ASSUME TreeTypeOK, PrintLeft \/ PrintNode PROVE TreeTypeOK'
  OBVIOUS
<1>1. /\ walk \in Seq(Node(traversals)) /\ heap \in [Node(traversals) -> Cell]
      /\ value \in Node(traversals) \cup {NULL} /\ text \in Seq(Int)
      /\ phase \in {"call", "return", "print", "done", "killed"}
  BY DEF TreeTypeOK
<1>2. CASE PrintLeft
  <2>1. /\ value # NULL /\ walk' = Append(walk, value) /\ value' = heap[value].left
        /\ UNCHANGED <<traversals, phase, call, calls, preindex, heap, lost, tree, text>>
    BY <1>2 DEF PrintLeft
  <2>2. walk' \in Seq(Node(traversals))
    BY <1>1, <2>1, AppendProperties
  <2>3. value' \in Node(traversals) \cup {NULL}
    <3>1. heap[value] \in Cell
      BY <1>1, <2>1
    <3> QED
      BY <2>1, <3>1 DEF Cell
  <2>4. Caller' = Caller /\ Cell' = Cell /\ Node(traversals)' = Node(traversals)
    BY <2>1 DEF Caller, Cell, Node
  <2> QED
    BY <2>1, <2>2, <2>3, <2>4 DEF TreeTypeOK
<1>3. CASE PrintNode
  <2>1. PICK m : m = walk[Len(walk)]
    OBVIOUS
  <2>2. /\ walk # << >> /\ walk' = SubSeq(walk, 1, Len(walk) - 1)
        /\ text' = Append(text, heap[m].data) /\ value' = heap[m].right
        /\ UNCHANGED <<traversals, phase, call, calls, preindex, heap, lost, tree>>
    BY <1>3, <2>1 DEF PrintNode
  <2>3. heap[m] \in Cell
    <3>1. Len(walk) \in 1..Len(walk)
      BY <1>1, <2>2
    <3> QED
      BY <1>1, <2>1, <3>1
  <2>4. walk' \in Seq(Node(traversals))
    BY <1>1, <2>2, WithoutLast
  <2>5. text' \in Seq(Int) /\ value' \in Node(traversals) \cup {NULL}
    <3>1. heap[m].data \in Int /\ heap[m].right \in Node(traversals) \cup {NULL}
      BY <2>3 DEF Cell
    <3> QED
      BY <1>1, <2>2, <3>1, AppendProperties
  <2>6. Caller' = Caller /\ Cell' = Cell /\ Node(traversals)' = Node(traversals)
    BY <2>2 DEF Caller, Cell, Node
  <2> QED
    BY <2>2, <2>4, <2>5, <2>6 DEF TreeTypeOK
<1> QED
  BY <1>2, <1>3

LEMMA TypeRest == TreeTypeOK /\ (EmptyRange \/ TreeBuilt \/ TreePrinted) => TreeTypeOK'
<1> SUFFICES ASSUME TreeTypeOK, EmptyRange \/ TreeBuilt \/ TreePrinted PROVE TreeTypeOK'
  OBVIOUS
<1>1. /\ phase' \in {"return", "print", "done"}
      /\ value' \in {value, NULL} /\ tree' \in {tree, value}
      /\ UNCHANGED <<traversals, call, calls, preindex, heap, lost, walk, text>>
  BY DEF EmptyRange, TreeBuilt, TreePrinted
<1>2. Caller' = Caller /\ Cell' = Cell /\ Node(traversals)' = Node(traversals)
  BY <1>1 DEF Caller, Cell, Node
<1> QED
  BY <1>1, <1>2 DEF TreeTypeOK

(* The inductive invariant at the start, and after every step. *)
LEMMA InitTreeInv == TreeInit => TreeInv
<1> SUFFICES ASSUME TreeInit PROVE TreeInv
  OBVIOUS
<1>1. /\ traversals \in TreeInputs /\ phase = "call" /\ calls = << >> /\ preindex = 0
      /\ call = [start |-> 0, end |-> traversals.n - 1] /\ value = NULL /\ tree = NULL
      /\ heap = [v \in Node(traversals) |-> [data |-> 0, left |-> NULL, right |-> NULL]]
      /\ lost = {} /\ walk = << >> /\ text = << >>
  BY DEF TreeInit
<1>2. traversals.n \in Int /\ \A v \in Node(traversals) : v >= 0 /\ v \in Int
  BY <1>1, TreeShape
<1>3. TreeTypeOK
  <2>1. [data |-> 0, left |-> NULL, right |-> NULL] \in Cell
    BY DEF Cell
  <2>2. heap \in [Node(traversals) -> Cell]
    BY <1>1, <2>1
  <2>3. calls \in Seq(Caller) /\ walk \in Seq(Node(traversals)) /\ text \in Seq(Int)
    BY <1>1
  <2>4. call \in [start : Int, end : Int]
    BY <1>1, <1>2
  <2> QED
    BY <1>1, <2>2, <2>3, <2>4 DEF TreeTypeOK
<1>4. CallsOK
  BY <1>1 DEF CallsOK
<1>5. PreindexOK
  <2>1. Running = [start |-> 0, end |-> traversals.n - 1, node |-> 0]
    BY <1>1 DEF Running, CallAt
  <2> QED
    BY <1>1, <2>1 DEF PreindexOK
<1>6. HeapOK
  BY <1>1, <1>2 DEF HeapOK
<1>7. LostOK /\ BuiltOK /\ WalkOK
  BY <1>1 DEF LostOK, BuiltOK, WalkOK
<1> QED
  BY <1>3, <1>4, <1>5, <1>6, <1>7 DEF TreeInv

LEMMA StepTreeInv == TreeInv /\ [TreeNext]_treeVars => TreeInv'
<1> SUFFICES ASSUME TreeInv, [TreeNext]_treeVars PROVE TreeInv'
  OBVIOUS
<1>0. TreeTypeOK /\ BuildOK /\ BuiltOK /\ WalkOK
  BY DEF TreeInv, BuildOK
<1>1. SUFFICES TreeTypeOK' /\ BuildOK' /\ BuiltOK' /\ WalkOK'
  BY DEF TreeInv, BuildOK
<1>2. CASE EmptyRange
  <2>1. /\ phase = "call" /\ phase' = "return" /\ UNCHANGED <<walk, text>>
    BY <1>2 DEF EmptyRange
  <2> QED
    BY <1>0, <1>2, <2>1, StepEmptyRange, StepBuilding, TypeRest
<1>3. CASE CreateLeaf
  <2>1. /\ phase = "call" /\ phase' = "return" /\ UNCHANGED <<walk, text>>
    BY <1>3 DEF CreateLeaf
  <2> QED
    BY <1>0, <1>3, <2>1, StepCreateLeaf, StepBuilding, TypeCreateLeaf
<1>4. CASE CreateInner
  <2>1. /\ phase = "call" /\ phase' \in {"call", "killed"} /\ UNCHANGED <<walk, text>>
    BY <1>4 DEF CreateInner
  <2> QED
    BY <1>0, <1>4, <2>1, StepCreateInner, StepBuilding, TypeCreateInner
<1>5. CASE ReturnLeft
  <2>1. /\ phase = "return" /\ phase' = "call" /\ UNCHANGED <<walk, text>>
    BY <1>5 DEF ReturnLeft
  <2> QED
    BY <1>0, <1>5, <2>1, StepReturnLeft, StepBuilding, TypeReturnLeft
<1>6. CASE ReturnRight
  <2>1. /\ phase = "return" /\ phase' = "return" /\ UNCHANGED <<walk, text>>
    BY <1>6 DEF ReturnRight
  <2> QED
    BY <1>0, <1>6, <2>1, StepReturnRight, StepBuilding, TypeReturnRight
<1>7. CASE TreeBuilt
  BY <1>0, <1>7, StepTreeBuilt, TypeRest
<1>8. CASE PrintLeft
  BY <1>0, <1>8, StepPrintLeft, TypePrint
<1>9. CASE PrintNode
  BY <1>0, <1>9, StepPrintNode, TypePrint
<1>10. CASE TreePrinted
  BY <1>0, <1>10, StepTreePrinted, TypeRest
<1>11. CASE UNCHANGED treeVars
  <2>1. UNCHANGED <<traversals, phase, call, calls, preindex, value, heap, lost, tree, walk, text>>
    BY <1>11 DEF treeVars
  <2>2. TreeTypeOK'
    BY <1>0, <2>1 DEF TreeTypeOK, Caller, Cell, Node
  <2>3. \A k : CallAt(k)' = CallAt(k) /\ EndOf(k)' = EndOf(k) /\ KeptBelow(k)' = KeptBelow(k)
    BY <2>1 DEF CallAt, CallBy, LeftNode, RightNode, EndOf, KeptBelow
  <2>4. \A v : /\ LeftDone(v)' = LeftDone(v) /\ RightDone(v)' = RightDone(v)
               /\ LeftDue(v)' = LeftDue(v) /\ RightDue(v)' = RightDue(v)
    BY <2>1 DEF LeftDone, RightDone, LeftKept, RightKept, Kept, HasLeft, HasRight, LeftNode,
                RightNode, LeftDue, RightDue
  <2>5. Running' = Running
    BY <2>1, <2>3 DEF Running
  <2>6. CallsOK' /\ PreindexOK'
    BY <1>0, <2>1, <2>3, <2>4, <2>5 DEF BuildOK, CallsOK, CallOK, PreindexOK, Kept
  <2>7. HeapOK' /\ LostOK'
    BY <1>0, <2>1, <2>4 DEF BuildOK, HeapOK, LostOK, Node, IsLeaf, HasLeft, HasRight
  <2>8. BuiltOK' /\ WalkOK'
    BY <1>0, <2>1, <2>3 DEF BuiltOK, WalkOK, Kept, Shows
  <2> QED
    BY <2>2, <2>6, <2>7, <2>8 DEF BuildOK
<1> QED
  BY <1>2, <1>3, <1>4, <1>5, <1>6, <1>7, <1>8, <1>9, <1>10, <1>11 DEF TreeNext

(* Each call of buildtree ranges over the subtree of its node, preindex is  *)
(* at that node, and what the calls have finished is as it should be.       *)
THEOREM TreeInvariance == TreeSpec => []TreeInv
<1>1. TreeInit => TreeInv
  BY InitTreeInv
<1>2. TreeInv /\ [TreeNext]_treeVars => TreeInv'
  BY StepTreeInv
<1> QED
  BY <1>1, <1>2, PTL DEF TreeSpec

(* Whichever allocations fail: the tree is the one the traversals were taken *)
(* from, without the leaves that got no memory, and printInorder prints what *)
(* inorder has at the places of the nodes there are.                         *)
THEOREM Rebuilds == TreeSpec => []TreeRebuilt
<1>1. TreeInv => TreeRebuilt
  <2> SUFFICES ASSUME TreeInv PROVE TreeRebuilt
    OBVIOUS
  <2>1. TreeTypeOK /\ BuildOK /\ BuiltOK /\ WalkOK /\ LostOK
    BY DEF TreeInv, BuildOK
  <2>2. phase \in {"print", "done"} =>
          /\ preindex = traversals.n /\ tree = Kept(0)
          /\ \A v \in lost : IsLeaf(traversals, v)
          /\ \A v \in Node(traversals) \ lost :
               heap[v] = [data |-> traversals.pre[v], left |-> LeftKept(v), right |-> RightKept(v)]
    BY <2>1, WhenBuilt
  <2>3. phase = "done" => Shows(text, KeptBelow(traversals.n))
    BY <2>1 DEF WalkOK
  <2>4. phase = "killed" => \E v \in lost : ~IsLeaf(traversals, v)
    BY <2>1 DEF LostOK
  <2> QED
    BY <2>2, <2>3, <2>4 DEF TreeRebuilt
<1> QED
  BY <1>1, TreeInvariance, PTL

(* What the program has still to do: nodes to allocate, children to store,  *)
(* places to print.                                                         *)
PlacesLeft == traversals.n - (IF value = NULL THEN EndOf(Len(walk)) ELSE traversals.first[value])

TreeLeft ==
  <<IF phase \in {"call", "return"} THEN 2 ELSE IF phase = "print" THEN 1 ELSE 0,
    traversals.n - preindex,
    IF calls # << >> /\ Top.child = "left" THEN 2 * Len(calls) + 1 ELSE 2 * Len(calls),
    IF phase = "call" THEN 1 ELSE 0,
    PlacesLeft,
    IF value = NULL THEN 0 ELSE traversals.at[value] - traversals.first[value] + 1>>

(* No call takes more of pre than there is. *)
LEMMA PreindexInPre == TreeSpec => [](preindex <= traversals.n)
<1>1. TreeInit => preindex <= traversals.n
  BY TreesAssumption DEF TreeInit
<1>2. TreeInv /\ preindex <= traversals.n /\ [TreeNext]_treeVars => (preindex <= traversals.n)'
  <2> SUFFICES ASSUME TreeInv, preindex <= traversals.n, [TreeNext]_treeVars
               PROVE  (preindex <= traversals.n)'
    OBVIOUS
  <2>1. TreeTypeOK /\ BuildOK
    BY DEF TreeInv, BuildOK
  <2>2. traversals \in TreeInputs /\ traversals.n \in Int /\ call.start \in Int /\ call.end \in Int
        /\ \A v \in Node(traversals) : v \in Int /\ v < traversals.n
    BY <2>1, TreeShape DEF TreeTypeOK
  <2>3. CASE CreateLeaf \/ CreateInner
    <3>1. /\ phase = "call" /\ call.start <= call.end /\ UNCHANGED traversals
          /\ \E m : create_node(m)
      BY <2>2, <2>3 DEF CreateLeaf, CreateInner
    <3>2. preindex \in Node(traversals) /\ preindex' = preindex + 1
      BY <2>1, <3>1, Created
    <3> QED
      BY <2>2, <3>1, <3>2
  <2>4. CASE UNCHANGED <<traversals, preindex>>
    BY <2>4
  <2> QED
    BY <2>3, <2>4 DEF TreeNext, treeVars, EmptyRange, ReturnLeft, ReturnRight, TreeBuilt, PrintLeft,
                      PrintNode, TreePrinted
<1> QED
  BY <1>1, <1>2, TreeInvariance, PTL DEF TreeSpec

LEMMA TreeLeftType ==
  TreeTypeOK /\ preindex <= traversals.n => \A k \in 1..6 : TreeLeft[k] \in Nat
<1> SUFFICES ASSUME TreeTypeOK, preindex <= traversals.n PROVE \A k \in 1..6 : TreeLeft[k] \in Nat
  OBVIOUS
<1>1. /\ traversals \in TreeInputs /\ preindex \in Int /\ Len(calls) \in Nat
      /\ value \in Node(traversals) \cup {NULL} /\ walk \in Seq(Node(traversals))
  BY DEF TreeTypeOK
<1>2. /\ traversals.n \in Nat
      /\ \A v \in Node(traversals) :
           /\ traversals.at[v] \in Int /\ 0 <= traversals.at[v] /\ traversals.at[v] < traversals.n
           /\ traversals.first[v] \in Int /\ 0 <= traversals.first[v]
           /\ traversals.first[v] < traversals.n /\ traversals.first[v] <= traversals.at[v]
  BY <1>1, TreeShape
<1>3. /\ TreeLeft[1] \in {0, 1, 2} /\ TreeLeft[2] = traversals.n - preindex
      /\ TreeLeft[3] \in {2 * Len(calls), 2 * Len(calls) + 1} /\ TreeLeft[4] \in {0, 1}
      /\ TreeLeft[5] = PlacesLeft
      /\ TreeLeft[6] = IF value = NULL THEN 0
                       ELSE traversals.at[value] - traversals.first[value] + 1
  BY DEF TreeLeft
<1>4. PlacesLeft \in Nat
  <2>1. CASE value = NULL
    <3>1. EndOf(Len(walk)) \in Int /\ EndOf(Len(walk)) <= traversals.n
      <4>1. CASE Len(walk) = 0
        BY <1>2, <4>1 DEF EndOf
      <4>2. CASE Len(walk) # 0
        <5>1. walk[Len(walk)] \in Node(traversals)
          BY <1>1, <4>2
        <5> QED
          BY <1>2, <4>2, <5>1 DEF EndOf
      <4> QED
        BY <4>1, <4>2
    <3> QED
      BY <1>2, <2>1, <3>1 DEF PlacesLeft
  <2>2. CASE value # NULL
    BY <1>1, <1>2, <2>2 DEF PlacesLeft
  <2> QED
    BY <2>1, <2>2
<1>5. TreeLeft[2] \in Nat /\ TreeLeft[3] \in Nat
  BY <1>1, <1>2, <1>3
<1>6. TreeLeft[6] \in Nat
  <2>1. CASE value = NULL
    BY <1>3, <2>1
  <2>2. CASE value # NULL
    BY <1>1, <1>2, <1>3, <2>2
  <2> QED
    BY <2>1, <2>2
<1> QED
  BY <1>3, <1>4, <1>5, <1>6

(* printInorder goes down to the left, or on to the next place. *)
LEMMA PrintsOn ==
  ASSUME TreeInv, PrintLeft \/ PrintNode
  PROVE  \/ PlacesLeft' < PlacesLeft
         \/ PlacesLeft' = PlacesLeft /\ TreeLeft'[6] < TreeLeft[6]
<1>1. TreeTypeOK /\ BuildOK /\ BuiltOK /\ WalkOK
  BY DEF TreeInv, BuildOK
<1>2. /\ traversals \in TreeInputs /\ walk \in Seq(Node(traversals))
      /\ value \in Node(traversals) \cup {NULL}
  BY <1>1 DEF TreeTypeOK
<1>3. /\ TreeLeft[6] = IF value = NULL THEN 0
                       ELSE traversals.at[value] - traversals.first[value] + 1
      /\ TreeLeft'[6] = IF value' = NULL THEN 0
                        ELSE traversals'.at[value'] - traversals'.first[value'] + 1
  BY DEF TreeLeft
<1>4. /\ traversals.n \in Int
      /\ \A v \in Node(traversals) :
           /\ traversals.at[v] \in Int /\ traversals.first[v] \in Int /\ traversals.last[v] \in Int
           /\ traversals.first[v] <= traversals.at[v] /\ traversals.at[v] <= traversals.last[v]
  <2>1. /\ traversals.n \in Nat
        /\ \A v : v \in Node(traversals) <=> v \in Int /\ 0 <= v /\ v < traversals.n
    BY <1>2, TreeShape, Zenon
  <2>2. \A v \in Node(traversals) :
          /\ traversals.at[v] \in Node(traversals) /\ traversals.first[v] \in Node(traversals)
          /\ traversals.last[v] \in Node(traversals)
          /\ traversals.first[v] <= traversals.at[v] /\ traversals.at[v] <= traversals.last[v]
    BY <1>2, TreeShape, Zenon
  <2> QED
    BY <2>1, <2>2
<1>5. CASE PrintLeft
  <2>1. /\ phase = "print" /\ value # NULL /\ walk' = Append(walk, value)
        /\ value' = heap[value].left /\ traversals' = traversals
    BY <1>5 DEF PrintLeft
  <2>2. PICK v : v = value
    OBVIOUS
  <2>3. v \in Node(traversals) /\ v \notin lost
    BY <1>1, <1>2, <2>1, <2>2 DEF WalkOK
  <2>4. heap[v] = [data |-> traversals.pre[v], left |-> LeftKept(v), right |-> RightKept(v)]
    BY <1>1, <2>1, <2>3, WhenBuilt
  <2>5. PICK u : u = value'
    OBVIOUS
  <2>6. u = LeftKept(v)
    BY <2>1, <2>2, <2>4, <2>5
  <2>7. /\ PlacesLeft = traversals.n - traversals.first[v]
        /\ TreeLeft[6] = traversals.at[v] - traversals.first[v] + 1
    BY <1>3, <2>1, <2>2 DEF PlacesLeft
  <2>8. CASE u = NULL
    <3>1. /\ Len(walk') # 0 /\ walk'[Len(walk')] = v
      BY <1>2, <2>1, <2>2, <2>3, AppendProperties
    <3>2. EndOf(Len(walk))' = traversals.at[v]
      BY <2>1, <3>1 DEF EndOf
    <3>3. PlacesLeft' = traversals.n - traversals.at[v] /\ TreeLeft'[6] = 0
      BY <1>3, <2>1, <2>5, <2>8, <3>2 DEF PlacesLeft
    <3> QED
      BY <1>4, <2>3, <2>7, <3>3
  <2>9. CASE u # NULL
    <3>1. /\ u \in Node(traversals) /\ traversals.last[u] + 1 = traversals.at[v]
          /\ traversals.first[u] = traversals.first[v]
      BY <1>1, <2>1, <2>3, <2>6, <2>9, KeptChildren
    <3>2. /\ PlacesLeft' = traversals.n - traversals.first[u]
          /\ TreeLeft'[6] = traversals.at[u] - traversals.first[u] + 1
      BY <1>3, <2>1, <2>5, <2>9 DEF PlacesLeft
    <3>3. traversals.at[u] < traversals.at[v]
      BY <1>4, <2>3, <3>1
    <3> QED
      BY <1>4, <2>3, <2>7, <3>1, <3>2, <3>3
  <2> QED
    BY <2>8, <2>9
<1>6. CASE PrintNode
  <2>1. PICK v : v = walk[Len(walk)]
    OBVIOUS
  <2>2. /\ phase = "print" /\ value = NULL /\ walk # << >>
        /\ value' = heap[v].right /\ walk' = SubSeq(walk, 1, Len(walk) - 1)
        /\ traversals' = traversals
    BY <1>6, <2>1 DEF PrintNode
  <2>3. Len(walk) \in Nat /\ Len(walk) > 0 /\ v \in Node(traversals)
    BY <1>2, <2>1, <2>2
  <2>4. v \notin lost /\ traversals.last[v] + 1 = EndOf(Len(walk) - 1)
    BY <1>1, <2>1, <2>2, <2>3 DEF WalkOK
  <2>5. heap[v] = [data |-> traversals.pre[v], left |-> LeftKept(v), right |-> RightKept(v)]
    BY <1>1, <2>2, <2>3, <2>4, WhenBuilt
  <2>6. PICK u : u = value'
    OBVIOUS
  <2>7. u = RightKept(v)
    BY <2>2, <2>5, <2>6
  <2>8. EndOf(Len(walk)) = traversals.at[v]
    BY <2>1, <2>3 DEF EndOf
  <2>9. PlacesLeft = traversals.n - traversals.at[v]
    BY <2>2, <2>8 DEF PlacesLeft
  <2>10. CASE u = NULL
    <3>1. PICK l : l = Len(walk) - 1
      OBVIOUS
    <3>2. l \in Nat /\ Len(walk') = l /\ \A k \in 1..l : walk'[k] = walk[k]
      BY <1>2, <2>2, <2>3, <3>1, WithoutLast
    <3>3. EndOf(l)' = EndOf(l)
      BY <2>2, <3>2 DEF EndOf
    <3>4. EndOf(Len(walk))' = EndOf(l)'
      BY <3>2 DEF EndOf
    <3>5. PlacesLeft' = traversals.n - (traversals.last[v] + 1)
      BY <2>2, <2>4, <2>6, <2>10, <3>1, <3>3, <3>4 DEF PlacesLeft
    <3> QED
      BY <1>4, <2>3, <2>9, <3>5
  <2>11. CASE u # NULL
    <3>1. traversals.first[u] = traversals.at[v] + 1
      BY <1>1, <2>2, <2>3, <2>7, <2>11, KeptChildren
    <3>2. PlacesLeft' = traversals.n - traversals.first[u]
      BY <2>2, <2>6, <2>11 DEF PlacesLeft
    <3> QED
      BY <1>4, <2>3, <2>9, <3>1, <3>2
  <2> QED
    BY <2>10, <2>11
<1> QED
  BY <1>5, <1>6

(* Every step of buildtree and printInorder takes something away from what  *)
(* they have still to do: the program ends for every tree and whatever      *)
(* allocations fail, even if a leaf that is missing leaves a subtree out.   *)
THEOREM TreeEnds ==
  TreeSpec => /\ [](\A k \in 1..6 : TreeLeft[k] \in Nat)
              /\ [][Below(TreeLeft', TreeLeft, 6)]_treeVars
<1>1. TreeInv /\ preindex <= traversals.n => \A k \in 1..6 : TreeLeft[k] \in Nat
  BY TreeLeftType DEF TreeInv
<1>2. TreeInv /\ TreeInv' /\ [TreeNext]_treeVars => [Below(TreeLeft', TreeLeft, 6)]_treeVars
  <2> SUFFICES ASSUME TreeInv, TreeInv', TreeNext PROVE Below(TreeLeft', TreeLeft, 6)
    OBVIOUS
  <2> DEFINE s == TreeLeft'
             t == TreeLeft
  <2>1. /\ s[1] = (IF phase' \in {"call", "return"} THEN 2 ELSE IF phase' = "print" THEN 1 ELSE 0)
        /\ s[2] = traversals'.n - preindex'
        /\ s[3] = (IF calls' # << >> /\ Top'.child = "left"
                   THEN 2 * Len(calls') + 1 ELSE 2 * Len(calls'))
        /\ s[4] = (IF phase' = "call" THEN 1 ELSE 0) /\ s[5] = PlacesLeft'
        /\ t[1] = (IF phase \in {"call", "return"} THEN 2 ELSE IF phase = "print" THEN 1 ELSE 0)
        /\ t[2] = traversals.n - preindex
        /\ t[3] = (IF calls # << >> /\ Top.child = "left"
                   THEN 2 * Len(calls) + 1 ELSE 2 * Len(calls))
        /\ t[4] = (IF phase = "call" THEN 1 ELSE 0) /\ t[5] = PlacesLeft
    BY DEF TreeLeft
  <2>2. /\ TreeTypeOK /\ BuildOK /\ traversals \in TreeInputs /\ preindex \in Int
        /\ calls \in Seq(Caller) /\ Len(calls) \in Nat /\ call.start \in Int /\ call.end \in Int
    BY DEF TreeInv, TreeTypeOK, BuildOK
  <2>3. traversals.n \in Int
    BY <2>2, TreeShape
  <2>4. ASSUME \/ s[1] < t[1]
               \/ s[1] = t[1] /\ s[2] < t[2]
               \/ s[1] = t[1] /\ s[2] = t[2] /\ s[3] < t[3]
               \/ s[1] = t[1] /\ s[2] = t[2] /\ s[3] = t[3] /\ s[4] < t[4]
               \/ s[1] = t[1] /\ s[2] = t[2] /\ s[3] = t[3] /\ s[4] = t[4] /\ s[5] < t[5]
               \/ /\ s[1] = t[1] /\ s[2] = t[2] /\ s[3] = t[3] /\ s[4] = t[4]
                  /\ s[5] = t[5] /\ s[6] < t[6]
        PROVE  Below(TreeLeft', TreeLeft, 6)
    <3> HIDE DEF s, t
    <3>1. Below(s, t, 6)
      BY <2>4 DEF Below
    <3> QED
      BY <3>1 DEF s, t
  <2> HIDE DEF s, t
  <2>5. CASE EmptyRange
    <3>1. /\ phase = "call" /\ phase' = "return" /\ UNCHANGED <<traversals, calls, preindex>>
      BY <2>5 DEF EmptyRange
    <3>2. Top' = Top
      BY <3>1 DEF Top
    <3> QED
      BY <2>1, <2>4, <3>1, <3>2
  <2>6. CASE CreateLeaf \/ CreateInner
    <3>1. /\ phase = "call" /\ phase' \in {"call", "return", "killed"} /\ call.start <= call.end
          /\ UNCHANGED traversals /\ \E m : create_node(m)
      BY <2>2, <2>6 DEF CreateLeaf, CreateInner
    <3>2. preindex' = preindex + 1
      BY <3>1 DEF create_node
    <3>3. traversals'.n - preindex' < traversals.n - preindex
      BY <2>2, <2>3, <3>1, <3>2
    <3> QED
      BY <2>1, <2>4, <3>1, <3>3
  <2>7. CASE ReturnLeft
    <3>1. /\ phase = "return" /\ phase' = "call" /\ calls # << >> /\ Top.child = "left"
          /\ calls' = [calls EXCEPT ![Len(calls)].child = "right"]
          /\ UNCHANGED <<traversals, preindex>>
      BY <2>7 DEF ReturnLeft
    <3>2. Top = calls[Len(calls)] /\ Top \in Caller
      BY <2>2, <3>1, Calling
    <3>3. Len(calls') = Len(calls) /\ calls'[Len(calls)] = [Top EXCEPT !.child = "right"]
      BY <2>2, <3>1, <3>2
    <3>4. Top'.child = "right"
      BY <3>2, <3>3 DEF Top, Caller
    <3>5. t[3] = 2 * Len(calls) + 1 /\ s[3] = 2 * Len(calls)
      BY <2>1, <3>1, <3>3, <3>4
    <3> QED
      BY <2>1, <2>2, <2>4, <3>1, <3>5
  <2>8. CASE ReturnRight
    <3>1. /\ phase = "return" /\ phase' = "return" /\ calls # << >> /\ Top.child = "right"
          /\ calls' = SubSeq(calls, 1, Len(calls) - 1)
          /\ UNCHANGED <<traversals, preindex>>
      BY <2>8 DEF ReturnRight, Callers
    <3>2. Len(calls') = Len(calls) - 1
      BY <2>2, <3>1, WithoutLast
    <3>3. t[3] = 2 * Len(calls) /\ s[3] \in {2 * (Len(calls) - 1), 2 * (Len(calls) - 1) + 1}
      BY <2>1, <3>1, <3>2
    <3>4. s[3] < t[3]
      BY <2>2, <3>3
    <3> QED
      BY <2>1, <2>4, <3>1, <3>4
  <2>9. CASE TreeBuilt
    <3>1. phase = "return" /\ phase' = "print"
      BY <2>9 DEF TreeBuilt
    <3> QED
      BY <2>1, <2>4, <3>1
  <2>10. CASE PrintLeft \/ PrintNode
    <3>1. phase = "print" /\ phase' = "print" /\ UNCHANGED <<traversals, calls, preindex>>
      BY <2>10 DEF PrintLeft, PrintNode
    <3>2. Top' = Top
      BY <3>1 DEF Top
    <3>3. \/ PlacesLeft' < PlacesLeft
          \/ PlacesLeft' = PlacesLeft /\ TreeLeft'[6] < TreeLeft[6]
      BY <2>10, PrintsOn
    <3>4. s[6] = TreeLeft'[6] /\ t[6] = TreeLeft[6]
      BY DEF s, t
    <3>5. s[5] < t[5] \/ (s[5] = t[5] /\ s[6] < t[6])
      BY <2>1, <3>3, <3>4
    <3> QED
      BY <2>1, <2>4, <3>1, <3>2, <3>5
  <2>11. CASE TreePrinted
    <3>1. phase = "print" /\ phase' = "done"
      BY <2>11 DEF TreePrinted
    <3> QED
      BY <2>1, <2>4, <3>1
  <2> QED
    BY <2>5, <2>6, <2>7, <2>8, <2>9, <2>10, <2>11 DEF TreeNext
<1> QED
  BY <1>1, <1>2, TreeInvariance, PreindexInPre, PTL DEF TreeSpec
================================================================================
