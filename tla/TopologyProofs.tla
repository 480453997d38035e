--------------------------- MODULE TopologyProofs ---------------------------
(***************************************************************************)
(* The dynamic lists of all ranks agree in every round, for every number   *)
(* of machines and ranks and, for the one-peer generator, every graph.     *)
(* Induction is over the least counterexample, a set of naturals.          *)
(***************************************************************************)
EXTENDS Topology, FiniteSetTheorems, WellFoundedInduction, TLAPS

-----------------------------------------------------------------------------
(* Naturals *)

\* A set of naturals that is not empty has a least element.
LEMMA Least ==
  ASSUME NEW T, T \subseteq Nat, T # {}
  PROVE  \E x \in T : \A y \in T : x <= y
<1> DEFINE R == OpToRel(<, Nat)
<1>1. IsWellFoundedOn(R, Nat)
  BY NatLessThanWellFounded
<1>2. \A x, y \in Nat : x < y => <<x, y>> \in R
  BY DEF OpToRel
<1> HIDE DEF R
<1>3. PICK x \in T : \A y \in T : ~(<<y, x>> \in R)
  BY <1>1, WFMin
<1>4. ASSUME NEW y \in T PROVE x <= y
  <2>1. x \in Nat /\ y \in Nat
    OBVIOUS
  <2>2. ~(y < x)
    BY <2>1, <1>2, <1>3
  <2> QED
    BY <2>1, <2>2
<1> QED
  BY <1>3, <1>4

\* Induction, for a set of naturals.
LEMMA NatSetInduction ==
  ASSUME NEW T, 0 \in T, \A n \in Nat : n \in T => n + 1 \in T
  PROVE  Nat \subseteq T
<1> DEFINE C == Nat \ T
<1>1. SUFFICES ASSUME C # {} PROVE FALSE
  OBVIOUS
<1>2. PICK x \in C : \A y \in C : x <= y
  BY <1>1, Least
<1>3. x # 0 /\ x - 1 \in Nat /\ x - 1 \notin C
  BY <1>2
<1> QED
  BY <1>2, <1>3

-----------------------------------------------------------------------------
(* Powers of two: the recursive function exists, and what it computes. *)

\* f doubles from 1 on 0 .. n.
Doubling(f, n) ==
    /\ f \in [0 .. n -> Nat]
    /\ f[0] = 1
    /\ \A k \in 1 .. n : f[k] = 2 * f[k - 1]

LEMMA DoublingExists ==
  \A n \in Nat : \E f : Doubling(f, n)
<1> DEFINE T == {n \in Nat : \E f : Doubling(f, n)}
<1>1. 0 \in T
  <2>1. Doubling([k \in 0 .. 0 |-> 1], 0)
    BY DEF Doubling
  <2> QED
    BY <2>1
<1>2. ASSUME NEW n \in Nat, n \in T PROVE n + 1 \in T
  <2>1. PICK f : Doubling(f, n)
    BY <1>2
  <2> DEFINE g == [k \in 0 .. n + 1 |-> IF k = n + 1 THEN 2 * f[n] ELSE f[k]]
  <2>2. f[n] \in Nat /\ \A k \in 0 .. n : f[k] \in Nat
    BY <2>1 DEF Doubling
  <2>3. g \in [0 .. n + 1 -> Nat]
    BY <2>2
  <2>4. g[0] = 1
    BY <2>1 DEF Doubling
  <2>5. \A k \in 1 .. n + 1 : g[k] = 2 * g[k - 1]
    BY <2>1 DEF Doubling
  <2>6. Doubling(g, n + 1)
    BY <2>3, <2>4, <2>5 DEF Doubling
  <2> QED
    BY <2>6
<1> HIDE DEF T
<1>3. Nat \subseteq T
  BY <1>1, <1>2, NatSetInduction
<1> QED
  BY <1>3 DEF T

LEMMA DoublingUnique ==
  ASSUME NEW m \in Nat, NEW n \in Nat, NEW f, NEW g, Doubling(f, m), Doubling(g, n)
  PROVE  \A k \in Nat : k <= m /\ k <= n => f[k] = g[k]
<1> DEFINE T == {k \in Nat : k <= m /\ k <= n => f[k] = g[k]}
<1>1. 0 \in T
  BY DEF Doubling
<1>2. ASSUME NEW k \in Nat, k \in T PROVE k + 1 \in T
  BY <1>2 DEF Doubling
<1> HIDE DEF T
<1>3. Nat \subseteq T
  BY <1>1, <1>2, NatSetInduction
<1> QED
  BY <1>3 DEF T

\* The defining equation of Pow2.
LEMMA Pow2Def ==
  /\ Pow2 \in [Nat -> Nat]
  /\ Pow2[0] = 1
  /\ \A k \in Nat : Pow2[k + 1] = 2 * Pow2[k]
<1> DEFINE part(n) == CHOOSE f : Doubling(f, n)
           F == [n \in Nat |-> part(n)[n]]
           Eq(f) == f = [k \in Nat |-> IF k = 0 THEN 1 ELSE 2 * f[k - 1]]
<1>1. \A n \in Nat : Doubling(part(n), n)
  BY DoublingExists
<1> HIDE DEF part
<1>2. F \in [Nat -> Nat]
  BY <1>1 DEF Doubling
<1>3. F[0] = 1
  BY <1>1 DEF Doubling
<1>4. ASSUME NEW k \in Nat PROVE F[k + 1] = 2 * F[k]
  <2>1. part(k + 1)[k] = part(k)[k]
    BY <1>1, DoublingUnique
  <2>2. part(k + 1)[k + 1] = 2 * part(k + 1)[k]
    BY <1>1 DEF Doubling
  <2> QED
    BY <2>1, <2>2
<1>5. Eq(F)
  <2>1. ASSUME NEW k \in Nat PROVE F[k] = IF k = 0 THEN 1 ELSE 2 * F[k - 1]
    BY <1>3, <1>4, k = 0 \/ k - 1 \in Nat
  <2> QED
    BY <1>2, <2>1
<1> HIDE DEF F
<1>6. Eq(Pow2)
  <2>1. Pow2 = CHOOSE f : Eq(f)
    BY DEF Pow2
  <2>2. \E f : Eq(f)
    BY <1>5
  <2> HIDE DEF Eq
  <2> QED
    BY <2>1, <2>2
<1>7. /\ Pow2 = [k \in Nat |-> Pow2[k]]
      /\ \A k \in Nat : Pow2[k] = IF k = 0 THEN 1 ELSE 2 * Pow2[k - 1]
  BY <1>6
<1> DEFINE T == {k \in Nat : Pow2[k] \in Nat}
<1>8. 0 \in T
  BY <1>7
<1>9. ASSUME NEW k \in Nat, k \in T PROVE k + 1 \in T
  BY <1>7, <1>9, k + 1 # 0 /\ k + 1 \in Nat /\ (k + 1) - 1 = k
<1> HIDE DEF T
<1>10. Nat \subseteq T
  BY <1>8, <1>9, NatSetInduction
<1>11. \A k \in Nat : Pow2[k] \in Nat
  BY <1>10 DEF T
<1>12. Pow2 \in [Nat -> Nat]
  BY <1>7, <1>11
<1>13. ASSUME NEW k \in Nat PROVE Pow2[k + 1] = 2 * Pow2[k]
  BY <1>7, k + 1 # 0 /\ k + 1 \in Nat /\ (k + 1) - 1 = k
<1> QED
  BY <1>7, <1>12, <1>13

LEMMA Pow2Bounds ==
  \A k \in Nat : Pow2[k] \in Nat /\ Pow2[k] > k
<1> DEFINE T == {k \in Nat : Pow2[k] \in Nat /\ Pow2[k] > k}
<1>1. 0 \in T
  BY Pow2Def
<1>2. ASSUME NEW k \in Nat, k \in T PROVE k + 1 \in T
  <2>1. Pow2[k + 1] = 2 * Pow2[k]
    BY Pow2Def
  <2> QED
    BY <1>2, <2>1
<1> HIDE DEF T
<1>3. Nat \subseteq T
  BY <1>1, <1>2, NatSetInduction
<1> QED
  BY <1>3 DEF T

LEMMA Pow2Monotone ==
  ASSUME NEW i \in Nat
  PROVE  \A j \in Nat : i <= j => Pow2[i] <= Pow2[j]
<1> DEFINE T == {d \in Nat : Pow2[i] <= Pow2[i + d]}
<1>1. 0 \in T
  <2>1. i + 0 = i
    OBVIOUS
  <2> QED
    BY <2>1, Pow2Bounds
<1>2. ASSUME NEW d \in Nat, d \in T PROVE d + 1 \in T
  <2>1. i + d \in Nat /\ i + (d + 1) = (i + d) + 1
    OBVIOUS
  <2>2. Pow2[i + (d + 1)] = 2 * Pow2[i + d]
    BY <2>1, Pow2Def
  <2>3. Pow2[i + d] \in Nat /\ Pow2[i] \in Nat
    BY <2>1, Pow2Bounds
  <2> QED
    BY <1>2, <2>2, <2>3
<1> HIDE DEF T
<1>3. Nat \subseteq T
  BY <1>1, <1>2, NatSetInduction
<1>4. ASSUME NEW j \in Nat, i <= j PROVE Pow2[i] <= Pow2[j]
  <2>1. j - i \in Nat /\ i + (j - i) = j
    BY <1>4
  <2> QED
    BY <2>1, <1>3 DEF T
<1> QED
  BY <1>4

\* int(np.log2(x)) is the exponent of the largest power of two up to x.
LEMMA FloorLog2Def ==
  ASSUME NEW x \in Nat \ {0}
  PROVE  /\ FloorLog2(x) \in Nat
         /\ Pow2[FloorLog2(x)] <= x /\ x < Pow2[FloorLog2(x) + 1]
<1> DEFINE T == {k \in Nat : x < Pow2[k]}
<1>1. x \in T
  BY Pow2Bounds
<1>2. PICK n \in T : \A m \in T : n <= m
  BY <1>1, Least
<1>3. n # 0
  BY <1>2, Pow2Def
<1>4. n - 1 \in Nat /\ n - 1 \notin T
  BY <1>2, <1>3
<1>5. n <= x /\ n - 1 \in 0 .. x
  BY <1>1, <1>2, <1>4
<1>6. Pow2[n - 1] <= x
  BY <1>4, Pow2Bounds
<1>7. \E k \in 0 .. x : Pow2[k] <= x /\ x < Pow2[k + 1]
  <2>1. (n - 1) + 1 = n
    BY <1>2
  <2> QED
    BY <2>1, <1>2, <1>5, <1>6
<1>8. FloorLog2(x) \in 0 .. x /\ Pow2[FloorLog2(x)] <= x /\ x < Pow2[FloorLog2(x) + 1]
  BY <1>7 DEF FloorLog2
<1> QED
  BY <1>8

\* The distances that a generator draws are at least 1 and at most x.
LEMMA DistanceInRange ==
  ASSUME NEW x \in Nat \ {0}, NEW i \in Nat
  PROVE  Pow2[i % (FloorLog2(x) + 1)] \in 1 .. x
<1> DEFINE f == FloorLog2(x)
           k == i % (f + 1)
<1>1. f \in Nat /\ Pow2[f] <= x
  BY FloorLog2Def
<1> HIDE DEF f
<1>2. k \in Nat /\ k <= f
  BY <1>1
<1> HIDE DEF k
<1>3. Pow2[k] \in Nat /\ Pow2[k] > k /\ Pow2[f] \in Nat /\ Pow2[k] <= Pow2[f]
  BY <1>1, <1>2, Pow2Bounds, Pow2Monotone
<1>4. Pow2[k] \in 1 .. x
  BY <1>1, <1>2, <1>3
<1> QED
  BY <1>4 DEF k, f

-----------------------------------------------------------------------------
(* Remainders *)

LEMMA ModRange ==
  ASSUME NEW a \in Int, NEW n \in Nat \ {0}
  PROVE  a % n \in 0 .. n - 1
OBVIOUS

\* Steps around a circle of n, as a comparison.
LEMMA ModAdd ==
  ASSUME NEW n \in Nat \ {0}, NEW a \in 0 .. n - 1, NEW d \in 0 .. n - 1
  PROVE  /\ (a + d) % n = IF a + d < n THEN a + d ELSE a + d - n
         /\ (a - d) % n = IF a >= d THEN a - d ELSE a - d + n
OBVIOUS

\* The rank of place l on machine m, and back.
LEMMA PlaceOf ==
  ASSUME NEW n \in Nat \ {0}, NEW m \in Nat, NEW l \in 0 .. n - 1
  PROVE  (m * n + l) \div n = m /\ (m * n + l) % n = l
OBVIOUS

\* Place l of machine m.
PlaceAt(n, m, l) == m * n + l

LEMMA DivisionExists ==
  ASSUME NEW n \in Nat \ {0}
  PROVE  \A r \in Nat : \E m \in Nat, l \in 0 .. n - 1 : r = PlaceAt(n, m, l)
<1> DEFINE T == {r \in Nat : \E m \in Nat, l \in 0 .. n - 1 : r = PlaceAt(n, m, l)}
<1>1. 0 \in T
  <2>1. 0 = PlaceAt(n, 0, 0) /\ 0 \in 0 .. n - 1
    BY DEF PlaceAt
  <2> QED
    BY <2>1
<1>2. ASSUME NEW r \in Nat, r \in T PROVE r + 1 \in T
  <2>1. PICK m \in Nat, l \in 0 .. n - 1 : r = PlaceAt(n, m, l)
    BY <1>2
  <2>2. CASE l < n - 1
    <3>1. r + 1 = PlaceAt(n, m, l + 1) /\ l + 1 \in 0 .. n - 1
      BY <2>1, <2>2 DEF PlaceAt
    <3> QED
      BY <3>1
  <2>3. CASE l = n - 1
    <3>1. r + 1 = PlaceAt(n, m + 1, 0) /\ 0 \in 0 .. n - 1 /\ m + 1 \in Nat
      BY <2>1, <2>3 DEF PlaceAt
    <3> QED
      BY <3>1
  <2> QED
    BY <2>2, <2>3
<1> HIDE DEF T
<1>3. Nat \subseteq T
  BY <1>1, <1>2, NatSetInduction
<1> QED
  BY <1>3 DEF T

LEMMA RankOf ==
  ASSUME NEW n \in Nat \ {0}, NEW q \in Nat, NEW r \in 0 .. q * n - 1
  PROVE  /\ r \div n \in 0 .. q - 1
         /\ r % n \in 0 .. n - 1
         /\ r = PlaceAt(n, r \div n, r % n)
<1>1. r \div n \in 0 .. q - 1
  OBVIOUS
<1>2. r \in Nat
  OBVIOUS
<1>3. PICK m \in Nat, l \in 0 .. n - 1 : r = PlaceAt(n, m, l)
  BY <1>2, DivisionExists
<1>4. r \div n = m /\ r % n = l
  BY <1>3, PlaceOf DEF PlaceAt
<1> QED
  BY <1>1, <1>3, <1>4

LEMMA PlaceInRange ==
  ASSUME NEW n \in Nat \ {0}, NEW q \in Nat, NEW m \in 0 .. q - 1, NEW l \in 0 .. n - 1
  PROVE  PlaceAt(n, m, l) \in 0 .. q * n - 1
<1>1. (q - 1 - m) * n >= 0
  BY q - 1 - m \in Nat
<1>2. q * n = (q - 1 - m) * n + m * n + n
  OBVIOUS
<1>3. m * n \in Nat
  OBVIOUS
<1> QED
  BY <1>1, <1>2, <1>3 DEF PlaceAt

LEMMA SamePlace ==
  ASSUME NEW n \in Nat \ {0}, NEW m1 \in Nat, NEW m2 \in Nat,
         NEW l1 \in 0 .. n - 1, NEW l2 \in 0 .. n - 1
  PROVE  PlaceAt(n, m1, l1) = PlaceAt(n, m2, l2) <=> m1 = m2 /\ l1 = l2
BY PlaceOf DEF PlaceAt

-----------------------------------------------------------------------------
(* Lists that match *)

\* Everybody's lists name others only, and r sends to s exactly if s receives from r.
Match(ranks, lists) ==
    \A r \in ranks :
        /\ lists[r].send \cup lists[r].recv \subseteq ranks \ {r}
        /\ \A s \in ranks : (r \in lists[s].send) <=> (s \in lists[r].recv)

\* Steps of d around a circle, forward and back.
LEMMA CircleMatches ==
  ASSUME NEW n \in Nat \ {0}, NEW d \in 1 .. n - 1, NEW a \in 0 .. n - 1, NEW b \in 0 .. n - 1
  PROVE  /\ (a + d) % n \in 0 .. n - 1 /\ (a + d) % n # a
         /\ (a - d) % n \in 0 .. n - 1 /\ (a - d) % n # a
         /\ (a + d) % n = b <=> (b - d) % n = a
<1>1. d \in 0 .. n - 1
  OBVIOUS
<1>2. /\ (a + d) % n = IF a + d < n THEN a + d ELSE a + d - n
      /\ (a - d) % n = IF a >= d THEN a - d ELSE a - d + n
      /\ (b - d) % n = IF b >= d THEN b - d ELSE b - d + n
  BY <1>1, ModAdd
<1> QED
  BY <1>2

\* What the inner-outer generators have in common: one place of each machine talks to
\* the machines at distance e, the others to each other.
InnerOuter(n, q, out, e, up, down, r) ==
    IF r % n = out
    THEN Lists({PlaceAt(n, ((r \div n) + e) % q, r % n)},
               {PlaceAt(n, ((r \div n) - e) % q, r % n)})
    ELSE Lists({PlaceAt(n, r \div n, up[r % n])}, {PlaceAt(n, r \div n, down[r % n])})

\* Inside a machine the two sides step over the place that is outside.
InnerPairs(n, out, up, down) ==
    \A a, b \in (0 .. n - 1) \ {out} :
        /\ up[a] \in (0 .. n - 1) \ {out, a}
        /\ down[b] \in (0 .. n - 1) \ {out, b}
        /\ up[a] = b <=> down[b] = a

LEMMA InnerOuterMatches ==
  ASSUME NEW n \in Nat \ {0}, NEW q \in Nat \ {0}, NEW out \in 0 .. n - 1, NEW e \in 1 .. q - 1,
         NEW up, NEW down, InnerPairs(n, out, up, down)
  PROVE  Match(Ranks(q * n),
               [r \in Ranks(q * n) |-> InnerOuter(n, q, out, e, up, down, r)])
<1> DEFINE lists == [r \in Ranks(q * n) |-> InnerOuter(n, q, out, e, up, down, r)]
<1>1. ASSUME NEW r \in Ranks(q * n), NEW s \in Ranks(q * n)
      PROVE  /\ lists[r].send \cup lists[r].recv \subseteq Ranks(q * n) \ {r}
             /\ (r \in lists[s].send) <=> (s \in lists[r].recv)
  <2> DEFINE m1 == r \div n
             l1 == r % n
             m2 == s \div n
             l2 == s % n
             sm == IF l2 = out THEN (m2 + e) % q ELSE m2
             sl == IF l2 = out THEN l2 ELSE up[l2]
             rm == IF l1 = out THEN (m1 - e) % q ELSE m1
             rl == IF l1 = out THEN l1 ELSE down[l1]
             tm == IF l1 = out THEN (m1 + e) % q ELSE m1
             tl == IF l1 = out THEN l1 ELSE up[l1]
  <2>1. /\ m1 \in 0 .. q - 1 /\ l1 \in 0 .. n - 1 /\ r = PlaceAt(n, m1, l1)
        /\ m2 \in 0 .. q - 1 /\ l2 \in 0 .. n - 1 /\ s = PlaceAt(n, m2, l2)
    BY RankOf DEF Ranks
  <2>2. /\ lists[r].send = {PlaceAt(n, tm, tl)}
        /\ lists[r].recv = {PlaceAt(n, rm, rl)}
        /\ lists[s].send = {PlaceAt(n, sm, sl)}
    BY DEF InnerOuter, Lists
  <2> HIDE DEF m1, l1, m2, l2, lists
  <2>3. /\ sm \in 0 .. q - 1 /\ rm \in 0 .. q - 1 /\ tm \in 0 .. q - 1
    BY <2>1, CircleMatches
  <2>4. /\ sl \in 0 .. n - 1 /\ rl \in 0 .. n - 1 /\ tl \in 0 .. n - 1
    BY <2>1 DEF InnerPairs
  <2>5. ~(tm = m1 /\ tl = l1) /\ ~(rm = m1 /\ rl = l1)
    BY <2>1, CircleMatches DEF InnerPairs
  <2>6. (sm = m1 /\ sl = l1) <=> (rm = m2 /\ rl = l2)
    <3>1. CASE l1 = out /\ l2 = out
      BY <2>1, <3>1, CircleMatches
    <3>2. CASE l1 # out /\ l2 # out
      BY <2>1, <3>2 DEF InnerPairs
    <3>3. CASE l1 = out /\ l2 # out
      BY <2>1, <3>3 DEF InnerPairs
    <3>4. CASE l1 # out /\ l2 = out
      BY <2>1, <3>4 DEF InnerPairs
    <3> QED
      BY <3>1, <3>2, <3>3, <3>4
  <2> HIDE DEF sm, sl, rm, rl, tm, tl
  <2>7. /\ PlaceAt(n, tm, tl) \in Ranks(q * n) /\ PlaceAt(n, rm, rl) \in Ranks(q * n)
    BY <2>3, <2>4, PlaceInRange DEF Ranks
  <2>8. PlaceAt(n, tm, tl) # r /\ PlaceAt(n, rm, rl) # r
    BY <2>1, <2>3, <2>4, <2>5, SamePlace
  <2>9. /\ PlaceAt(n, sm, sl) = r <=> sm = m1 /\ sl = l1
        /\ PlaceAt(n, rm, rl) = s <=> rm = m2 /\ rl = l2
    BY <2>1, <2>3, <2>4, SamePlace
  <2> QED
    BY <2>2, <2>6, <2>7, <2>8, <2>9
<1> HIDE DEF lists
<1>2. Match(Ranks(q * n), lists)
  BY <1>1 DEF Match
<1> QED
  BY <1>2 DEF lists

\* Steps of k < n around a circle, as comparisons.
Fwd(n, a, k) == IF a + k < n THEN a + k ELSE a + k - n
Bwd(n, a, k) == IF a >= k THEN a - k ELSE a - k + n

LEMMA Steps ==
  ASSUME NEW n \in Nat \ {0}, NEW a \in 0 .. n - 1, NEW d \in 0 .. n - 1
  PROVE  /\ (a + d) % n = Fwd(n, a, d) /\ Fwd(n, a, d) \in 0 .. n - 1
         /\ (a - d) % n = Bwd(n, a, d) /\ Bwd(n, a, d) \in 0 .. n - 1
<1>1. /\ (a + d) % n = IF a + d < n THEN a + d ELSE a + d - n
      /\ (a - d) % n = IF a >= d THEN a - d ELSE a - d + n
  BY ModAdd
<1> QED
  BY <1>1 DEF Fwd, Bwd

\* The ring inside a machine: a pair of places.
LEMMA RingPair ==
  ASSUME NEW n \in Nat, n > 2, NEW out \in 0 .. n - 1,
         NEW a \in (0 .. n - 1) \ {out}, NEW b \in (0 .. n - 1) \ {out}, NEW x, NEW y,
         x = IF Fwd(n, a, 1) = out THEN Fwd(n, Fwd(n, a, 1), 1) ELSE Fwd(n, a, 1),
         y = IF Bwd(n, b, 1) = out THEN Bwd(n, Bwd(n, b, 1), 1) ELSE Bwd(n, b, 1)
  PROVE  /\ x \in (0 .. n - 1) \ {out, a}
         /\ y \in (0 .. n - 1) \ {out, b}
         /\ x = b <=> y = a
BY DEF Fwd, Bwd

\* Exponential steps inside a machine, d of them not counting the place outside.
LEMMA ExpoPair ==
  ASSUME NEW n \in Nat, n > 2, NEW out \in 0 .. n - 1, NEW d \in 1 .. n - 2,
         NEW a \in (0 .. n - 1) \ {out}, NEW b \in (0 .. n - 1) \ {out}, NEW x, NEW y,
         x = Fwd(n, a, IF d >= Bwd(n, out, a) THEN d + 1 ELSE d),
         y = Bwd(n, b, IF d >= Bwd(n, b, out) THEN d + 1 ELSE d)
  PROVE  /\ x \in (0 .. n - 1) \ {out, a}
         /\ y \in (0 .. n - 1) \ {out, b}
         /\ x = b <=> y = a
BY DEF Fwd, Bwd

-----------------------------------------------------------------------------
(* The generators. q machines have n ranks each. *)

LEMMA MachinesOf ==
  ASSUME NEW q \in Nat, NEW n \in Nat \ {0}
  PROVE  (q * n) \div n = q
BY PlaceOf

\* GetInnerOuterRingDynamicSendRecvRanks.
LEMMA RingMatches ==
  ASSUME NEW n \in Nat, n > 2, NEW q \in Nat, q > 1, NEW i \in Nat
  PROVE  Match(Ranks(q * n), [r \in Ranks(q * n) |->
                                GetInnerOuterRingDynamicSendRecvRanks(q * n, n, r, i)])
<1> DEFINE out == i % n
           up == [a \in 0 .. n - 1 |->
                    IF (a + 1) % n = out THEN (((a + 1) % n) + 1) % n ELSE (a + 1) % n]
           down == [a \in 0 .. n - 1 |->
                    IF (a - 1) % n = out THEN (((a - 1) % n) + (-1)) % n ELSE (a - 1) % n]
<1>1. n \in Nat \ {0} /\ q \in Nat \ {0} /\ 1 \in 1 .. q - 1 /\ 1 \in 0 .. n - 1
  OBVIOUS
<1>2. out \in 0 .. n - 1
  BY <1>1, ModRange
<1>3. ASSUME NEW r \in Ranks(q * n)
      PROVE  GetInnerOuterRingDynamicSendRecvRanks(q * n, n, r, i)
                = InnerOuter(n, q, out, 1, up, down, r)
  <2>1. r % n \in 0 .. n - 1
    BY <1>1, ModRange DEF Ranks
  <2>2. /\ up[r % n] = IF ((r % n) + 1) % n = out THEN ((((r % n) + 1) % n) + 1) % n
                       ELSE ((r % n) + 1) % n
        /\ down[r % n] = IF ((r % n) - 1) % n = out THEN ((((r % n) - 1) % n) + (-1)) % n
                         ELSE ((r % n) - 1) % n
    BY <2>1
  <2> HIDE DEF up, down
  <2> QED
    BY <1>1, <2>2, MachinesOf DEF GetInnerOuterRingDynamicSendRecvRanks, InnerOuter, PlaceAt
<1>4. InnerPairs(n, out, up, down)
  <2> HIDE DEF out
  <2> SUFFICES ASSUME NEW a \in (0 .. n - 1) \ {out}, NEW b \in (0 .. n - 1) \ {out}
               PROVE  /\ up[a] \in (0 .. n - 1) \ {out, a}
                      /\ down[b] \in (0 .. n - 1) \ {out, b}
                      /\ up[a] = b <=> down[b] = a
    BY DEF InnerPairs
  <2>1. /\ (a + 1) % n = Fwd(n, a, 1) /\ Fwd(n, a, 1) \in 0 .. n - 1
        /\ (b - 1) % n = Bwd(n, b, 1) /\ Bwd(n, b, 1) \in 0 .. n - 1
    BY <1>1, Steps
  <2>2. /\ (Fwd(n, a, 1) + 1) % n = Fwd(n, Fwd(n, a, 1), 1)
        /\ (Bwd(n, b, 1) - 1) % n = Bwd(n, Bwd(n, b, 1), 1)
    BY <1>1, <2>1, Steps
  <2>3. Bwd(n, b, 1) + (-1) = Bwd(n, b, 1) - 1
    BY <2>1
  <2>4. /\ up[a] = IF Fwd(n, a, 1) = out THEN Fwd(n, Fwd(n, a, 1), 1) ELSE Fwd(n, a, 1)
        /\ down[b] = IF Bwd(n, b, 1) = out THEN Bwd(n, Bwd(n, b, 1), 1) ELSE Bwd(n, b, 1)
    BY <2>1, <2>2, <2>3
  <2> HIDE DEF up, down
  <2> QED
    BY <1>2, <2>4, RingPair
<1> HIDE DEF out, up, down
<1>5. Match(Ranks(q * n), [r \in Ranks(q * n) |-> InnerOuter(n, q, out, 1, up, down, r)])
  BY <1>1, <1>2, <1>4, InnerOuterMatches
<1>6. [r \in Ranks(q * n) |-> InnerOuter(n, q, out, 1, up, down, r)]
        = [r \in Ranks(q * n) |-> GetInnerOuterRingDynamicSendRecvRanks(q * n, n, r, i)]
  BY <1>3
<1> QED
  BY <1>5, <1>6

\* GetInnerOuterExpo2DynamicSendRecvRanks.
LEMMA ExpoMatches ==
  ASSUME NEW n \in Nat, n > 2, NEW q \in Nat, q > 1, NEW i \in Nat
  PROVE  Match(Ranks(q * n), [r \in Ranks(q * n) |->
                                GetInnerOuterExpo2DynamicSendRecvRanks(q * n, n, r, i)])
<1> DEFINE out == i % n
           e == Pow2[i % (FloorLog2(q - 1) + 1)]
           d == Pow2[i % (FloorLog2(n - 2) + 1)]
           up == [a \in 0 .. n - 1 |-> (a + (IF d >= (out - a) % n THEN d + 1 ELSE d)) % n]
           down == [a \in 0 .. n - 1 |-> (a - (IF d >= (a - out) % n THEN d + 1 ELSE d)) % n]
<1>1. /\ n \in Nat \ {0} /\ q \in Nat \ {0}
      /\ n - 2 \in Nat \ {0} /\ q - 1 \in Nat \ {0}
  OBVIOUS
<1>2. out \in 0 .. n - 1
  BY <1>1, ModRange
<1>3. e \in 1 .. q - 1 /\ d \in 1 .. n - 2
  BY <1>1, DistanceInRange
<1>4. ASSUME NEW r \in Ranks(q * n)
      PROVE  GetInnerOuterExpo2DynamicSendRecvRanks(q * n, n, r, i)
                = InnerOuter(n, q, out, e, up, down, r)
  <2>1. r % n \in 0 .. n - 1
    BY <1>1, ModRange DEF Ranks
  <2>2. /\ up[r % n] = ((r % n) + (IF d >= (out - (r % n)) % n THEN d + 1 ELSE d)) % n
        /\ down[r % n] = ((r % n) - (IF d >= ((r % n) - out) % n THEN d + 1 ELSE d)) % n
    BY <2>1
  <2> HIDE DEF up, down
  <2> QED
    BY <1>1, <2>2, MachinesOf DEF GetInnerOuterExpo2DynamicSendRecvRanks, InnerOuter, PlaceAt
<1>5. InnerPairs(n, out, up, down)
  <2> HIDE DEF out, d
  <2> SUFFICES ASSUME NEW a \in (0 .. n - 1) \ {out}, NEW b \in (0 .. n - 1) \ {out}
               PROVE  /\ up[a] \in (0 .. n - 1) \ {out, a}
                      /\ down[b] \in (0 .. n - 1) \ {out, b}
                      /\ up[a] = b <=> down[b] = a
    BY DEF InnerPairs
  <2>1. /\ (out - a) % n = Bwd(n, out, a) /\ Bwd(n, out, a) \in 0 .. n - 1
        /\ (b - out) % n = Bwd(n, b, out) /\ Bwd(n, b, out) \in 0 .. n - 1
    BY <1>1, <1>2, Steps
  <2> DEFINE f == IF d >= Bwd(n, out, a) THEN d + 1 ELSE d
             g == IF d >= Bwd(n, b, out) THEN d + 1 ELSE d
  <2>2. up[a] = (a + f) % n /\ down[b] = (b - g) % n
    <3>1. /\ up[a] = (a + (IF d >= (out - a) % n THEN d + 1 ELSE d)) % n
          /\ down[b] = (b - (IF d >= (b - out) % n THEN d + 1 ELSE d)) % n
      OBVIOUS
    <3> HIDE DEF up, down
    <3> QED
      BY <2>1, <3>1
  <2>3. f \in 0 .. n - 1 /\ g \in 0 .. n - 1
    BY <1>1, <1>3, <2>1
  <2> HIDE DEF up, down, f, g
  <2>4. up[a] = Fwd(n, a, f) /\ down[b] = Bwd(n, b, g)
    BY <1>1, <2>2, <2>3, Steps
  <2> USE DEF f, g
  <2> QED
    BY <1>2, <1>3, <2>4, ExpoPair
<1> HIDE DEF out, e, up, down
<1>6. Match(Ranks(q * n), [r \in Ranks(q * n) |-> InnerOuter(n, q, out, e, up, down, r)])
  BY <1>1, <1>2, <1>3, <1>5, InnerOuterMatches
<1>7. [r \in Ranks(q * n) |-> InnerOuter(n, q, out, e, up, down, r)]
        = [r \in Ranks(q * n) |-> GetInnerOuterExpo2DynamicSendRecvRanks(q * n, n, r, i)]
  BY <1>4
<1> QED
  BY <1>6, <1>7

\* GetExp2DynamicSendRecvMachineRanks, between machines.
LEMMA MachineMatches ==
  ASSUME NEW n \in Nat \ {0}, NEW q \in Nat, q > 1, NEW i \in Nat
  PROVE  Match(Ranks(q), [r \in Ranks(q) |->
                            GetExp2DynamicSendRecvMachineRanks(q * n, n, r * n, i)])
<1> DEFINE e == Pow2[i % (FloorLog2(q - 1) + 1)]
           lists == [r \in Ranks(q) |-> GetExp2DynamicSendRecvMachineRanks(q * n, n, r * n, i)]
<1>1. q \in Nat \ {0} /\ q - 1 \in Nat \ {0}
  OBVIOUS
<1>2. e \in 1 .. q - 1
  BY <1>1, DistanceInRange
<1>3. ASSUME NEW r \in Ranks(q)
      PROVE  lists[r] = Lists({(r + e) % q}, {(r - e) % q})
  <2>1. (r * n) \div n = r /\ (q * n) \div n = q
    BY MachinesOf DEF Ranks
  <2> QED
    BY <2>1 DEF GetExp2DynamicSendRecvMachineRanks
<1> HIDE DEF e, lists
<1>4. ASSUME NEW r \in Ranks(q), NEW s \in Ranks(q)
      PROVE  /\ lists[r].send \cup lists[r].recv \subseteq Ranks(q) \ {r}
             /\ (r \in lists[s].send) <=> (s \in lists[r].recv)
  <2>1. r \in 0 .. q - 1 /\ s \in 0 .. q - 1
    BY DEF Ranks
  <2>2. /\ (r + e) % q \in (0 .. q - 1) \ {r} /\ (r - e) % q \in (0 .. q - 1) \ {r}
        /\ (s + e) % q = r <=> (r - e) % q = s
    BY <1>1, <1>2, <2>1, CircleMatches
  <2>3. /\ lists[r] = Lists({(r + e) % q}, {(r - e) % q})
        /\ lists[s] = Lists({(s + e) % q}, {(s - e) % q})
    BY <1>3
  <2>4. /\ lists[r].send = {(r + e) % q} /\ lists[r].recv = {(r - e) % q}
        /\ lists[s].send = {(s + e) % q}
    BY <2>3 DEF Lists
  <2> QED
    BY <2>2, <2>4 DEF Ranks
<1>5. Match(Ranks(q), lists)
  BY <1>4 DEF Match
<1> QED
  BY <1>5 DEF lists

-----------------------------------------------------------------------------
(* The one-peer generator *)

\* Of a finite set ordered by distances that differ, every position below its size is taken.
LEMMA Ranking ==
  ASSUME NEW S, IsFiniteSet(S), NEW n \in Nat, NEW d \in [S -> 0 .. n],
         \A s, t \in S : d[s] = d[t] => s = t,
         NEW k \in Nat, k < Cardinality(S)
  PROVE  \E s \in S : Cardinality({t \in S : d[t] < d[s]}) = k
<1> DEFINE Below(m) == {t \in S : d[t] < m}
           Closer(m) == Cardinality(Below(m))
           T == {m \in Nat : Closer(m) > k}
<1>1. \A m \in Nat : Below(m) \in SUBSET S
  OBVIOUS
<1>2. \A m \in Nat : IsFiniteSet(Below(m)) /\ Closer(m) \in Nat
  <2> HIDE DEF Below
  <2> QED
    BY <1>1, FS_Subset, FS_CardinalityType
<1>3. Below(n + 1) = S /\ Below(0) = {}
  OBVIOUS
<1>4. \A m \in Nat, t \in S : t \in Below(m) <=> d[t] < m
  OBVIOUS
<1> HIDE DEF Below
<1>5. Closer(n + 1) = Cardinality(S) /\ Closer(0) = 0
  BY <1>3, FS_EmptySet
<1> HIDE DEF Closer
<1>6. n + 1 \in T
  BY <1>5, FS_CardinalityType
<1>7. PICK m \in T : \A x \in T : m <= x
  BY <1>6, Least
<1>8. m - 1 \in Nat /\ m - 1 \notin T
  BY <1>5, <1>7
<1>9. Closer(m - 1) <= k /\ Closer(m) > k
  BY <1>2, <1>7, <1>8
<1>10. PICK s \in Below(m) : s \notin Below(m - 1)
  <2>1. Below(m - 1) \subseteq Below(m)
    BY <1>1, <1>4, <1>7, <1>8
  <2>2. Below(m - 1) # Below(m)
    BY <1>2, <1>7, <1>8, <1>9 DEF Closer
  <2> QED
    BY <2>1, <2>2
<1>11. s \in S /\ d[s] = m - 1
  BY <1>1, <1>4, <1>7, <1>8, <1>10
<1>12. Below(m) = Below(m - 1) \cup {s}
  BY <1>1, <1>4, <1>7, <1>8, <1>10, <1>11
<1>13. Closer(m) = Closer(m - 1) + 1
  BY <1>2, <1>8, <1>10, <1>12, FS_AddElement DEF Closer
<1>14. Closer(m - 1) = k
  BY <1>2, <1>7, <1>8, <1>9, <1>13
<1>15. {t \in S : d[t] < d[s]} = Below(m - 1)
  BY <1>11 DEF Below
<1> QED
  BY <1>11, <1>14, <1>15 DEF Closer

\* The peer that a rank draws exists: it is another rank.
LEMMA OnePeerExists ==
  ASSUME NEW n \in Nat, NEW topo, DOMAIN topo = Ranks(n), NEW r \in Ranks(n),
         OutDegree(topo, r) >= 2, NEW i \in Nat
  PROVE  OnePeer(topo, r, i) \in Ranks(n) \ {r}
<1> DEFINE succ == Successors(topo, r)
           peers == succ \ {r}
           d == [s \in peers |-> (s - r) % n]
           k == i % (OutDegree(topo, r) - 1)
<1>1. n \in Nat \ {0} /\ r \in 0 .. n - 1
  BY DEF Ranks
<1>2. IsFiniteSet(Ranks(n)) /\ Size(topo) = n
  <2> DEFINE b == n - 1
  <2>1. 0 \in Int /\ b \in Int
    BY <1>1
  <2> HIDE DEF b
  <2>2. IsFiniteSet(0 .. b) /\ Cardinality(0 .. b) = IF 0 > b THEN 0 ELSE b - 0 + 1
    BY <2>1, FS_Interval
  <2>3. /\ IsFiniteSet(0 .. n - 1)
        /\ Cardinality(0 .. n - 1) = IF 0 > n - 1 THEN 0 ELSE (n - 1) - 0 + 1
    BY <2>2 DEF b
  <2>4. Cardinality(0 .. n - 1) = n
    BY <1>1, <2>3
  <2>5. 0 .. n - 1 = Ranks(n) /\ DOMAIN topo = Ranks(n)
    BY DEF Ranks
  <2>6. Size(topo) = Cardinality(Ranks(n))
    BY <2>5 DEF Size
  <2> QED
    BY <2>3, <2>4, <2>5, <2>6
<1>3. succ \in SUBSET Ranks(n)
  BY DEF Successors
<1> HIDE DEF succ
<1>4. IsFiniteSet(succ) /\ Cardinality(succ) \in Nat
  BY <1>2, <1>3, FS_Subset, FS_CardinalityType
<1>5. OutDegree(topo, r) = Cardinality(succ)
  BY DEF OutDegree, succ
<1>6. /\ IsFiniteSet(peers)
      /\ Cardinality(peers) = IF r \in succ THEN Cardinality(succ) - 1 ELSE Cardinality(succ)
  BY <1>4, FS_RemoveElement
<1>7. peers \subseteq (0 .. n - 1) \ {r}
  BY <1>3 DEF Ranks
<1>8. k \in Nat /\ k < Cardinality(peers)
  <2>1. OutDegree(topo, r) \in Nat /\ OutDegree(topo, r) - 1 \in Nat \ {0}
    BY <1>4, <1>5
  <2> DEFINE D == OutDegree(topo, r) - 1
  <2>2. D \in Nat \ {0} /\ i \in Int /\ k = i % D
    BY <2>1
  <2> HIDE DEF D
  <2>3. i % D \in 0 .. D - 1
    BY <2>2, ModRange
  <2>4. k \in 0 .. (OutDegree(topo, r) - 1) - 1
    BY <2>2, <2>3 DEF D
  <2> HIDE DEF k
  <2> QED
    BY <1>4, <1>5, <1>6, <2>4
<1> HIDE DEF peers, k
<1>9. ASSUME NEW s \in peers
      PROVE  (s - r) % n = IF s >= r THEN s - r ELSE s - r + n
  BY <1>1, <1>7, ModAdd
<1>10. d \in [peers -> 0 .. n]
  BY <1>1, <1>7, <1>9
<1>11. \A s, t \in peers : d[s] = d[t] => s = t
  BY <1>1, <1>7, <1>9
<1>12. \A s \in peers : d[s] = (s - r) % Size(topo)
  BY <1>2
<1> HIDE DEF d
<1>13. \E s \in peers : Cardinality({t \in peers : d[t] < d[s]}) = k
  BY <1>6, <1>8, <1>10, <1>11, Ranking
<1>14. \A s \in peers : {t \in peers : d[t] < d[s]}
                          = {t \in peers : (t - r) % Size(topo) < (s - r) % Size(topo)}
  BY <1>12
<1>15. \E s \in peers :
          Cardinality({t \in peers : (t - r) % Size(topo) < (s - r) % Size(topo)}) = k
  BY <1>13, <1>14
<1>16. OnePeer(topo, r, i)
         = CHOOSE s \in peers :
             Cardinality({t \in peers : (t - r) % Size(topo) < (s - r) % Size(topo)}) = k
  BY DEF OnePeer, ClockwisePeer, peers, k, succ
<1>17. OnePeer(topo, r, i) \in peers
  BY <1>15, <1>16
<1> QED
  BY <1>7, <1>17 DEF Ranks

\* GetDynamicOnePeerSendRecvRanks.
LEMMA OnePeerMatches ==
  ASSUME NEW n \in Nat, NEW topo, DOMAIN topo = Ranks(n),
         \A r \in Ranks(n) : OutDegree(topo, r) >= 2, NEW i \in Nat
  PROVE  Match(Ranks(n), [r \in Ranks(n) |-> GetDynamicOnePeerSendRecvRanks(topo, r, i)])
<1>1. \A r \in Ranks(n) : OnePeer(topo, r, i) \in Ranks(n) \ {r}
  BY OnePeerExists
<1> DEFINE lists == [r \in Ranks(n) |-> GetDynamicOnePeerSendRecvRanks(topo, r, i)]
<1>2. ASSUME NEW r \in Ranks(n)
      PROVE  /\ lists[r].send = {OnePeer(topo, r, i)}
             /\ lists[r].recv = {s \in Ranks(n) \ {r} : OnePeer(topo, s, i) = r}
  BY DEF GetDynamicOnePeerSendRecvRanks, Lists
<1> HIDE DEF lists
<1>3. Match(Ranks(n), lists)
  BY <1>1, <1>2 DEF Match
<1> QED
  BY <1>3 DEF lists

-----------------------------------------------------------------------------
(* Every round of every job *)

JobInv == job \in Jobs /\ index \in Nat

LEMMA JobInvariant == Spec => []JobInv
<1>1. Init => JobInv
  BY DEF Init, JobInv
<1>2. JobInv /\ [Next]_vars => JobInv'
  BY DEF JobInv, Next, NextRound, vars
<1> QED
  BY <1>1, <1>2, PTL DEF Spec

LEMMA DrawnMatch ==
  ASSUME NEW j \in Jobs, NEW i \in Nat
  PROVE  Match(Party(j), [r \in Party(j) |-> Drawn(j, r, i)])
<1> DEFINE n == j.local
           q == Machines(j)
<1>1. j.gen \in {"one_peer", "machine", "ring", "expo2"} /\ j.world \in Nat /\ n \in Nat \ {0}
  BY JobsAssumption
<1>2. CASE j.gen = "one_peer"
  <2>1. DOMAIN j.topo = Ranks(j.world) /\ \A r \in Ranks(j.world) : OutDegree(j.topo, r) >= 2
    BY <1>2, JobsAssumption
  <2>2. Party(j) = Ranks(j.world)
    BY <1>2 DEF Party
  <2>3. [r \in Party(j) |-> Drawn(j, r, i)]
          = [r \in Ranks(j.world) |-> GetDynamicOnePeerSendRecvRanks(j.topo, r, i)]
    BY <1>2, <2>2 DEF Drawn
  <2> QED
    BY <1>1, <2>1, <2>2, <2>3, OnePeerMatches
<1>3. ASSUME j.gen # "one_peer" PROVE q \in Nat /\ q > 1 /\ j.world = q * n
  <2>1. j.world % n = 0 /\ j.world > n
    BY <1>3, JobsAssumption
  <2>2. PICK m \in Nat, l \in 0 .. n - 1 : j.world = PlaceAt(n, m, l)
    BY <1>1, DivisionExists
  <2>3. j.world \div n = m /\ l = 0
    BY <1>1, <2>1, <2>2, PlaceOf DEF PlaceAt
  <2>4. j.world = m * n
    BY <1>1, <2>2, <2>3 DEF PlaceAt
  <2>5. m # 0 /\ m # 1
    BY <1>1, <2>1, <2>4
  <2> QED
    BY <2>3, <2>4, <2>5 DEF Machines
<1>4. CASE j.gen = "machine"
  <2>1. Party(j) = Ranks(q)
    BY <1>4 DEF Party
  <2>2. [r \in Party(j) |-> Drawn(j, r, i)]
          = [r \in Ranks(q) |-> GetExp2DynamicSendRecvMachineRanks(j.world, n, r * n, i)]
    BY <1>4, <2>1 DEF Drawn
  <2> HIDE DEF q, n
  <2> QED
    BY <1>1, <1>3, <1>4, <2>1, <2>2, MachineMatches
<1>5. CASE j.gen = "ring"
  <2>1. Party(j) = Ranks(j.world)
    BY <1>5 DEF Party
  <2>2. [r \in Party(j) |-> Drawn(j, r, i)]
          = [r \in Ranks(j.world) |-> GetInnerOuterRingDynamicSendRecvRanks(j.world, n, r, i)]
    BY <1>5, <2>1 DEF Drawn
  <2>3. n > 2
    BY <1>5, JobsAssumption
  <2> HIDE DEF q, n
  <2> QED
    BY <1>1, <1>3, <1>5, <2>1, <2>2, <2>3, RingMatches
<1>6. CASE j.gen = "expo2"
  <2>1. Party(j) = Ranks(j.world)
    BY <1>6 DEF Party
  <2>2. [r \in Party(j) |-> Drawn(j, r, i)]
          = [r \in Ranks(j.world) |-> GetInnerOuterExpo2DynamicSendRecvRanks(j.world, n, r, i)]
    BY <1>6, <2>1 DEF Drawn
  <2>3. n > 2
    BY <1>6, JobsAssumption
  <2> HIDE DEF q, n
  <2> QED
    BY <1>1, <1>3, <1>6, <2>1, <2>2, <2>3, ExpoMatches
<1> QED
  BY <1>1, <1>2, <1>4, <1>5, <1>6

\* In every round the send and receive lists of all ranks fit together, whatever the
\* generator, the number of machines and of ranks on each, and the graph: the arithmetic
\* of the generators in topology_util.py never makes neighbor_allreduce wait for a message
\* that nobody sends.
THEOREM ListsAlwaysMatch == Spec => []DynamicListsMatch
<1>1. JobInv => DynamicListsMatch
  <2> SUFFICES ASSUME JobInv PROVE DynamicListsMatch
    OBVIOUS
  <2> DEFINE lists == [r \in Party(job) |-> Drawn(job, r, index)]
  <2>1. Match(Party(job), lists)
    BY DrawnMatch DEF JobInv
  <2>2. \A r \in Party(job) : lists[r] = Drawn(job, r, index)
    OBVIOUS
  <2> HIDE DEF lists
  <2> QED
    BY <2>1, <2>2 DEF Match, DynamicListsMatch
<1> QED
  BY <1>1, JobInvariant, PTL
=============================================================================
