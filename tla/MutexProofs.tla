----------------------------- MODULE MutexProofs -----------------------------
(***************************************************************************)
(* The mutex of the windows excludes, and implements a lock that is taken   *)
(* and given back in one step: proved for every finite set of ranks, every  *)
(* set of windows and every list of mutexes that a thread asks for.         *)
(***************************************************************************)
EXTENDS WinMutex, FiniteSetTheorems, TLAPS

MutexType ==
    /\ mutex \in [Slot -> Int]
    /\ spin \in [Thread -> [at : {"out", "fetch", "undo", "drop"}, todo : Seq(Slot)]]
    /\ held \in [Thread -> SUBSET Slot]
    /\ \A t \in Thread : spin[t].at # "out" => spin[t].todo # <<>>

\* What a thread gives back is its own, and it gives it back once.
Dropping == \A t \in Thread : spin[t].at = "drop" => Owns(t, spin[t].todo)

\* Exclusion alone is not inductive: a thread finds 0 only if nobody holds, because the
\* integer counts, and it counts because nobody gives back what it does not hold.
MutexInv == MutexType /\ Dropping /\ MutexCounts /\ MutualExclusion

-----------------------------------------------------------------------------
(* Sequences *)

LEMMA HeadAndTail ==
    ASSUME NEW q \in Seq(Slot), q # <<>>
    PROVE  /\ Head(q) \in Slot /\ Head(q) = q[1] /\ 1 \in DOMAIN q
           /\ Tail(q) \in Seq(Slot)
           /\ \A i \in DOMAIN Tail(q) : i + 1 \in DOMAIN q /\ Tail(q)[i] = q[i + 1]
           /\ DOMAIN Tail(q) \subseteq Nat \ {0}
OBVIOUS

LEMMA AtType ==
    ASSUME NEW q \in Seq(Slot), NEW where \in {"fetch", "undo", "drop"}
    PROVE  /\ At(where, q) \in [at : {"out", "fetch", "undo", "drop"}, todo : Seq(Slot)]
           /\ At(where, q).todo = q
           /\ At(where, q).at \in {"out", where}
           /\ At(where, q).at # "out" => q # <<>>
           /\ q # <<>> => At(where, q).at = where
BY DEF At

\* After the first mutex is given back, the rest is still the thread's own.
LEMMA OwnsTail ==
    ASSUME NEW H, NEW q \in Seq(Slot), q # <<>>,
           \A i, j \in DOMAIN q : q[i] \in H /\ (q[i] = q[j] => i = j)
    PROVE  \A i, j \in DOMAIN Tail(q) :
              Tail(q)[i] \in H \ {Head(q)} /\ (Tail(q)[i] = Tail(q)[j] => i = j)
<1> TAKE i, j \in DOMAIN Tail(q)
<1>1. /\ i + 1 \in DOMAIN q /\ Tail(q)[i] = q[i + 1]
      /\ j + 1 \in DOMAIN q /\ Tail(q)[j] = q[j + 1]
      /\ 1 \in DOMAIN q /\ Head(q) = q[1]
      /\ i \in Nat \ {0} /\ j \in Nat \ {0}
  BY HeadAndTail
<1>2. i + 1 # 1 /\ (i + 1 = j + 1 => i = j)
  BY <1>1
<1> QED
  BY <1>1, <1>2

\* A list as long as a set that has all its elements has each of them once.
LEMMA NoneTwice ==
    ASSUME NEW S, IsFiniteSet(S), NEW f \in [1 .. Cardinality(S) -> S],
           \A s \in S : \E i \in DOMAIN f : f[i] = s
    PROVE  \A i, j \in DOMAIN f : f[i] = f[j] => i = j
<1>1. Cardinality(S) \in Nat
  BY FS_CardinalityType
<1>2. IsFiniteSet(1 .. Cardinality(S)) /\ Cardinality(1 .. Cardinality(S)) = Cardinality(S)
  BY <1>1, FS_Interval
<1>3. f \in Surjection(1 .. Cardinality(S), S)
  BY DEF Surjection
<1>4. f \in Injection(1 .. Cardinality(S), S)
  BY <1>2, <1>3, FS_SurjSameCardinalityImpliesInj
<1> QED
  BY <1>4 DEF Injection, IsInjective

LEMMA ThreadFinite == IsFiniteSet(Thread)
BY MutexAssumption, FS_Product, FS_Singleton, FS_AddElement,
   IsFiniteSet({"user"} \cup {"background"}), {"user"} \cup {"background"} = {"user", "background"}
   DEF Thread

LEMMA CountsFinite ==
    ASSUME NEW s
    PROVE  /\ IsFiniteSet(Holders(s)) /\ Cardinality(Holders(s)) \in Nat
           /\ IsFiniteSet(Undoers(s)) /\ Cardinality(Undoers(s)) \in Nat
BY ThreadFinite, FS_Subset, FS_CardinalityType DEF Holders, Undoers

\* A mutex that nobody has and nobody tries to take is at 0.
LEMMA NobodyCounts ==
    ASSUME MutexCounts, \A t \in Thread : Outside(t) /\ held[t] = {}
    PROVE  \A s \in Slot : mutex[s] = 0
<1> TAKE s \in Slot
<1>1. Holders(s) = {} /\ Undoers(s) = {}
  BY DEF Holders, Undoers, Outside
<1> QED
  BY <1>1, FS_EmptySet DEF MutexCounts

-----------------------------------------------------------------------------
(* The invariant, one lemma per action *)

LEMMA MutexInvInit == MutexInit => MutexInv
<1> SUFFICES ASSUME MutexInit PROVE MutexInv
  OBVIOUS
<1>1. MutexType
  BY DEF MutexInit, MutexType, At
<1>2. Dropping /\ MutualExclusion
  BY DEF MutexInit, Dropping, MutualExclusion, At
<1>3. ASSUME NEW s \in Slot PROVE Holders(s) = {} /\ Undoers(s) = {}
  BY DEF MutexInit, Holders, Undoers, At
<1>4. ASSUME NEW s \in Slot
      PROVE  mutex[s] = Cardinality(Holders(s)) + Cardinality(Undoers(s))
  <2>1. Cardinality(Holders(s)) = 0 /\ Cardinality(Undoers(s)) = 0
    BY <1>3, FS_EmptySet
  <2> QED
    BY <2>1 DEF MutexInit
<1> QED
  BY <1>1, <1>2, <1>4 DEF MutexInv, MutexCounts

\* A step that leaves the integers and the holders alone, and begins or ends no attempt.
LEMMA CountsUnchanged ==
    ASSUME MutexInv, mutex' = mutex, held' = held,
           \A s \in Slot : Undoers(s)' = Undoers(s)
    PROVE  MutexCounts' /\ MutualExclusion'
BY DEF MutexInv, MutexCounts, MutualExclusion, Holders

LEMMA BeginStep ==
    ASSUME MutexInv, NEW t \in Thread, NEW slots \in SlotLists,
           BeginAcquire(t, slots) \/ (Owns(t, slots) /\ BeginRelease(t, slots))
    PROVE  MutexInv'
<1>1. slots \in Seq(Slot)
  BY MutexAssumption
<1>2. PICK where \in {"fetch", "drop"} :
         /\ spin' = [spin EXCEPT ![t] = At(where, slots)]
         /\ where = "drop" => Owns(t, slots)
  BY DEF BeginAcquire, BeginRelease
<1>3. spin[t].at = "out" /\ mutex' = mutex /\ held' = held
  BY DEF BeginAcquire, BeginRelease, Outside
<1>4. spin'[t] = At(where, slots) /\ \A u \in Thread : u # t => spin'[u] = spin[u]
  BY <1>2 DEF MutexInv, MutexType
<1>5. MutexType'
  BY <1>1, <1>2, <1>3, <1>4, AtType DEF MutexInv, MutexType
<1>6. Dropping'
  BY <1>1, <1>2, <1>3, <1>4, AtType DEF MutexInv, Dropping, Owns
<1>7. ASSUME NEW s \in Slot PROVE Undoers(s)' = Undoers(s)
  BY <1>1, <1>3, <1>4, AtType DEF Undoers
<1> QED
  BY <1>3, <1>5, <1>6, <1>7, CountsUnchanged DEF MutexInv

LEMMA FetchStep ==
    ASSUME MutexInv, NEW t \in Thread, FetchAndAdd(t)
    PROVE  /\ MutexInv'
           /\ \/ held' = held
              \/ \E s \in Slot : /\ \A u \in Thread : s \notin held[u]
                                 /\ held' = [held EXCEPT ![t] = @ \cup {s}]
<1> DEFINE s == Head(spin[t].todo)
           q == Tail(spin[t].todo)
<1>1. /\ spin[t].at = "fetch" /\ spin[t].todo \in Seq(Slot) /\ spin[t].todo # <<>>
      /\ s \in Slot /\ q \in Seq(Slot)
  BY HeadAndTail DEF MutexInv, MutexType, FetchAndAdd
<1>2. mutex' = [mutex EXCEPT ![s] = @ + 1]
  BY DEF FetchAndAdd
<1>3. /\ mutex \in [Slot -> Int] /\ mutex'[s] = mutex[s] + 1
      /\ \A r \in Slot : r # s => mutex'[r] = mutex[r]
  BY <1>1, <1>2 DEF MutexInv, MutexType
<1>4. CASE mutex[s] = 0
  <2>1. /\ spin' = [spin EXCEPT ![t] = At("fetch", q)]
        /\ held' = [held EXCEPT ![t] = @ \cup {s}]
    BY <1>4 DEF FetchAndAdd
  <2> HIDE DEF s, q
  <2>2. /\ spin'[t] = At("fetch", q) /\ held'[t] = held[t] \cup {s}
        /\ \A u \in Thread : u # t => spin'[u] = spin[u] /\ held'[u] = held[u]
    BY <2>1 DEF MutexInv, MutexType
  <2>3. /\ At("fetch", q) \in [at : {"out", "fetch", "undo", "drop"}, todo : Seq(Slot)]
        /\ At("fetch", q).at \in {"out", "fetch"}
        /\ At("fetch", q).at # "out" => At("fetch", q).todo # <<>>
    BY <1>1, AtType
  <2>4. \A u \in Thread : s \notin held[u]
    <3>1. Cardinality(Holders(s)) = 0
      BY <1>1, <1>4, CountsFinite DEF MutexInv, MutexCounts
    <3>2. Holders(s) = {}
      BY <3>1, CountsFinite, FS_EmptySet
    <3> QED
      BY <3>2 DEF Holders
  <2>5. MutexType'
    BY <1>1, <1>2, <2>1, <2>2, <2>3 DEF MutexInv, MutexType
  <2>6. Dropping'
    <3> SUFFICES ASSUME NEW u \in Thread, spin'[u].at = "drop"
                 PROVE  Owns(u, spin[u].todo)'
      BY DEF Dropping
    <3>1. u # t
      BY <2>2, <2>3
    <3> QED
      BY <2>2, <3>1 DEF MutexInv, Dropping, Owns
  <2>7. MutualExclusion'
    BY <2>2, <2>4 DEF MutexInv, MutualExclusion
  <2>8. ASSUME NEW r \in Slot
        PROVE  /\ Undoers(r)' = Undoers(r)
               /\ Holders(r)' = IF r = s THEN Holders(r) \cup {t} ELSE Holders(r)
    <3>1. Undoers(r)' = Undoers(r)
      BY <1>1, <2>2, <2>3 DEF Undoers
    <3>2. Holders(r)' = IF r = s THEN Holders(r) \cup {t} ELSE Holders(r)
      BY <2>2 DEF Holders
    <3> QED
      BY <3>1, <3>2
  <2>9. MutexCounts'
    <3> SUFFICES ASSUME NEW r \in Slot
                 PROVE  mutex'[r] = Cardinality(Holders(r)') + Cardinality(Undoers(r)')
      BY DEF MutexCounts
    <3>1. mutex[r] = Cardinality(Holders(r)) + Cardinality(Undoers(r))
      BY DEF MutexInv, MutexCounts
    <3>2. t \notin Holders(s)
      BY <2>4 DEF Holders
    <3>3. r = s => Cardinality(Holders(r)') = Cardinality(Holders(r)) + 1
      BY <2>8, <3>2, CountsFinite, FS_AddElement
    <3> QED
      BY <1>3, <2>8, <3>1, <3>3, CountsFinite
  <2> QED
    BY <1>1, <2>1, <2>4, <2>5, <2>6, <2>7, <2>9 DEF MutexInv
<1>5. CASE mutex[s] # 0
  <2>1. /\ spin' = [spin EXCEPT ![t] = At("undo", spin[t].todo)]
        /\ held' = held
    BY <1>5 DEF FetchAndAdd
  <2>2. /\ spin'[t] = At("undo", spin[t].todo)
        /\ \A u \in Thread : u # t => spin'[u] = spin[u]
    BY <2>1 DEF MutexInv, MutexType
  <2>3. /\ spin'[t] \in [at : {"out", "fetch", "undo", "drop"}, todo : Seq(Slot)]
        /\ spin'[t].at = "undo" /\ spin'[t].todo = spin[t].todo
    BY <1>1, <2>2, AtType
  <2>4. MutexType'
    BY <1>1, <1>2, <2>1, <2>2, <2>3 DEF MutexInv, MutexType
  <2>5. Dropping'
    BY <2>1, <2>2, <2>3 DEF MutexInv, Dropping, Owns
  <2>6. ASSUME NEW r \in Slot
        PROVE  /\ Holders(r)' = Holders(r)
               /\ Undoers(r)' = IF r = s THEN Undoers(r) \cup {t} ELSE Undoers(r)
    BY <2>1, <2>2, <2>3 DEF Undoers, Holders
  <2>7. MutexCounts'
    <3> SUFFICES ASSUME NEW r \in Slot
                 PROVE  mutex'[r] = Cardinality(Holders(r)') + Cardinality(Undoers(r)')
      BY DEF MutexCounts
    <3>1. mutex[r] = Cardinality(Holders(r)) + Cardinality(Undoers(r))
      BY DEF MutexInv, MutexCounts
    <3>2. t \notin Undoers(r)
      BY <1>1 DEF Undoers
    <3>3. r = s => Cardinality(Undoers(r)') = Cardinality(Undoers(r)) + 1
      BY <2>6, <3>2, CountsFinite, FS_AddElement
    <3> HIDE DEF s
    <3> QED
      BY <1>3, <2>6, <3>1, <3>3, CountsFinite
  <2>8. MutualExclusion'
    BY <2>1 DEF MutexInv, MutualExclusion
  <2> QED
    BY <2>1, <2>4, <2>5, <2>7, <2>8 DEF MutexInv
<1> QED
  BY <1>4, <1>5

LEMMA UndoStep ==
    ASSUME MutexInv, NEW t \in Thread, Undo(t)
    PROVE  MutexInv' /\ held' = held
<1> DEFINE s == Head(spin[t].todo)
<1>1. /\ spin[t].at = "undo" /\ spin[t].todo \in Seq(Slot) /\ spin[t].todo # <<>>
      /\ s \in Slot
  BY HeadAndTail DEF MutexInv, MutexType, Undo
<1>2. /\ mutex' = [mutex EXCEPT ![s] = @ - 1] /\ held' = held
      /\ spin' = [spin EXCEPT ![t].at = "fetch"]
  BY DEF Undo
<1>3. /\ mutex \in [Slot -> Int] /\ mutex'[s] = mutex[s] - 1
      /\ \A r \in Slot : r # s => mutex'[r] = mutex[r]
  BY <1>1, <1>2 DEF MutexInv, MutexType
<1>4. /\ spin'[t].at = "fetch" /\ spin'[t].todo = spin[t].todo
      /\ spin'[t] \in [at : {"out", "fetch", "undo", "drop"}, todo : Seq(Slot)]
      /\ \A u \in Thread : u # t => spin'[u] = spin[u]
  BY <1>2 DEF MutexInv, MutexType
<1>5. MutexType'
  BY <1>1, <1>2, <1>4 DEF MutexInv, MutexType
<1>6. Dropping' /\ MutualExclusion'
  BY <1>2, <1>4 DEF MutexInv, Dropping, Owns, MutualExclusion
<1>7. ASSUME NEW r \in Slot
      PROVE  /\ Holders(r)' = Holders(r)
             /\ Undoers(r)' = IF r = s THEN Undoers(r) \ {t} ELSE Undoers(r)
  BY <1>1, <1>2, <1>4 DEF Undoers, Holders
<1>8. MutexCounts'
  <2> SUFFICES ASSUME NEW r \in Slot
               PROVE  mutex'[r] = Cardinality(Holders(r)') + Cardinality(Undoers(r)')
    BY DEF MutexCounts
  <2>1. mutex[r] = Cardinality(Holders(r)) + Cardinality(Undoers(r))
    BY DEF MutexInv, MutexCounts
  <2>2. t \in Undoers(s)
    BY <1>1 DEF Undoers
  <2>3. r = s => Cardinality(Undoers(r)') = Cardinality(Undoers(r)) - 1
    BY <1>7, <2>2, CountsFinite, FS_RemoveElement
  <2> HIDE DEF s
  <2> QED
    BY <1>3, <1>7, <2>1, <2>3, CountsFinite
<1> QED
  BY <1>2, <1>5, <1>6, <1>8 DEF MutexInv

LEMMA DropStep ==
    ASSUME MutexInv, NEW t \in Thread, Drop(t)
    PROVE  /\ MutexInv'
           /\ \E s \in Slot : s \in held[t] /\ held' = [held EXCEPT ![t] = @ \ {s}]
<1> DEFINE s == Head(spin[t].todo)
           q == Tail(spin[t].todo)
<1>1. /\ spin[t].at = "drop" /\ spin[t].todo \in Seq(Slot) /\ spin[t].todo # <<>>
      /\ s \in Slot /\ q \in Seq(Slot) /\ s = spin[t].todo[1] /\ 1 \in DOMAIN spin[t].todo
  BY HeadAndTail DEF MutexInv, MutexType, Drop
<1>2. /\ mutex' = [mutex EXCEPT ![s] = @ - 1]
      /\ held' = [held EXCEPT ![t] = @ \ {s}]
      /\ spin' = [spin EXCEPT ![t] = At("drop", q)]
  BY DEF Drop
<1>3. /\ mutex \in [Slot -> Int] /\ mutex'[s] = mutex[s] - 1
      /\ \A r \in Slot : r # s => mutex'[r] = mutex[r]
  BY <1>1, <1>2 DEF MutexInv, MutexType
<1>4. Owns(t, spin[t].todo)
  BY <1>1 DEF MutexInv, Dropping
<1>5. s \in held[t]
  BY <1>1, <1>4 DEF Owns
<1>6. \A i, j \in DOMAIN q : q[i] \in held[t] \ {s} /\ (q[i] = q[j] => i = j)
  BY <1>1, <1>4, OwnsTail DEF Owns
<1> HIDE DEF s, q
<1>7. /\ spin'[t] = At("drop", q) /\ held'[t] = held[t] \ {s}
      /\ \A u \in Thread : u # t => spin'[u] = spin[u] /\ held'[u] = held[u]
  BY <1>2 DEF MutexInv, MutexType
<1>8. /\ spin'[t] \in [at : {"out", "fetch", "undo", "drop"}, todo : Seq(Slot)]
      /\ spin'[t].at \in {"out", "drop"} /\ spin'[t].todo = q
      /\ spin'[t].at # "out" => spin'[t].todo # <<>>
  BY <1>1, <1>7, AtType
<1>9. MutexType'
  BY <1>1, <1>2, <1>7, <1>8 DEF MutexInv, MutexType
<1>10. Dropping'
  <2> SUFFICES ASSUME NEW u \in Thread, spin'[u].at = "drop"
               PROVE  Owns(u, spin[u].todo)'
    BY DEF Dropping
  <2>1. CASE u = t
    BY <2>1, <1>6, <1>7, <1>8 DEF Owns
  <2>2. CASE u # t
    BY <2>2, <1>7 DEF MutexInv, Dropping, Owns
  <2> QED
    BY <2>1, <2>2
<1>11. MutualExclusion'
  BY <1>7 DEF MutexInv, MutualExclusion
<1>12. ASSUME NEW r \in Slot
       PROVE  /\ Undoers(r)' = Undoers(r)
              /\ Holders(r)' = IF r = s THEN Holders(r) \ {t} ELSE Holders(r)
  <2>1. Undoers(r)' = Undoers(r)
    BY <1>1, <1>7, <1>8 DEF Undoers
  <2>2. Holders(r)' = IF r = s THEN Holders(r) \ {t} ELSE Holders(r)
    BY <1>7 DEF Holders
  <2> QED
    BY <2>1, <2>2
<1>13. MutexCounts'
  <2> SUFFICES ASSUME NEW r \in Slot
               PROVE  mutex'[r] = Cardinality(Holders(r)') + Cardinality(Undoers(r)')
    BY DEF MutexCounts
  <2>1. mutex[r] = Cardinality(Holders(r)) + Cardinality(Undoers(r))
    BY DEF MutexInv, MutexCounts
  <2>2. t \in Holders(s)
    BY <1>5 DEF Holders
  <2>3. r = s => Cardinality(Holders(r)') = Cardinality(Holders(r)) - 1
    BY <1>12, <2>2, CountsFinite, FS_RemoveElement
  <2> QED
    BY <1>3, <1>12, <2>1, <2>3, CountsFinite
<1> QED
  BY <1>1, <1>2, <1>5, <1>9, <1>10, <1>11, <1>13 DEF MutexInv

LEMMA MutexInvStep == MutexInv /\ [MutexNext]_mutexVars => MutexInv'
<1> SUFFICES ASSUME MutexInv, [MutexNext]_mutexVars PROVE MutexInv'
  OBVIOUS
<1>1. CASE UNCHANGED mutexVars
  BY <1>1 DEF mutexVars, MutexInv, MutexType, Dropping, Owns, MutexCounts, MutualExclusion,
              Holders, Undoers
<1>2. CASE MutexNext
  BY <1>2, BeginStep, FetchStep, UndoStep, DropStep DEF MutexNext
<1> QED
  BY <1>1, <1>2

-----------------------------------------------------------------------------
(* The theorems *)

\* The integer of a mutex counts its holder and the attempts that are not yet taken back,
\* and two threads never hold the same mutex, of MPIWinMutexAcquireImpl and
\* MPIWinMutexReleaseImpl (mpi_controller.cc:1533-1602).
THEOREM MutexIsExclusive == MutexSpec => [](MutexCounts /\ MutualExclusion)
<1>1. MutexSpec => []MutexInv
  BY MutexInvInit, MutexInvStep, PTL DEF MutexSpec
<1>2. MutexInv => MutexCounts /\ MutualExclusion
  BY DEF MutexInv
<1> QED
  BY <1>1, <1>2, PTL

\* The spin lock implements AtomicLock: a mutex is taken in one step, when no thread holds
\* it, and given back in one step by the thread that holds it.
THEOREM MutexImplementsLock == MutexSpec => ImplementsLock
<1>1. MutexInit => Lock!Init
  BY DEF MutexInit, Lock!Init
<1>2. MutexInv /\ [MutexNext]_mutexVars => [Lock!Next]_held
  <2> SUFFICES ASSUME MutexInv, [MutexNext]_mutexVars PROVE [Lock!Next]_held
    OBVIOUS
  <2>1. CASE held' = held
    BY <2>1
  <2>2. ASSUME NEW t \in Thread, FetchAndAdd(t), held' # held
        PROVE  Lock!Next
    BY <2>2, FetchStep DEF Lock!Next, Lock!Acquire
  <2>3. ASSUME NEW t \in Thread, Drop(t)
        PROVE  Lock!Next
    BY <2>3, DropStep DEF Lock!Next, Lock!Release
  <2> QED
    BY <2>1, <2>2, <2>3 DEF MutexNext, mutexVars, BeginAcquire, BeginRelease, Undo
<1>3. MutexSpec => []MutexInv
  BY MutexInvInit, MutexInvStep, PTL DEF MutexSpec
<1> QED
  BY <1>1, <1>2, <1>3, PTL DEF MutexSpec, ImplementsLock, Lock!Spec
=============================================================================
