--------------------------- MODULE TorchOpsProofs ---------------------------
(***************************************************************************)
(* The caches of the Python interface, proved for every number of ranks,    *)
(* every layout on machines and every set of scripts: the topology Python   *)
(* remembers is the one the library has, and the two maps of handles agree. *)
(***************************************************************************)
EXTENDS TorchOps, SequenceTheorems, FiniteSetTheorems, TLAPS
LOCAL INSTANCE SequencesExt

-----------------------------------------------------------------------------
(* Invariants *)

(***************************************************************************)
(* The topology and the communicator are replaced together, so that they    *)
(* agree inside set_topology as well.                                       *)
(***************************************************************************)
CacheInv ==
    /\ DOMAIN topology = Rank
    /\ \A r \in Rank :
          topology[r] # NoTopology => Predecessors(topology[r], r) \ {r} = sources[r]

\* A rank that waits is still in its call, in set_topology in one of init or
\* set_topology: there the graph is one on the ranks.
ScriptInv ==
    /\ todo \in [Rank -> Seq(Call)]
    /\ pc \in [Rank -> {"run", "sync", "topology", "barrier"}]
    /\ \A r \in Rank :
          /\ pc[r] # "run" => todo[r] # <<>>
          /\ pc[r] = "topology" => Head(todo[r]).op \in {"init", "set_topology"}

SourcesInv == \A r \in Rank : sources[r] \subseteq Rank \ {r}

OpNames == {OpName(c, h) : c \in Call, h \in Nat}
Queued == [key : OpNames, handle : Nat]

HandleTypes ==
    /\ held \in [Rank -> SUBSET Nat]
    /\ waiting \in [Rank -> Nat]
    /\ last_handle \in [Rank -> Nat]
    /\ DOMAIN handle_map = Rank
    /\ DOMAIN results = Rank
    /\ queue \in [Rank -> Seq(Queued)]

Zero == [s \in Rank |-> 0]

(***************************************************************************)
(* The maps of one rank: held handles, the handle waited for, _handle_map,  *)
(* the HandleManager, the last handle and the queue of the library.         *)
(***************************************************************************)
\* Handles are numbered: none is used twice, the one waited for is not held.
Numbered(hd, w, hm, res, last) ==
    /\ DOMAIN hm \cup DOMAIN res \subseteq 1 .. last
    /\ hd \subseteq DOMAIN hm \cap DOMAIN res
    /\ w <= last /\ w \notin hd

\* What the library has still to do is pending, known to both, and in it once.
Outstanding(hm, res, q) ==
    /\ \A i \in DOMAIN q : /\ q[i].handle \in DOMAIN hm \cap DOMAIN res
                           /\ res[q[i].handle] = "pending"
    /\ \A i, j \in DOMAIN q : q[i].handle = q[j].handle => i = j

\* Only refused operations are unknown to Python, and only an operation that
\* went well has a result.
Settled(hm, res) ==
    /\ \A h \in DOMAIN res \ DOMAIN hm : res[h] = "pending"
    /\ \A h \in DOMAIN hm : hm[h].output # Zero => h \in DOMAIN res /\ res[h] = "ok"

HandleInv ==
    \A r \in Rank :
        /\ Numbered(held[r], waiting[r], handle_map[r], results[r], last_handle[r])
        /\ Outstanding(handle_map[r], results[r], queue[r])
        /\ Settled(handle_map[r], results[r])

IndInv == ScriptInv /\ SourcesInv /\ HandleTypes /\ HandleInv

-----------------------------------------------------------------------------
(* The topology *)

LEMMA CacheInit == Init => CacheInv
BY DEF Init, CacheInv

LEMMA CacheStep == CacheInv /\ [Next]_vars => CacheInv'
<1> SUFFICES ASSUME CacheInv, [Next]_vars PROVE CacheInv'
  OBVIOUS
<1>1. ASSUME UNCHANGED <<topology, sources>> PROVE CacheInv'
  BY <1>1 DEF CacheInv
<1>2. ASSUME NEW r \in Rank, Process(r) PROVE CacheInv'
  <2>1. CASE Shutdown(r)
    <3>1. topology' = [topology EXCEPT ![r] = NoTopology] /\ UNCHANGED sources
      BY <2>1 DEF Shutdown
    <3> QED
      BY <3>1 DEF CacheInv
  <2>2. CASE ~Shutdown(r)
    <3>1. UNCHANGED <<topology, sources>>
      BY <1>2, <2>2 DEF Process, InitBluefog, SetTopology, BeginSetTopology,
         SetMachineTopology, SetFlag, Timeline, Enqueue, Wait, NothingToWait, Synchronize,
         EnterBarrier, LeaveBarrier, basics
    <3> QED
      BY <1>1, <3>1
  <2> QED
    BY <2>1, <2>2
<1>3. CASE BuildGraph
  <2>1. /\ sources' = [r \in Rank |-> Predecessors(Graph(Head(todo[r])), r) \ {r}]
        /\ topology' = [r \in Rank |-> Graph(Head(todo[r]))]
    BY <1>3 DEF BuildGraph
  <2> QED
    BY <2>1 DEF CacheInv
<1>4. CASE SetSkip \/ Perform
  <2>1. UNCHANGED <<topology, sources>>
    BY <1>4 DEF SetSkip, Perform, PerformOn, basics
  <2> QED
    BY <1>1, <2>1
<1>5. CASE Terminating \/ UNCHANGED vars
  BY <1>1, <1>5 DEF Terminating, vars
<1> QED
  BY <1>2, <1>3, <1>4, <1>5 DEF Next, Library

\* The in-neighbors Python derives from the topology it remembers
\* (BlueFogBasics.in_neighbor_ranks) are those of the graph communicator of the
\* library, whatever calls of init, set_topology, win_create and shutdown the
\* scripts make, refused ones included.
THEOREM CacheCorrect == Spec => []CacheMatchesCommunicator
<1>1. CacheInv => CacheMatchesCommunicator
  BY DEF CacheInv, CacheMatchesCommunicator, in_neighbor_ranks
<1> QED
  BY <1>1, CacheInit, CacheStep, PTL DEF Spec

-----------------------------------------------------------------------------
(* Where the scripts are *)

LEMMA ScriptInit == Init => ScriptInv
BY JobsAssumption DEF Init, ScriptInv

\* A call returns.
LEMMA ScriptReturns ==
    ASSUME NEW r \in Rank, ScriptInv, todo[r] # <<>>, Return(r),
           pc' = [pc EXCEPT ![r] = "run"]
    PROVE  ScriptInv'
<1>1. Tail(todo[r]) \in Seq(Call)
  BY HeadTailProperties DEF ScriptInv
<1> QED
  BY <1>1 DEF ScriptInv, Return

\* A call begins to wait.
LEMMA ScriptWaits ==
    ASSUME NEW r \in Rank, NEW p \in {"sync", "topology", "barrier"}, ScriptInv,
           todo[r] # <<>>, UNCHANGED todo, pc' = [pc EXCEPT ![r] = p],
           p = "topology" => Head(todo[r]).op \in {"init", "set_topology"}
    PROVE  ScriptInv'
BY DEF ScriptInv

LEMMA ScriptStep == ScriptInv /\ [Next]_vars => ScriptInv'
<1> SUFFICES ASSUME ScriptInv, [Next]_vars PROVE ScriptInv'
  OBVIOUS
<1>1. ASSUME NEW r \in Rank, Process(r) PROVE ScriptInv'
  <2> DEFINE Returns == /\ todo[r] # <<>> /\ Return(r)
                        /\ pc' = [pc EXCEPT ![r] = "run"]
  <2>1. pc \in [Rank -> {"run", "sync", "topology", "barrier"}]
    BY DEF ScriptInv
  <2>2. CASE InitBluefog(r) \/ SetTopology(r)
    <3>1. /\ pc[r] = "run" /\ todo[r] # <<>> /\ Head(todo[r]).op \in {"init", "set_topology"}
          /\ \/ Return(r) /\ UNCHANGED pc
             \/ UNCHANGED todo /\ pc' = [pc EXCEPT ![r] = "topology"]
      BY <2>2 DEF InitBluefog, SetTopology, BeginSetTopology, Calls
    <3>2. CASE UNCHANGED todo /\ pc' = [pc EXCEPT ![r] = "topology"]
      BY <3>1, <3>2, ScriptWaits
    <3>3. CASE Return(r) /\ UNCHANGED pc
      BY <2>1, <3>1, <3>3, ScriptReturns
    <3> QED
      BY <3>1, <3>2, <3>3
  <2>3. CASE \/ SetMachineTopology(r) \/ SetFlag(r) \/ Timeline(r) \/ Shutdown(r)
             \/ NothingToWait(r)
    <3>1. pc[r] = "run" /\ todo[r] # <<>> /\ Return(r) /\ UNCHANGED pc
      BY <2>3 DEF SetMachineTopology, SetFlag, Timeline, Shutdown, NothingToWait, Calls
    <3> QED
      BY <2>1, <3>1, ScriptReturns
  <2>4. CASE Enqueue(r)
    <3>1. /\ pc[r] = "run" /\ todo[r] # <<>>
          /\ \/ Return(r) /\ UNCHANGED pc
             \/ UNCHANGED todo /\ pc' = [pc EXCEPT ![r] = "sync"]
      BY <2>4 DEF Enqueue
    <3>2. CASE UNCHANGED todo /\ pc' = [pc EXCEPT ![r] = "sync"]
      BY <3>1, <3>2, ScriptWaits
    <3>3. CASE Return(r) /\ UNCHANGED pc
      BY <2>1, <3>1, <3>3, ScriptReturns
    <3> QED
      BY <3>1, <3>2, <3>3
  <2>5. CASE Wait(r)
    <3>1. todo[r] # <<>> /\ UNCHANGED todo /\ pc' = [pc EXCEPT ![r] = "sync"]
      BY <2>5 DEF Wait, Calls
    <3> QED
      BY <3>1, ScriptWaits
  <2>6. CASE EnterBarrier(r)
    <3>1. todo[r] # <<>> /\ UNCHANGED todo /\ pc' = [pc EXCEPT ![r] = "barrier"]
      BY <2>6 DEF EnterBarrier, Calls
    <3> QED
      BY <3>1, ScriptWaits
  <2>7. CASE Synchronize(r) \/ LeaveBarrier(r)
    <3>1. pc[r] # "run" /\ Return(r) /\ pc' = [pc EXCEPT ![r] = "run"]
      BY <2>7 DEF Synchronize, LeaveBarrier
    <3>2. todo[r] # <<>>
      BY <3>1 DEF ScriptInv
    <3> QED
      BY <3>1, <3>2, ScriptReturns
  <2> QED
    BY <1>1, <2>2, <2>3, <2>4, <2>5, <2>6, <2>7 DEF Process
<1>2. CASE BuildGraph \/ SetSkip
  <2>1. /\ \A r \in Rank : todo[r] # <<>>
        /\ \A r \in Rank : pc'[r] = "run"
        /\ pc' \in [Rank -> {"run", "sync", "topology", "barrier"}]
    BY <1>2 DEF BuildGraph, SetSkip, Calls, ScriptInv
  <2>2. todo' = [r \in Rank |-> Tail(todo[r])]
    BY <1>2 DEF BuildGraph, SetSkip
  <2>3. todo' \in [Rank -> Seq(Call)]
    BY <2>1, <2>2, HeadTailProperties DEF ScriptInv
  <2> QED
    BY <2>1, <2>3 DEF ScriptInv
<1>3. CASE Perform \/ Terminating \/ UNCHANGED vars
  <2>1. UNCHANGED <<todo, pc>>
    BY <1>3 DEF Perform, PerformOn, Terminating, vars
  <2> QED
    BY <2>1 DEF ScriptInv
<1> QED
  BY <1>1, <1>2, <1>3 DEF Next, Library

-----------------------------------------------------------------------------
(* The communicator *)

\* The graph of a call of init or set_topology is one on the ranks.
LEMMA GraphDomain ==
    ASSUME NEW c \in Call, c.op \in {"init", "set_topology"}
    PROVE  DOMAIN Graph(c) = Rank
<1>1. DOMAIN ExponentialGraph(World, 2) = Ranks(World)
  BY DEF ExponentialGraph, Rolled
<1> QED
  BY <1>1, JobsAssumption, RankAssumption DEF Graph, World

LEMMA SourcesInit == Init => SourcesInv
BY DEF Init, SourcesInv

LEMMA SourcesStep == ScriptInv /\ SourcesInv /\ [Next]_vars => SourcesInv'
<1> SUFFICES ASSUME ScriptInv, SourcesInv, [Next]_vars PROVE SourcesInv'
  OBVIOUS
<1>1. CASE BuildGraph
  <2> SUFFICES ASSUME NEW r \in Rank PROVE sources'[r] \subseteq Rank \ {r}
    BY DEF SourcesInv
  <2>1. sources'[r] = Predecessors(Graph(Head(todo[r])), r) \ {r} /\ pc[r] = "topology"
    BY <1>1 DEF BuildGraph
  <2>2. Head(todo[r]) \in Call /\ Head(todo[r]).op \in {"init", "set_topology"}
    BY <2>1, HeadTailProperties DEF ScriptInv
  <2> QED
    BY <2>1, <2>2, GraphDomain DEF Predecessors
<1>2. CASE ~BuildGraph
  <2>1. UNCHANGED sources
    BY <1>2 DEF Next, Process, Library, InitBluefog, SetTopology, SetMachineTopology,
       SetFlag, Timeline, Shutdown, Enqueue, Wait, NothingToWait, Synchronize, EnterBarrier,
       LeaveBarrier, SetSkip, Perform, PerformOn, Terminating, vars
  <2> QED
    BY <2>1 DEF SourcesInv
<1> QED
  BY <1>1, <1>2

-----------------------------------------------------------------------------
(* Handles *)

\* RemoveAt leaves the others, in their order.
LEMMA RemoveAtFacts ==
    ASSUME NEW S, NEW q \in Seq(S), NEW i \in DOMAIN q
    PROVE  /\ RemoveAt(q, i) \in Seq(S)
           /\ DOMAIN RemoveAt(q, i) = 1 .. Len(q) - 1
           /\ \A j \in 1 .. Len(q) - 1 : RemoveAt(q, i)[j] = q[IF j < i THEN j ELSE j + 1]
<1>1. i \in 1 .. Len(q) /\ Len(q) \in Nat
  OBVIOUS
<1> DEFINE a == SubSeq(q, 1, i - 1)
           b == SubSeq(q, i + 1, Len(q))
<1>2. a \in Seq(S) /\ Len(a) = i - 1 /\ \A j \in 1 .. i - 1 : a[j] = q[j]
  BY <1>1
<1>3. b \in Seq(S) /\ Len(b) = Len(q) - i /\ \A j \in 1 .. Len(q) - i : b[j] = q[i + j]
  BY <1>1
<1>4. RemoveAt(q, i) = a \o b
  BY DEF RemoveAt
<1> HIDE DEF a, b
<1>5. a \o b \in Seq(S) /\ Len(a \o b) = Len(q) - 1
  BY <1>1, <1>2, <1>3
<1>6. \A j \in 1 .. Len(q) - 1 : (a \o b)[j] = q[IF j < i THEN j ELSE j + 1]
  <2> SUFFICES ASSUME NEW j \in 1 .. Len(q) - 1
               PROVE  (a \o b)[j] = q[IF j < i THEN j ELSE j + 1]
    OBVIOUS
  <2>1. (a \o b)[j] = IF j <= Len(a) THEN a[j] ELSE b[j - Len(a)]
    BY <1>1, <1>2, <1>3, ConcatProperties
  <2>2. CASE j < i
    BY <1>1, <1>2, <2>1, <2>2
  <2>3. CASE ~(j < i)
    <3>1. j - Len(a) \in 1 .. Len(q) - i /\ i + (j - Len(a)) = j + 1 /\ ~(j <= Len(a))
      BY <1>1, <1>2, <2>3
    <3> QED
      BY <1>3, <2>1, <2>3, <3>1
  <2> QED
    BY <2>2, <2>3
<1> QED
  BY <1>4, <1>5, <1>6

\* A new operation: its handle is one more than the last.
LEMMA Started ==
    ASSUME NEW hd, NEW w \in Nat, NEW hm, NEW res, NEW last \in Nat, NEW q \in Seq(Queued),
           NEW e, e.output = Zero, NEW key \in OpNames,
           Numbered(hd, w, hm, res, last), Outstanding(hm, res, q), Settled(hm, res)
    PROVE  LET h    == last + 1
               hm2  == With(hm, h, e)
               res2 == With(res, h, "pending")
               q2   == Append(q, [key |-> key, handle |-> h])
           IN  /\ Numbered(hd, h, hm2, res2, h) /\ Numbered(hd \cup {h}, w, hm2, res2, h)
               /\ Outstanding(hm2, res2, q2)
               /\ Settled(hm2, res2)
               /\ q2 \in Seq(Queued)
<1> DEFINE h    == last + 1
           hm2  == With(hm, h, e)
           res2 == With(res, h, "pending")
           x    == [key |-> key, handle |-> h]
           q2   == Append(q, x)
<1>1. h \notin DOMAIN hm \cup DOMAIN res \cup hd /\ h \in Nat
  BY DEF Numbered
<1>2. /\ DOMAIN hm2 = DOMAIN hm \cup {h} /\ hm2[h] = e
      /\ \A k \in DOMAIN hm : hm2[k] = hm[k]
      /\ DOMAIN res2 = DOMAIN res \cup {h} /\ res2[h] = "pending"
      /\ \A k \in DOMAIN res : res2[k] = res[k]
  BY <1>1 DEF With
<1>3. x \in Queued /\ x.handle = h
  BY <1>1 DEF Queued
<1> HIDE DEF hm2, res2, x
<1>4. /\ q2 \in Seq(Queued) /\ DOMAIN q2 = 1 .. Len(q) + 1 /\ DOMAIN q = 1 .. Len(q)
      /\ Len(q) \in Nat
      /\ \A i \in 1 .. Len(q) : q2[i] = q[i]
      /\ q2[Len(q) + 1] = x
  BY <1>3, AppendProperties
<1> HIDE DEF q2
<1>5. Numbered(hd, h, hm2, res2, h) /\ Numbered(hd \cup {h}, w, hm2, res2, h)
  BY <1>1, <1>2 DEF Numbered
<1>6. Settled(hm2, res2)
  BY <1>1, <1>2 DEF Settled
<1>7. Outstanding(hm2, res2, q2)
  <2>1. \A i \in DOMAIN q2 : i \in DOMAIN q \/ i = Len(q) + 1
    BY <1>4
  <2>2. \A i \in DOMAIN q : q2[i].handle \in DOMAIN hm \cap DOMAIN res /\ q2[i] = q[i]
    BY <1>4 DEF Outstanding
  <2>3. \A i \in DOMAIN q2 : /\ q2[i].handle \in DOMAIN hm2 \cap DOMAIN res2
                             /\ res2[q2[i].handle] = "pending"
    BY <1>2, <1>3, <1>4, <2>1, <2>2 DEF Outstanding
  <2>4. \A i, j \in DOMAIN q2 : q2[i].handle = q2[j].handle => i = j
    BY <1>1, <1>3, <1>4, <2>1, <2>2 DEF Outstanding
  <2> QED
    BY <2>3, <2>4 DEF Outstanding
<1> QED
  BY <1>4, <1>5, <1>6, <1>7 DEF hm2, res2, q2, x

\* An operation that is refused leaves its handle with the handle manager.
LEMMA RefusedHandle ==
    ASSUME NEW hd, NEW w \in Nat, NEW hm, NEW res, NEW last \in Nat, NEW q \in Seq(Queued),
           Numbered(hd, w, hm, res, last), Outstanding(hm, res, q), Settled(hm, res)
    PROVE  LET res2 == With(res, last + 1, "pending")
           IN  /\ Numbered(hd, w, hm, res2, last + 1)
               /\ Outstanding(hm, res2, q)
               /\ Settled(hm, res2)
<1> DEFINE h    == last + 1
           res2 == With(res, h, "pending")
<1>1. h \notin DOMAIN hm \cup DOMAIN res /\ h \in Nat
  BY DEF Numbered
<1>2. /\ DOMAIN res2 = DOMAIN res \cup {h} /\ res2[h] = "pending"
      /\ \A k \in DOMAIN res : res2[k] = res[k]
  BY <1>1 DEF With
<1> HIDE DEF res2
<1>3. Numbered(hd, w, hm, res2, h)
  BY <1>1, <1>2 DEF Numbered
<1>4. Outstanding(hm, res2, q)
  BY <1>1, <1>2 DEF Outstanding
<1>5. Settled(hm, res2)
  BY <1>1, <1>2 DEF Settled
<1> QED
  BY <1>3, <1>4, <1>5 DEF res2

\* synchronize: the handle manager releases the handle, Python forgets it if the
\* operation went well.
LEMMA Synchronized ==
    ASSUME NEW hd, NEW w \in Nat, NEW hm, NEW res, NEW last \in Nat, NEW q \in Seq(Queued),
           w \in DOMAIN res /\ w \in DOMAIN hm => res[w] # "pending",
           Numbered(hd, w, hm, res, last), Outstanding(hm, res, q), Settled(hm, res),
           NEW res2, NEW hm2,
           res2 = IF w \in DOMAIN hm /\ w \in DOMAIN res THEN Without(res, w) ELSE res,
           hm2 = IF w \in DOMAIN hm /\ w \in DOMAIN res /\ res[w] = "ok"
                   THEN Without(hm, w) ELSE hm
    PROVE  /\ Numbered(hd, w, hm2, res2, last)
           /\ Outstanding(hm2, res2, q)
           /\ Settled(hm2, res2)
<1>1. CASE ~(w \in DOMAIN hm /\ w \in DOMAIN res)
  BY <1>1
<1>2. CASE w \in DOMAIN hm /\ w \in DOMAIN res
  <2>1. /\ DOMAIN res2 = DOMAIN res \ {w}
        /\ \A k \in DOMAIN res \ {w} : res2[k] = res[k]
    BY <1>2 DEF Without
  <2>2. /\ DOMAIN hm2 = IF res[w] = "ok" THEN DOMAIN hm \ {w} ELSE DOMAIN hm
        /\ \A k \in DOMAIN hm2 : hm2[k] = hm[k]
    BY <1>2 DEF Without
  <2>3. \A i \in DOMAIN q : q[i].handle # w
    BY <1>2 DEF Outstanding
  <2>4. Numbered(hd, w, hm2, res2, last)
    BY <2>1, <2>2 DEF Numbered
  <2>5. Outstanding(hm2, res2, q)
    BY <2>1, <2>2, <2>3 DEF Outstanding
  <2>6. Settled(hm2, res2)
    BY <1>2, <2>1, <2>2 DEF Settled
  <2> QED
    BY <2>4, <2>5, <2>6
<1> QED
  BY <1>1, <1>2

\* The library has done the operation at position i.
LEMMA Performed ==
    ASSUME NEW hd, NEW w \in Nat, NEW hm, NEW res, NEW last \in Nat, NEW q \in Seq(Queued),
           NEW i \in DOMAIN q, NEW good \in BOOLEAN, NEW done,
           Numbered(hd, w, hm, res, last), Outstanding(hm, res, q), Settled(hm, res)
    PROVE  LET h    == q[i].handle
               res2 == [res EXCEPT ![h] = IF good THEN "ok" ELSE "error"]
               hm2  == IF good THEN [hm EXCEPT ![h] = done] ELSE hm
           IN  /\ Numbered(hd, w, hm2, res2, last)
               /\ Outstanding(hm2, res2, RemoveAt(q, i))
               /\ Settled(hm2, res2)
               /\ RemoveAt(q, i) \in Seq(Queued)
<1> DEFINE h    == q[i].handle
           res2 == [res EXCEPT ![h] = IF good THEN "ok" ELSE "error"]
           hm2  == IF good THEN [hm EXCEPT ![h] = done] ELSE hm
<1> DEFINE q2 == RemoveAt(q, i)
           At(j) == IF j < i THEN j ELSE j + 1
<1>1. h \in DOMAIN hm /\ h \in DOMAIN res /\ res[h] = "pending"
  BY DEF Outstanding
<1>2. /\ DOMAIN hm2 = DOMAIN hm /\ DOMAIN res2 = DOMAIN res
      /\ \A k \in DOMAIN hm : k # h => hm2[k] = hm[k]
      /\ \A k \in DOMAIN res : k # h => res2[k] = res[k]
      /\ res2[h] = (IF good THEN "ok" ELSE "error")
      /\ ~good => hm2[h] = hm[h]
  BY <1>1
<1>3. /\ q2 \in Seq(Queued) /\ DOMAIN q2 = 1 .. Len(q) - 1
      /\ \A j \in 1 .. Len(q) - 1 : q2[j] = q[At(j)]
  BY RemoveAtFacts
<1>4. DOMAIN q = 1 .. Len(q) /\ Len(q) \in Nat
  BY LenProperties
<1>5. /\ \A j \in 1 .. Len(q) - 1 : At(j) \in DOMAIN q /\ At(j) # i
      /\ \A j, k \in 1 .. Len(q) - 1 : At(j) = At(k) => j = k
  BY <1>4
<1>6. h = q[i].handle
  OBVIOUS
<1> HIDE DEF q2, At, h, hm2, res2
<1>7. Numbered(hd, w, hm2, res2, last)
  BY <1>2 DEF Numbered
<1>8. Settled(hm2, res2)
  BY <1>1, <1>2 DEF Settled
<1>9. Outstanding(hm2, res2, q2)
  <2>1. \A j \in DOMAIN q2 : q2[j] = q[At(j)] /\ At(j) \in DOMAIN q /\ q2[j].handle # h
    BY <1>3, <1>5, <1>6 DEF Outstanding
  <2>2. \A j \in DOMAIN q2 : /\ q2[j].handle \in DOMAIN hm2 \cap DOMAIN res2
                             /\ res2[q2[j].handle] = "pending"
    BY <1>2, <2>1 DEF Outstanding
  <2>3. \A j, k \in DOMAIN q2 : q2[j].handle = q2[k].handle => At(j) = At(k)
    BY <2>1 DEF Outstanding
  <2>4. \A j, k \in DOMAIN q2 : q2[j].handle = q2[k].handle => j = k
    BY <1>3, <1>5, <2>3
  <2> QED
    BY <2>2, <2>4 DEF Outstanding
<1> QED
  BY <1>3, <1>7, <1>8, <1>9 DEF q2, h, hm2, res2

\* The shutdown: what the library still has fails.
LEMMA Aborted ==
    ASSUME NEW hd, NEW w \in Nat, NEW hm, NEW res, NEW last \in Nat, NEW q \in Seq(Queued),
           Numbered(hd, w, hm, res, last), Outstanding(hm, res, q), Settled(hm, res)
    PROVE  /\ Numbered(hd, w, hm, Abort(res, q), last)
           /\ Outstanding(hm, Abort(res, q), <<>>)
           /\ Settled(hm, Abort(res, q))
<1> DEFINE res2 == Abort(res, q)
           Has(h) == \E i \in DOMAIN q : q[i].handle = h
<1>1. /\ DOMAIN res2 = DOMAIN res
      /\ \A h \in DOMAIN res : ~Has(h) => res2[h] = res[h]
  BY DEF Abort
<1>2. \A h : Has(h) => h \in DOMAIN hm /\ h \in DOMAIN res /\ res[h] = "pending"
  BY DEF Outstanding
<1> HIDE DEF res2, Has
<1>3. Numbered(hd, w, hm, res2, last)
  BY <1>1 DEF Numbered
<1>4. Outstanding(hm, res2, <<>>)
  BY DEF Outstanding
<1>5. Settled(hm, res2)
  BY <1>1, <1>2 DEF Settled
<1> QED
  BY <1>3, <1>4, <1>5 DEF res2

HandlesInv == HandleTypes /\ HandleInv

LEMMA HandlesInit == Init => HandlesInv
<1> SUFFICES ASSUME Init PROVE HandlesInv
  OBVIOUS
<1>1. HandleTypes
  BY DEF Init, HandleTypes
<1>2. \A r \in Rank : /\ held[r] = {} /\ waiting[r] = 0 /\ last_handle[r] = 0
                      /\ handle_map[r] = <<>> /\ results[r] = <<>> /\ queue[r] = <<>>
  BY DEF Init
<1>3. DOMAIN <<>> = {}
  OBVIOUS
<1>4. HandleInv
  BY <1>2, <1>3 DEF HandleInv, Numbered, Outstanding, Settled
<1> QED
  BY <1>1, <1>4 DEF HandlesInv

LEMMA HandlesFrame == HandlesInv /\ UNCHANGED ops => HandlesInv'
BY DEF HandlesInv, HandleTypes, HandleInv, ops, Numbered, Outstanding, Settled, Zero

\* The part of HandleInv about rank r.
RankInv(r) ==
    /\ Numbered(held[r], waiting[r], handle_map[r], results[r], last_handle[r])
    /\ Outstanding(handle_map[r], results[r], queue[r])
    /\ Settled(handle_map[r], results[r])

\* A step of one rank does not touch the maps of another.
LEMMA OtherRanks ==
    ASSUME NEW r \in Rank, HandlesInv, HandleTypes', RankInv(r)',
           \A s \in Rank \ {r} :
              /\ held'[s] = held[s] /\ waiting'[s] = waiting[s]
              /\ handle_map'[s] = handle_map[s] /\ results'[s] = results[s]
              /\ last_handle'[s] = last_handle[s] /\ queue'[s] = queue[s]
    PROVE  HandlesInv'
<1>1. ASSUME NEW s \in Rank, s # r PROVE RankInv(s)'
  BY <1>1 DEF HandlesInv, HandleInv, RankInv, Numbered, Outstanding, Settled, Zero
<1> QED
  BY <1>1 DEF HandlesInv, HandleInv, RankInv

LEMMA HandlesEnqueue ==
    ASSUME NEW r \in Rank, ScriptInv, HandlesInv, Enqueue(r)
    PROVE  HandlesInv'
<1> DEFINE c == Head(todo[r])
           h == last_handle[r] + 1
           key == OpName(c, h)
           e == [call |-> c, args |-> CallArgs(r, c),
                 to |-> IF Dynamic(c) THEN SendTo(r, c) ELSE {},
                 place |-> Len(todo[r]), output |-> [s \in Rank |-> 0]]
           hm2 == With(handle_map[r], h, e)
           res2 == With(results[r], h, "pending")
           q2 == Append(queue[r], [key |-> key, handle |-> h])
<1>1. c \in Call
  BY HeadTailProperties DEF Enqueue, ScriptInv
<1>2. /\ held[r] \in SUBSET Nat /\ waiting[r] \in Nat /\ last_handle[r] \in Nat
      /\ queue[r] \in Seq(Queued) /\ RankInv(r)
  BY DEF HandlesInv, HandleTypes, HandleInv, RankInv
<1>3. h \in Nat /\ key \in OpNames /\ e.output = Zero
  <2>1. h \in Nat
    BY <1>2
  <2>2. key \in OpNames
    BY <1>1, <2>1 DEF OpNames
  <2>3. e.output = Zero
    BY DEF Zero
  <2> QED
    BY <2>1, <2>2, <2>3
<1>4. \/ UNCHANGED <<held, waiting, handle_map, results, last_handle, queue>>
      \/ /\ last_handle' = [last_handle EXCEPT ![r] = h]
         /\ results' = [results EXCEPT ![r] = res2]
         /\ \/ UNCHANGED <<held, waiting, handle_map, queue>>
            \/ /\ queue' = [queue EXCEPT ![r] = q2]
               /\ handle_map' = [handle_map EXCEPT ![r] = hm2]
               /\ \/ waiting' = [waiting EXCEPT ![r] = h] /\ UNCHANGED held
                  \/ held' = [held EXCEPT ![r] = held[r] \cup {h}] /\ UNCHANGED waiting
  BY DEF Enqueue, NextHandle
<1>5. /\ Numbered(held[r], h, hm2, res2, h) /\ Numbered(held[r] \cup {h}, waiting[r], hm2, res2, h)
      /\ Outstanding(hm2, res2, q2)
      /\ Settled(hm2, res2)
      /\ q2 \in Seq(Queued)
  <2> HIDE DEF e, key
  <2> QED
    BY <1>2, <1>3, Started DEF RankInv
<1>6. /\ Numbered(held[r], waiting[r], handle_map[r], res2, h)
      /\ Outstanding(handle_map[r], res2, queue[r])
      /\ Settled(handle_map[r], res2)
  BY <1>2, RefusedHandle DEF RankInv
<1> HIDE DEF h, hm2, res2, q2
<1>7. CASE UNCHANGED <<held, waiting, handle_map, results, last_handle, queue>>
  BY <1>7, HandlesFrame DEF ops
<1>8. CASE /\ last_handle' = [last_handle EXCEPT ![r] = h]
           /\ results' = [results EXCEPT ![r] = res2]
           /\ UNCHANGED <<held, waiting, handle_map, queue>>
  <2>1. HandleTypes'
    BY <1>3, <1>8 DEF HandlesInv, HandleTypes
  <2>2. RankInv(r)'
    <3>1. last_handle'[r] = h /\ results'[r] = res2
      BY <1>8 DEF HandlesInv, HandleTypes
    <3> QED
      BY <1>6, <1>8, <3>1 DEF RankInv, Settled, Zero
  <2> QED
    BY <1>8, <2>1, <2>2, OtherRanks DEF HandlesInv, HandleTypes
<1>9. CASE /\ last_handle' = [last_handle EXCEPT ![r] = h]
           /\ results' = [results EXCEPT ![r] = res2]
           /\ queue' = [queue EXCEPT ![r] = q2]
           /\ handle_map' = [handle_map EXCEPT ![r] = hm2]
           /\ \/ waiting' = [waiting EXCEPT ![r] = h] /\ UNCHANGED held
              \/ held' = [held EXCEPT ![r] = held[r] \cup {h}] /\ UNCHANGED waiting
  <2>1. HandleTypes'
    <3>1. (held \in [Rank -> SUBSET Nat])' /\ (waiting \in [Rank -> Nat])'
      <4>1. held[r] \cup {h} \in SUBSET Nat
        BY <1>2, <1>3
      <4> QED
        BY <1>3, <1>9, <4>1 DEF HandlesInv, HandleTypes
    <3>2. /\ (last_handle \in [Rank -> Nat])' /\ (queue \in [Rank -> Seq(Queued)])'
          /\ (DOMAIN handle_map = Rank)' /\ (DOMAIN results = Rank)'
      BY <1>3, <1>5, <1>9 DEF HandlesInv, HandleTypes
    <3> QED
      BY <3>1, <3>2 DEF HandleTypes
  <2>2. RankInv(r)'
    <3>1. /\ last_handle'[r] = h /\ results'[r] = res2 /\ queue'[r] = q2
          /\ handle_map'[r] = hm2
          /\ \/ waiting'[r] = h /\ held'[r] = held[r]
             \/ waiting'[r] = waiting[r] /\ held'[r] = held[r] \cup {h}
      BY <1>9 DEF HandlesInv, HandleTypes
    <3> QED
      BY <1>5, <3>1 DEF RankInv, Settled, Zero
  <2> QED
    BY <1>9, <2>1, <2>2, OtherRanks DEF HandlesInv, HandleTypes
<1> QED
  BY <1>4, <1>7, <1>8, <1>9

LEMMA HandlesWait ==
    ASSUME NEW r \in Rank, HandlesInv, Wait(r)
    PROVE  HandlesInv'
<1>1. UNCHANGED <<handle_map, results, last_handle, queue>>
  BY DEF Wait
<1>2. \/ UNCHANGED <<waiting, held>>
      \/ \E h \in held[r] : /\ waiting' = [waiting EXCEPT ![r] = h]
                            /\ held' = [held EXCEPT ![r] = held[r] \ {h}]
  BY DEF Wait
<1>3. CASE UNCHANGED <<waiting, held>>
  BY <1>1, <1>3, HandlesFrame DEF ops
<1>4. ASSUME NEW h \in held[r], waiting' = [waiting EXCEPT ![r] = h],
             held' = [held EXCEPT ![r] = held[r] \ {h}]
      PROVE  HandlesInv'
  <2>1. held[r] \in SUBSET Nat /\ RankInv(r)
    BY DEF HandlesInv, HandleTypes, HandleInv, RankInv
  <2>2. HandleTypes'
    <3>1. h \in Nat /\ held[r] \ {h} \in SUBSET Nat
      BY <2>1
    <3> QED
      BY <1>1, <1>4, <3>1 DEF HandlesInv, HandleTypes
  <2>3. waiting'[r] = h /\ held'[r] = held[r] \ {h}
    BY <1>4 DEF HandlesInv, HandleTypes
  <2>4. Numbered(held[r] \ {h}, h, handle_map[r], results[r], last_handle[r])
    <3>1. last_handle[r] \in Nat
      BY DEF HandlesInv, HandleTypes
    <3> QED
      BY <2>1, <3>1 DEF RankInv, Numbered
  <2>5. RankInv(r)'
    BY <1>1, <2>1, <2>3, <2>4 DEF RankInv, Settled, Zero
  <2> QED
    BY <1>1, <1>4, <2>2, <2>5, OtherRanks DEF HandlesInv, HandleTypes
<1> QED
  BY <1>2, <1>3, <1>4

LEMMA HandlesSynchronize ==
    ASSUME NEW r \in Rank, HandlesInv, Synchronize(r)
    PROVE  HandlesInv'
<1> DEFINE w == waiting[r]
           both == w \in DOMAIN handle_map[r] /\ w \in DOMAIN results[r]
           res2 == IF both THEN Without(results[r], w) ELSE results[r]
           hm2 == IF both /\ results[r][w] = "ok" THEN Without(handle_map[r], w)
                                                  ELSE handle_map[r]
<1>1. /\ results' = [results EXCEPT ![r] = res2]
      /\ handle_map' = [handle_map EXCEPT ![r] = hm2]
      /\ UNCHANGED <<held, waiting, last_handle, queue>>
      /\ both => results[r][w] # "pending"
  BY DEF Synchronize, ReleaseHandle, poll
<1>2. /\ held[r] \in SUBSET Nat /\ waiting[r] \in Nat /\ last_handle[r] \in Nat
      /\ queue[r] \in Seq(Queued) /\ RankInv(r)
  BY DEF HandlesInv, HandleTypes, HandleInv, RankInv
<1>3. /\ Numbered(held[r], w, hm2, res2, last_handle[r])
      /\ Outstanding(hm2, res2, queue[r])
      /\ Settled(hm2, res2)
  BY <1>1, <1>2, Synchronized DEF RankInv
<1> HIDE DEF res2, hm2
<1>4. HandleTypes'
  BY <1>1 DEF HandlesInv, HandleTypes
<1>5. RankInv(r)'
  <2>1. results'[r] = res2 /\ handle_map'[r] = hm2
    BY <1>1 DEF HandlesInv, HandleTypes
  <2> QED
    BY <1>1, <1>3, <2>1 DEF RankInv, Settled, Zero
<1> QED
  BY <1>1, <1>4, <1>5, OtherRanks DEF HandlesInv, HandleTypes

LEMMA HandlesBarrier ==
    ASSUME NEW r \in Rank, HandlesInv, EnterBarrier(r)
    PROVE  HandlesInv'
<1>1. /\ last_handle' = [last_handle EXCEPT ![r] = last_handle[r] + 1]
      /\ UNCHANGED <<held, waiting, handle_map, results, queue>>
  BY DEF EnterBarrier
<1>2. waiting[r] \in Nat /\ last_handle[r] \in Nat /\ RankInv(r)
  BY DEF HandlesInv, HandleTypes, HandleInv, RankInv
<1>3. HandleTypes'
  BY <1>1, <1>2 DEF HandlesInv, HandleTypes
<1>4. Numbered(held[r], waiting[r], handle_map[r], results[r], last_handle[r] + 1)
  BY <1>2 DEF RankInv, Numbered
<1>5. RankInv(r)'
  <2>1. last_handle'[r] = last_handle[r] + 1
    BY <1>1 DEF HandlesInv, HandleTypes
  <2> QED
    BY <1>1, <1>2, <1>4, <2>1 DEF RankInv, Settled, Zero
<1> QED
  BY <1>1, <1>3, <1>5, OtherRanks DEF HandlesInv, HandleTypes

LEMMA HandlesShutdown ==
    ASSUME NEW r \in Rank, HandlesInv, Shutdown(r)
    PROVE  HandlesInv'
<1>1. /\ results' = [s \in Rank |-> Abort(results[s], queue[s])]
      /\ queue' = [s \in Rank |-> <<>>]
      /\ UNCHANGED <<held, waiting, handle_map, last_handle>>
  BY DEF Shutdown
<1>2. HandleTypes'
  BY <1>1 DEF HandlesInv, HandleTypes
<1>3. ASSUME NEW s \in Rank PROVE RankInv(s)'
  <2>1. /\ waiting[s] \in Nat /\ last_handle[s] \in Nat
        /\ queue[s] \in Seq(Queued) /\ RankInv(s)
    BY DEF HandlesInv, HandleTypes, HandleInv, RankInv
  <2>2. results'[s] = Abort(results[s], queue[s]) /\ queue'[s] = <<>>
    BY <1>1
  <2>3. /\ Numbered(held[s], waiting[s], handle_map[s], Abort(results[s], queue[s]),
                    last_handle[s])
        /\ Outstanding(handle_map[s], Abort(results[s], queue[s]), <<>>)
        /\ Settled(handle_map[s], Abort(results[s], queue[s]))
    BY <2>1, Aborted DEF RankInv
  <2> QED
    BY <1>1, <2>2, <2>3 DEF RankInv, Settled, Zero
<1> QED
  BY <1>2, <1>3 DEF HandlesInv, HandleInv, RankInv

LEMMA HandlesPerform ==
    ASSUME HandlesInv, NEW i, \A r \in Rank : i[r] \in DOMAIN queue[r], PerformOn(i)
    PROVE  HandlesInv'
<1> DEFINE h == [r \in Rank |-> queue[r][i[r]].handle]
           e == [r \in Rank |-> handle_map[r][h[r]]]
           good == (\E r \in Rank : Dynamic(e[r].call)) => Matching(e)
           hm2(r) == IF good THEN [handle_map[r] EXCEPT
                                     ![h[r]] = Delivered(e[r], Output(r, e[r]))]
                             ELSE handle_map[r]
           res2(r) == [results[r] EXCEPT ![h[r]] = IF good THEN "ok" ELSE "error"]
<1>1. /\ queue' = [r \in Rank |-> RemoveAt(queue[r], i[r])]
      /\ results' = [r \in Rank |-> res2(r)]
      /\ handle_map' = [r \in Rank |-> hm2(r)]
      /\ UNCHANGED <<held, waiting, last_handle>>
  BY DEF PerformOn
<1>2. good \in BOOLEAN
  OBVIOUS
<1> HIDE DEF good
<1>3. ASSUME NEW r \in Rank
      PROVE  /\ RankInv(r)'
             /\ queue'[r] \in Seq(Queued)
  <2>1. /\ waiting[r] \in Nat /\ last_handle[r] \in Nat
        /\ queue[r] \in Seq(Queued) /\ RankInv(r)
    BY DEF HandlesInv, HandleTypes, HandleInv, RankInv
  <2>2. h[r] = queue[r][i[r]].handle /\ e[r] = handle_map[r][h[r]]
    OBVIOUS
  <2> HIDE DEF h, e
  <2>3. /\ queue'[r] = RemoveAt(queue[r], i[r])
        /\ results'[r] = res2(r) /\ handle_map'[r] = hm2(r)
    BY <1>1
  <2>4. /\ Numbered(held[r], waiting[r], hm2(r), res2(r), last_handle[r])
        /\ Outstanding(hm2(r), res2(r), RemoveAt(queue[r], i[r]))
        /\ Settled(hm2(r), res2(r))
        /\ RemoveAt(queue[r], i[r]) \in Seq(Queued)
    <3> DEFINE done == Delivered(e[r], Output(r, e[r]))
    <3>1. /\ Numbered(held[r], waiting[r], handle_map[r], results[r], last_handle[r])
          /\ Outstanding(handle_map[r], results[r], queue[r])
          /\ Settled(handle_map[r], results[r])
      BY <2>1 DEF RankInv
    <3> HIDE DEF done
    <3>2. LET g    == queue[r][i[r]].handle
              res3 == [results[r] EXCEPT ![g] = IF good THEN "ok" ELSE "error"]
              hm3  == IF good THEN [handle_map[r] EXCEPT ![g] = done] ELSE handle_map[r]
          IN  /\ Numbered(held[r], waiting[r], hm3, res3, last_handle[r])
              /\ Outstanding(hm3, res3, RemoveAt(queue[r], i[r]))
              /\ Settled(hm3, res3)
              /\ RemoveAt(queue[r], i[r]) \in Seq(Queued)
      BY <1>2, <2>1, <3>1, Performed
    <3> QED
      BY <2>2, <3>2 DEF done
  <2> HIDE DEF hm2, res2
  <2> QED
    BY <1>1, <2>3, <2>4 DEF RankInv, Settled, Zero
<1>4. HandleTypes'
  <2> HIDE DEF hm2, res2
  <2>1. (queue \in [Rank -> Seq(Queued)])'
    BY <1>1, <1>3
  <2>2. (DOMAIN handle_map = Rank)' /\ (DOMAIN results = Rank)'
    BY <1>1
  <2> QED
    BY <1>1, <2>1, <2>2 DEF HandlesInv, HandleTypes
<1> QED
  BY <1>3, <1>4 DEF HandlesInv, HandleInv, RankInv

LEMMA HandlesStep == ScriptInv /\ HandlesInv /\ [Next]_vars => HandlesInv'
<1> SUFFICES ASSUME ScriptInv, HandlesInv, [Next]_vars PROVE HandlesInv'
  OBVIOUS
<1>1. ASSUME NEW r \in Rank, Process(r) PROVE HandlesInv'
  <2>1. CASE \/ InitBluefog(r) \/ SetTopology(r) \/ SetMachineTopology(r) \/ SetFlag(r)
             \/ Timeline(r) \/ NothingToWait(r) \/ LeaveBarrier(r)
    <3>1. UNCHANGED ops
      BY <2>1 DEF InitBluefog, SetTopology, SetMachineTopology, SetFlag, Timeline,
         NothingToWait, LeaveBarrier
    <3> QED
      BY <3>1, HandlesFrame
  <2> QED
    BY <1>1, <2>1, HandlesEnqueue, HandlesWait, HandlesSynchronize, HandlesBarrier,
       HandlesShutdown DEF Process
<1>2. CASE BuildGraph \/ SetSkip \/ Terminating \/ UNCHANGED vars
  <2>1. UNCHANGED ops
    BY <1>2 DEF BuildGraph, SetSkip, Terminating, vars, ops
  <2> QED
    BY <2>1, HandlesFrame
<1>3. CASE Perform
  <2>1. \A r \in Rank : queue[r] # <<>> /\ queue[r] \in Seq(Queued)
    BY <1>3 DEF Perform, HandlesInv, HandleTypes
  <2>2. CASE PerformOn([r \in Rank |-> 1])
    <3> DEFINE i == [r \in Rank |-> 1]
    <3>1. \A r \in Rank : i[r] \in DOMAIN queue[r]
      BY <2>1
    <3> HIDE DEF i
    <3> QED
      BY <2>2, <3>1, HandlesPerform DEF i
  <2>3. ASSUME NEW j,
               \A r \in Rank : \E k \in DOMAIN queue[r] : queue[r][k].key = queue[0][j].key,
               PerformOn([r \in Rank |-> CHOOSE k \in DOMAIN queue[r] :
                                           queue[r][k].key = queue[0][j].key])
        PROVE  HandlesInv'
    <3> DEFINE i == [r \in Rank |-> CHOOSE k \in DOMAIN queue[r] :
                                      queue[r][k].key = queue[0][j].key]
    <3>1. \A r \in Rank : i[r] \in DOMAIN queue[r]
      BY <2>3
    <3> HIDE DEF i
    <3> QED
      BY <2>3, <3>1, HandlesPerform DEF i
  <2> QED
    BY <1>3, <2>2, <2>3 DEF Perform
<1> QED
  BY <1>1, <1>2, <1>3 DEF Next, Library

\* Python's _handle_map and the HandleManager of the library agree for every
\* script: a handle the script holds is known to both, what the library has to do
\* is pending, and the maps differ only by refused operations and by failed ones
\* (synchronize raises between the two updates).
THEOREM HandlesCorrect == Spec => []HandlesConsistent
<1>1. Init => IndInv
  BY ScriptInit, SourcesInit, HandlesInit DEF IndInv, HandlesInv
<1>2. IndInv /\ [Next]_vars => IndInv'
  BY ScriptStep, SourcesStep, HandlesStep DEF IndInv, HandlesInv
<1>3. IndInv => HandlesConsistent
  <2> SUFFICES ASSUME IndInv, NEW r \in Rank
               PROVE  /\ pc[r] \in {"run", "sync", "topology", "barrier"}
                      /\ pc[r] # "run" => todo[r] # <<>>
                      /\ sources[r] \subseteq Rank \ {r}
                      /\ DOMAIN handle_map[r] \cup DOMAIN results[r] \subseteq 1 .. last_handle[r]
                      /\ \A i \in DOMAIN queue[r] : results[r][queue[r][i].handle] = "pending"
                      /\ \A h \in held[r] : h \in DOMAIN handle_map[r] \cap DOMAIN results[r]
                      /\ \A h \in DOMAIN results[r] \ DOMAIN handle_map[r] :
                            results[r][h] = "pending"
                      /\ \A h \in DOMAIN handle_map[r] \ DOMAIN results[r] :
                            handle_map[r][h].output = [s \in Rank |-> 0]
    BY DEF HandlesConsistent, TypeOK, HandleMapsAgree
  <2>1. RankInv(r)
    BY DEF IndInv, HandleInv, RankInv
  <2>2. sources[r] \subseteq Rank \ {r}
    BY DEF IndInv, SourcesInv
  <2>3. /\ pc[r] \in {"run", "sync", "topology", "barrier"}
        /\ pc[r] # "run" => todo[r] # <<>>
    BY DEF IndInv, ScriptInv
  <2> QED
    BY <2>1, <2>2, <2>3 DEF RankInv, Numbered, Outstanding, Settled, Zero
<1> QED
  BY <1>1, <1>2, <1>3, PTL DEF Spec
=============================================================================
