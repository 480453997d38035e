------------------------------ MODULE Topology ------------------------------
(***************************************************************************)
(* A job that communicates along dynamic lists: every rank draws its next  *)
(* lists from its own generator, round after round, and nothing but the    *)
(* arithmetic of the generators makes them agree.                          *)
(***************************************************************************)
EXTENDS TopologyUtil
LOCAL INSTANCE FiniteSetsExt

CONSTANT Jobs   \* the jobs to look at

-----------------------------------------------------------------------------
(* A job: the graph topo that every rank has set, the generator gen that    *)
(* every rank walks, and the layout of world ranks, local on each machine.  *)
(* Machine-level lists are the same for all ranks of a machine: one rank of *)
(* each machine stands for it.                                              *)

\* What the generators assert or need of their arguments: two out-edges of every
\* rank, or a whole number of machines, of which there are at least two, with more
\* than two ranks each for the lists inside a machine.
Machines(j) == j.world \div j.local
ASSUME JobsAssumption ==
    \A j \in Jobs :
        /\ j.gen \in {"one_peer", "machine", "ring", "expo2"}
        /\ j.world \in Nat /\ j.local \in Nat \ {0}
        /\ IF j.gen = "one_peer"
           THEN /\ DOMAIN j.topo = Ranks(j.world)
                /\ \A r \in Ranks(j.world) : OutDegree(j.topo, r) >= 2
           ELSE /\ j.world % j.local = 0
                /\ j.world > j.local
                /\ j.gen # "machine" => j.local > 2

VARIABLES job, index

vars == <<job, index>>

\* Who takes part, and the lists each one draws in round i.
Party(j) == IF j.gen = "machine" THEN Ranks(Machines(j)) ELSE Ranks(j.world)
Drawn(j, r, i) ==
    CASE j.gen = "one_peer" -> GetDynamicOnePeerSendRecvRanks(j.topo, r, i)
      [] j.gen = "machine" -> GetExp2DynamicSendRecvMachineRanks(j.world, j.local, r * j.local, i)
      [] j.gen = "ring" -> GetInnerOuterRingDynamicSendRecvRanks(j.world, j.local, r, i)
      [] j.gen = "expo2" -> GetInnerOuterExpo2DynamicSendRecvRanks(j.world, j.local, r, i)

\* The generators use the index only modulo these.
Moduli(j) ==
    CASE j.gen = "one_peer" -> {OutDegree(j.topo, r) - 1 : r \in DOMAIN j.topo}
      [] j.gen = "machine" -> {FloorLog2(Machines(j) - 1) + 1}
      [] j.gen = "ring" -> {j.local}
      [] j.gen = "expo2" -> {j.local, FloorLog2(Machines(j) - 1) + 1,
                             FloorLog2(j.local - 2) + 1}
Period(j) ==
    LET Multiple(n) == \A m \in Moduli(j) : n % m = 0
    IN CHOOSE n \in 1 .. ProductSet(Moduli(j)) :
         Multiple(n) /\ \A k \in 1 .. n - 1 : ~Multiple(k)

Init ==
    /\ job \in Jobs
    /\ index = 0

\* Every rank takes the next item of its generator. The index is cut at the
\* period, where the generators start over.
NextRound ==
    /\ index' = IF index + 1 = Period(job) THEN 0 ELSE index + 1
    /\ UNCHANGED job

Next == NextRound
Spec == Init /\ [][Next]_vars

-----------------------------------------------------------------------------
(* Properties *)

\* In every round r is in the send list of s exactly if s is in the receive list
\* of r: neighbor_allreduce posts one receive per source and one send per
\* destination and blocks in MPI_Waitall if they do not pair up. Nobody is asked
\* to send to itself or to a rank out of range.
DynamicListsMatch ==
    \A r \in Party(job) :
        LET l == Drawn(job, r, index)
        IN /\ l.send \cup l.recv \subseteq Party(job) \ {r}
           /\ \A s \in Party(job) :
                 (r \in Drawn(job, s, index).send) <=> (s \in l.recv)

\* What a rank receives sums to one, and so does what it gives: averaging
\* over the graph keeps the mean, with receive weights (neighbor_allreduce)
\* as with send weights (win_put, win_accumulate).
WeightsKeepTheMean ==
    \A r \in DOMAIN job.topo :
        LET recv == GetRecvWeights(job.topo, r)
            send == GetSendWeights(job.topo, r)
        IN /\ recv.self + SumOver(recv.neighbors) = Scale
           /\ send.self + SumOver(send.neighbors) = Scale

\* Over a period the drawn lists connect every rank to every other: a value
\* of any rank reaches all, or the ranks never agree. The one-peer generator
\* draws every edge of its graph.
Talks(j) ==
    UNION {{r} \X Drawn(j, r, i).send : r \in Party(j), i \in 0 .. Period(j) - 1}
Reached(edges, n) ==
    LET f[k \in 0 .. n] ==
          IF k = 0 THEN {0}
          ELSE LET known == f[k - 1]
               IN known \cup {e[2] : e \in {d \in edges : d[1] \in known}}
    IN f[n]
PeriodConnects ==
    index = 0 =>
        LET edges == Talks(job)
            n == Cardinality(Party(job))
        IN /\ Reached(edges, n) = Party(job)
           /\ Reached({<<e[2], e[1]>> : e \in edges}, n) = Party(job)
           /\ job.gen = "one_peer" =>
                 edges = UNION {{r} \X (Successors(job.topo, r) \ {r}) : r \in Party(job)}
=============================================================================
