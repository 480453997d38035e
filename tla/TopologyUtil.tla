---------------------------- MODULE TopologyUtil ----------------------------
(***************************************************************************)
(* The graphs of common/topology_util.py and the generators of dynamic     *)
(* send and receive lists, as operators.                                   *)
(*                                                                         *)
(* A graph on n ranks is its weight matrix (nx.to_numpy_array): topo[i][j] *)
(* is the weight of the edge from i to j, 0 if there is none.              *)
(* Weights are integers out of Scale, which every denominator divides.     *)
(***************************************************************************)
EXTENDS Integers, FiniteSets
LOCAL INSTANCE FiniteSetsExt
LOCAL INSTANCE Functions

CONSTANT Scale   \* the weight 1

ASSUME ScaleAssumption == Scale \in Nat \ {0}

Ranks(n) == 0 .. n - 1
Size(topo) == Cardinality(DOMAIN topo)
SumOver(f) == SumFunction(f)

-----------------------------------------------------------------------------
(* Graphs *)

Successors(topo, r) == {s \in DOMAIN topo : topo[r][s] # 0}
Predecessors(topo, r) == {s \in DOMAIN topo : topo[s][r] # 0}
OutDegree(topo, r) == Cardinality(Successors(topo, r))

\* Two missing graphs are not equivalent; the matrices decide otherwise.
NoTopology == <<>>
IsTopologyEquivalent(topo1, topo2) ==
    /\ topo1 # NoTopology /\ topo2 # NoTopology
    /\ topo1 = topo2

GetRecvWeights(topo, r) ==
    [self |-> topo[r][r],
     neighbors |-> [s \in Predecessors(topo, r) \ {r} |-> topo[s][r]]]

GetSendWeights(topo, r) ==
    [self |-> topo[r][r],
     neighbors |-> [s \in Successors(topo, r) \ {r} |-> topo[r][s]]]

\* Row i is the first row rolled by i; the first row has the weight 1 spread
\* over the offsets.
Rolled(n, offsets) ==
    [i \in Ranks(n) |-> [j \in Ranks(n) |->
        IF (j - i) % n \in offsets THEN Scale \div Cardinality(offsets) ELSE 0]]

\* The code takes int(math.log(x, base)) as the exponent.  In floating point that
\* is one too small for 243 and base 3, the only case below 1000 with bases up to
\* 9; here the test is exact.
isPowerOf(x, base) == \E k \in 0 .. x : base ^ k = x

ExponentialGraph(n, base) ==
    Rolled(n, {0} \cup {i \in 1 .. n - 1 : isPowerOf(i, base)})

\* i & (i - 1) is 0 for 0 and for the powers of two.
ExponentialTwoGraph(n) ==
    Rolled(n, {i \in Ranks(n) : i = 0 \/ isPowerOf(i, 2)})

SymmetricExponentialGraph(n, base) ==
    Rolled(n, {0} \cup {i \in 1 .. n - 1 :
                          isPowerOf(IF i <= n \div 2 THEN i ELSE n - i, base)})

RingGraph(n, connect_style) ==
    Rolled(n, IF n <= 2 THEN Ranks(n)
              ELSE CASE connect_style = 0 -> {0, 1, n - 1}
                     [] connect_style = 1 -> {0, n - 1}
                     [] connect_style = 2 -> {0, 1})

FullyConnectedGraph(n) == Rolled(n, Ranks(n))

\* The assignments of one round overwrite the diagonal of the center.
StarGraph(n, center) ==
    [i \in Ranks(n) |-> [j \in Ranks(n) |->
        IF center \in {i, j} THEN Scale \div n
        ELSE IF i = j THEN Scale - (Scale \div n) ELSE 0]]

\* The two closest factors of n, the smaller one first.
GridShape(n) ==
    LET nrow == Max({i \in 1 .. n : i * i <= n /\ n % i = 0})
    IN <<nrow, n \div nrow>>

\* A variant of MeshGrid2DGraph: every rank weighs by its own degree.
MeshGrid2DGraphOwnDegree(n, ncol) ==
    LET Near(i, j) == \/ i = j
                      \/ (i + 1) % ncol # 0 /\ j = i + 1
                      \/ (j + 1) % ncol # 0 /\ i = j + 1
                      \/ j = i + ncol \/ i = j + ncol
        deg == [i \in Ranks(n) |-> Cardinality({j \in Ranks(n) : Near(i, j)})]
    IN [i \in Ranks(n) |-> [j \in Ranks(n) |->
          IF Near(i, j) THEN Scale \div deg[i] ELSE 0]]

MeshGrid2DGraph(n, ncol) ==
    LET Near(i, j) == \/ i = j
                      \/ (i + 1) % ncol # 0 /\ j = i + 1
                      \/ (j + 1) % ncol # 0 /\ i = j + 1
                      \/ j = i + ncol \/ i = j + ncol
        deg == [i \in Ranks(n) |-> Cardinality({j \in Ranks(n) : Near(i, j)})]
        off == [i \in Ranks(n) |-> [j \in Ranks(n) |->
                  IF Near(i, j) /\ i # j
                  THEN Scale \div (IF deg[i] >= deg[j] THEN deg[i] ELSE deg[j]) ELSE 0]]
    IN [i \in Ranks(n) |-> [off[i] EXCEPT ![i] = Scale - SumOver(off[i])]]

-----------------------------------------------------------------------------
(* Dynamic lists: the index-th item of the generator of rank r, as sets. *)

Pow2[k \in Nat] == IF k = 0 THEN 1 ELSE 2 * Pow2[k - 1]
FloorLog2(x) == CHOOSE k \in 0 .. x : Pow2[k] <= x /\ x < Pow2[k + 1]
Lists(to, by) == [send |-> to, recv |-> by]

\* The out-neighbors of a rank other than itself, sorted clockwise from the
\* rank: the one at position k, from 0.
ClockwisePeer(topo, r, k) ==
    LET peers == Successors(topo, r) \ {r}
        Dist(s) == (s - r) % Size(topo)
    IN CHOOSE s \in peers : Cardinality({t \in peers : Dist(t) < Dist(s)}) = k

\* The degree is the number of out-edges less one, also without a self-loop.
OnePeer(topo, r, index) == ClockwisePeer(topo, r, index % (OutDegree(topo, r) - 1))

GetDynamicOnePeerSendRecvRanks(topo, r, index) ==
    Lists({OnePeer(topo, r, index)},
          {s \in DOMAIN topo \ {r} : OnePeer(topo, s, index) = r})

\* A variant: the distances begin with 2.
Exp2MachineFromTwo(world, local, r, index) ==
    LET machine == r \div local
        machines == world \div local
        dist == Pow2[1 + (index % (FloorLog2(machines - 1) + 1))]
    IN Lists({(machine + dist) % machines}, {(machine - dist) % machines})

\* The ids are machines.
GetExp2DynamicSendRecvMachineRanks(world, local, r, index) ==
    LET machine == r \div local
        machines == world \div local
        dist == Pow2[index % (FloorLog2(machines - 1) + 1)]
    IN Lists({(machine + dist) % machines}, {(machine - dist) % machines})

\* A variant: the receiving side does not step over the rank that is outside.
RingWithoutSkip(world, local, r, index) ==
    LET machines == world \div local
        machine == r \div local
        me == r % local
        out == index % local
        At(m, l) == m * local + l
        Past(l, step) == IF l = out THEN (l + step) % local ELSE l
    IN IF out = me
       THEN Lists({At((machine + 1) % machines, me)}, {At((machine - 1) % machines, me)})
       ELSE Lists({At(machine, Past((me + 1) % local, 1))}, {At(machine, (me - 1) % local)})

GetInnerOuterRingDynamicSendRecvRanks(world, local, r, index) ==
    LET machines == world \div local
        machine == r \div local
        me == r % local
        out == index % local
        At(m, l) == m * local + l
        Past(l, step) == IF l = out THEN (l + step) % local ELSE l
    IN IF out = me
       THEN Lists({At((machine + 1) % machines, me)}, {At((machine - 1) % machines, me)})
       ELSE Lists({At(machine, Past((me + 1) % local, 1))},
                  {At(machine, Past((me - 1) % local, -1))})

GetInnerOuterExpo2DynamicSendRecvRanks(world, local, r, index) ==
    LET machines == world \div local
        machine == r \div local
        me == r % local
        out == index % local
        outer == Pow2[index % (FloorLog2(machines - 1) + 1)]
        inner == Pow2[index % (FloorLog2(local - 2) + 1)]
        At(m, l) == m * local + l
        Past(d, toOut) == IF d >= toOut THEN d + 1 ELSE d
    IN IF out = me
       THEN Lists({At((machine + outer) % machines, me)},
                  {At((machine - outer) % machines, me)})
       ELSE Lists({At(machine, (me + Past(inner, (out - me) % local)) % local)},
                  {At(machine, (me - Past(inner, (me - out) % local)) % local)})
=============================================================================
