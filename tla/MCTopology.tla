------------------------------ MODULE MCTopology -----------------------------
(* Graphs and generators for TLC: all the graphs on up to 9 ranks, and       *)
(* 2 to 5 machines with 3 to 6 ranks each.                                   *)
EXTENDS Topology

\* Divisible by every row sum and degree that occurs on up to 9 ranks.
MCScale == 2520

GraphsOn(n) ==
    {ExponentialTwoGraph(n), FullyConnectedGraph(n)}
    \cup {ExponentialGraph(n, b) : b \in {2, 3}}
    \cup {SymmetricExponentialGraph(n, b) : b \in {2, 4}}
    \cup {RingGraph(n, style) : style \in 0 .. 2}
    \cup {StarGraph(n, c) : c \in {0, n - 1}}
    \cup {MeshGrid2DGraph(n, GridShape(n)[2]), MeshGrid2DGraph(n, n)}

OnePeerJobs ==
    {[topo |-> g, gen |-> "one_peer", world |-> n, local |-> n]
       : <<n, g>> \in UNION {{m} \X GraphsOn(m) : m \in 2 .. 9}}

MachineJobs ==
    {[topo |-> RingGraph(m * l, 0), gen |-> g, world |-> m * l, local |-> l] :
       m \in 2 .. 5, l \in 3 .. 6, g \in {"machine", "ring", "expo2"}}

MCJobs == OnePeerJobs \cup MachineJobs
=============================================================================
