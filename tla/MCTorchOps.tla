----------------------------- MODULE MCTorchOps ------------------------------
(* Scripts for TLC: two machines with two ranks each. *)
EXTENDS TorchOps

MCScale == 240
MCRank == 0 .. 3

Blank == [op |-> "wait", name |-> "", blocking |-> TRUE, fit |-> TRUE, float |-> TRUE,
          graph |-> NoTopology, flag |-> FALSE, average |-> TRUE, peer |-> 0, check |-> TRUE,
          has |-> {}, self_weight |-> 0, neighbor_weights |-> <<>>, send_neighbors |-> <<>>]
Do(o) == [Blank EXCEPT !.op = o]
Flagged(o, f) == [Do(o) EXCEPT !.flag = f]
WithGraph(o, g, weighted) == [Do(o) EXCEPT !.graph = g, !.flag = weighted, !.has = {"graph"}]
Nonblocking(o, n) == [Do(o) EXCEPT !.blocking = FALSE, !.name = n]
Weighted(o, self, nw) ==
    [Do(o) EXCEPT !.self_weight = self, !.neighbor_weights = nw,
                  !.has = {"self_weight", "neighbor_weights"}]
SendingTo(c, to) == [c EXCEPT !.send_neighbors = to, !.has = @ \cup {"send_neighbors"}]

Before(r) == (r - 1) % 4
After(r) == (r + 1) % 4
Ring == RingGraph(4, 0)

\* The averages, with and without the weights of a topology.
Averages(r) ==
    <<Do("allreduce"), Do("init"), Do("allreduce"), [Do("allreduce") EXCEPT !.average = FALSE],
      Flagged("allreduce", TRUE), [Do("allreduce") EXCEPT !.float = FALSE],
      [Do("allgather") EXCEPT !.fit = FALSE], Do("neighbor_allreduce"),
      WithGraph("set_topology", StarGraph(4, 0), TRUE), Do("neighbor_allreduce"),
      Do("neighbor_allgather"), WithGraph("set_topology", StarGraph(4, 0), TRUE),
      [Do("broadcast") EXCEPT !.peer = 1], Do("allgather"),
      WithGraph("set_topology", StarGraph(4, 0), FALSE), Do("neighbor_allreduce"), Do("shutdown"),
      Do("neighbor_allreduce")>>

\* Weights of one call, on fixed and on dynamic neighbors.
NA(self, nw) == Weighted("neighbor_allreduce", self, nw)
Weights(r) ==
    LET both == [s \in {Before(r), After(r)} |-> 80]
        one(w) == [s \in {Before(r)} |-> w]
    IN <<WithGraph("init", Ring, FALSE), NA(80, both), NA(120, [both EXCEPT ![After(r)] = 40]),
         NA(180, one(60)), NA(120, one(120)), NA(120, [s \in {(r + 2) % 4} |-> 120]),
         [NA(180, one(60)) EXCEPT !.has = {"self_weight"}],
         SendingTo(NA(120, one(120)), <<After(r)>>), SendingTo(NA(180, one(60)), <<After(r)>>),
         SendingTo(NA(120, one(120)), <<Before(r)>>), SendingTo(NA(120, one(120)), <<>>),
         SendingTo(NA(120, one(120)), <<1, 1>>), SendingTo(Do("neighbor_allreduce"), <<After(r)>>),
         Do("shutdown")>>

\* Machines.
Hier == "hierarchical_neighbor_allreduce"
HA(self, nw) == Weighted(Hier, self, nw)
MachineScript(r) ==
    LET other == [m \in {1 - Machine(r)} |-> 60]
    IN <<Do("init"), Do(Hier), Do("set_machine_topology"),
         WithGraph("set_machine_topology", FullyConnectedGraph(2), FALSE), Do(Hier),
         WithGraph("set_machine_topology", StarGraph(2, 0), TRUE),
         WithGraph("set_machine_topology", [i \in 0 .. 1 |-> [j \in 0 .. 1 |->
                                              IF i = j THEN 180 ELSE 60]], TRUE), Do(Hier),
         SendingTo(HA(180, other), <<1 - Machine(r)>>), HA(180, other),
         SendingTo(Do(Hier), <<1 - Machine(r)>>),
         SendingTo(HA(180, [m \in {2} |-> 60]), <<1 - Machine(r)>>), Do("shutdown")>>

\* A name that may still be in use, before operations without a name.
Reused(r) ==
    <<Do("init"), Nonblocking("allreduce", "a"), Nonblocking("allreduce", "a"),
      Nonblocking("allreduce", "a"), Nonblocking("allreduce", ""), Do("allreduce"), Do("shutdown")>>

\* Handles that are waited for in any order, and again, and that the shutdown of
\* the quickest rank may find pending.
Handles(r) ==
    <<Do("init"), Nonblocking("allreduce", "a"), Nonblocking("allreduce", "b"), Do("wait"),
      Do("wait_again"), Do("shutdown")>>

\* Topology and windows; suspension; barriers with and without negotiation.
Windows(r) ==
    <<WithGraph("init", Ring, FALSE), Do("win_create"),
      WithGraph("set_topology", FullyConnectedGraph(4), FALSE), Do("win_free"), Do("barrier"),
      Do("suspend"), Do("barrier"), Do("resume"), Do("barrier"), Do("wait"), Do("shutdown")>>
Skipping(r) ==
    <<Do("init"), Do("barrier"), Flagged("set_skip", TRUE), Do("barrier"),
      Nonblocking("allreduce", "a"), Do("allgather"), Do("wait"), Do("barrier"),
      Flagged("set_skip", FALSE), Do("barrier"), Do("shutdown")>>

Pairs(r) ==
    LET peer == IF r % 2 = 0 THEN r + 1 ELSE r - 1
        Gossip(c) == [c EXCEPT !.peer = peer]
    IN <<Do("set_topology"), Do("init"), Flagged("timeline", TRUE), Flagged("timeline", FALSE),
         Gossip(Do("pair_gossip")), Gossip(Weighted("pair_gossip", 60, [s \in {peer} |-> 180])),
         Gossip([Do("pair_gossip") EXCEPT !.has = {"self_weight"}]), Do("shutdown")>>

\* One call each whose result is not the documented one: weights for one of two
\* in-neighbors, and a topology that is set again to be weighted.
PartialWeights(r) ==
    <<WithGraph("init", Ring, FALSE), NA(120, [s \in {Before(r)} |-> 120]), Do("shutdown")>>
SetTwice(r) ==
    <<WithGraph("init", StarGraph(4, 0), FALSE), WithGraph("set_topology", StarGraph(4, 0), TRUE),
      Do("neighbor_allreduce"), Do("shutdown")>>

Job(Script(_)) == [r \in Rank |-> Script(r)]
MCJobs == {Job(Averages), Job(Weights), Job(MachineScript), Job(Reused), Job(Handles),
           Job(Windows), Job(Skipping), Job(Pairs), Job(PartialWeights), Job(SetTwice)}
=============================================================================
