------------------------------ MODULE TorchOps ------------------------------
(***************************************************************************)
(* The Python interface: common/basics.py and the collective operations of *)
(* torch/mpi_ops.py, on every rank of a job, over the C++ library. Each    *)
(* rank runs a script of calls; a call that raises an exception is caught  *)
(* and the script goes on.                                                 *)
(*                                                                         *)
(* Every operation is called on a tensor of its own, so that a result is   *)
(* the function that gives for every rank the coefficient of its tensor,   *)
(* out of Scale; for a gather, Scale for the tensors it contains.          *)
(*                                                                         *)
(* The library (module Bluefog) is seen from above: operations of the same *)
(* name, or with the negotiation skipped the oldest ones, take place when  *)
(* every rank has started them.                                            *)
(***************************************************************************)
EXTENDS TopologyUtil, Sequences
LOCAL INSTANCE SequencesExt

CONSTANTS Rank,       \* the processes
          LocalSize,  \* ranks per machine
          Jobs        \* the scripts to look at, see Call

ASSUME RankAssumption == Rank = Ranks(Cardinality(Rank))
ASSUME LocalSizeAssumption == LocalSize \in Nat \ {0} /\ Cardinality(Rank) % LocalSize = 0

World == Cardinality(Rank)
Machine(r) == r \div LocalSize
Machines == Ranks(World \div LocalSize)

\* A call is a record of op and all arguments: has tells which optional ones are
\* given; name is "" for none; fit: the tensor is contiguous and of a supported
\* type, float: of a floating type; weights are out of Scale; peer is the root or
\* the partner (whose weight is then in neighbor_weights); check is
\* enable_topo_check; flag is is_weighted, is_hierarchical_local, the new value of
\* skip, or whether the library has a timeline.
Collective == {"allreduce", "broadcast", "allgather", "neighbor_allgather", "barrier",
               "neighbor_allreduce", "hierarchical_neighbor_allreduce", "pair_gossip"}
Operation == Collective \cup
    {"init", "set_topology", "set_machine_topology", "win_create", "win_free", "suspend",
     "resume", "set_skip", "timeline", "wait", "wait_again", "shutdown"}

Call == UNION {{j[r][i] : i \in DOMAIN j[r]} : j \in Jobs, r \in Rank}

\* The scripts are sequences of calls, and a graph given to init or set_topology
\* is one on the ranks of the job.
ASSUME JobsAssumption ==
    /\ Jobs \subseteq [Rank -> Seq(Call)]
    /\ \A c \in Call : c.op \in Operation
    /\ \A c \in Call : c.op \in {"init", "set_topology"} /\ "graph" \in c.has
                       => DOMAIN c.graph = Rank

VARIABLES
    todo,       \* calls a rank has still to make, the current one first
    pc,         \* "run", or where the rank waits: "sync", "topology", "barrier"
    held,       \* the handles that calls have returned and the script has not waited for
    waiting,    \* the last handle the script waited for
    topology, is_topo_weighted,                  \* of BlueFogBasics
    machine_topology, is_machine_topo_weighted,
    warn_timeline,
    handle_map, \* _handle_map: handle -> the call, its place in the script, its result
    results,    \* HandleManager: handle -> "pending", "ok", "error"
    last_handle,
    queue,      \* the operations in the library, oldest first
    sources,    \* the in-neighbors in the graph communicator
    lib,        \* flags of the library: initialized, suspended, shut down, skip, windows
    asked,      \* history: the topology the script has set, with the is_weighted of its
                \* last call, and of the call for which the library built the graph
    entered     \* calls of barrier() so far

vars == <<todo, pc, held, waiting, topology, is_topo_weighted, machine_topology,
          is_machine_topo_weighted, warn_timeline, handle_map, results, last_handle, queue,
          sources, lib, asked, entered>>
basics == <<topology, is_topo_weighted, machine_topology, is_machine_topo_weighted, asked>>
ops == <<held, waiting, handle_map, results, last_handle, queue>>

Init ==
    /\ todo \in Jobs
    /\ pc = [r \in Rank |-> "run"]
    /\ held = [r \in Rank |-> {}]
    /\ waiting = [r \in Rank |-> 0]
    /\ topology = [r \in Rank |-> NoTopology]
    /\ is_topo_weighted = [r \in Rank |-> FALSE]
    /\ machine_topology = topology
    /\ is_machine_topo_weighted = is_topo_weighted
    /\ warn_timeline = is_topo_weighted
    /\ handle_map = [r \in Rank |-> <<>>]
    /\ results = [r \in Rank |-> <<>>]
    /\ last_handle = waiting
    /\ queue = [r \in Rank |-> <<>>]
    /\ sources = held
    /\ lib = [r \in Rank |-> [init |-> FALSE, suspended |-> FALSE, shut_down |-> FALSE,
                              skip |-> FALSE, window |-> FALSE]]
    /\ asked = [r \in Rank |-> [graph |-> NoTopology, weighted |-> FALSE, built |-> FALSE]]
    /\ entered = waiting

Calls(r, op) == pc[r] = "run" /\ todo[r] # <<>> /\ Head(todo[r]).op = op
Return(r) == todo' = [todo EXCEPT ![r] = Tail(@)]

-----------------------------------------------------------------------------
(* basics.py: topology *)

in_neighbor_ranks(r) == IF topology[r] = NoTopology THEN {} ELSE Predecessors(topology[r], r) \ {r}
in_neighbor_machine_ranks(r) ==
    IF machine_topology[r] = NoTopology THEN {}
    ELSE Predecessors(machine_topology[r], Machine(r)) \ {Machine(r)}
out_neighbor_machine_ranks(r) ==
    IF machine_topology[r] = NoTopology THEN {}
    ELSE Successors(machine_topology[r], Machine(r)) \ {Machine(r)}

\* The graph of a call of init or set_topology, by default the exponential one.
Graph(c) == IF "graph" \in c.has THEN c.graph ELSE ExponentialGraph(World, 2)

\* init, and set_topology up to the call of the library: an equivalent graph is
\* not set again; a window, or a library that is not initialized, makes the call
\* fail (a return code that is not 1), and nothing is changed. Otherwise the rank
\* waits in the library, which the scripts enter with no operation outstanding.
\* A variant: the topology is remembered before the library has accepted it.
BeginSetTopologyEarly(r) ==
    LET c == Head(todo[r])
        same == IsTopologyEquivalent(Graph(c), topology[r])
        can == lib'[r].init /\ ~lib[r].window
    IN /\ topology' = [topology EXCEPT ![r] = Graph(c)]
       /\ asked' = IF same THEN [asked EXCEPT ![r].weighted = c.flag] ELSE asked
       /\ IF same \/ ~can
          THEN Return(r) /\ UNCHANGED pc
          ELSE pc' = [pc EXCEPT ![r] = "topology"] /\ UNCHANGED todo
       /\ UNCHANGED <<is_topo_weighted, machine_topology, is_machine_topo_weighted>>
BeginSetTopology(r) ==
    LET c == Head(todo[r])
        same == IsTopologyEquivalent(Graph(c), topology[r])
        can == lib'[r].init /\ ~lib[r].window
    IN /\ IF same \/ ~can
          THEN Return(r) /\ UNCHANGED pc
          ELSE pc' = [pc EXCEPT ![r] = "topology"] /\ UNCHANGED todo
       /\ asked' = IF same THEN [asked EXCEPT ![r].weighted = c.flag] ELSE asked
       /\ UNCHANGED <<topology, is_topo_weighted, machine_topology, is_machine_topo_weighted>>

InitBluefog(r) ==
    /\ Calls(r, "init")
    /\ lib' = [lib EXCEPT ![r].init = TRUE]
    /\ BeginSetTopology(r)
    /\ UNCHANGED <<warn_timeline, ops, sources, entered>>

SetTopology(r) ==
    /\ Calls(r, "set_topology")
    /\ UNCHANGED lib
    /\ BeginSetTopology(r)
    /\ UNCHANGED <<warn_timeline, ops, sources, entered>>

\* The library has built the communicator on all ranks.
BuildGraph ==
    /\ \A r \in Rank : pc[r] = "topology" /\ queue[r] = <<>>
    /\ sources' = [r \in Rank |-> Predecessors(Graph(Head(todo[r])), r) \ {r}]
    /\ topology' = [r \in Rank |-> Graph(Head(todo[r]))]
    /\ is_topo_weighted' = [r \in Rank |-> Head(todo[r]).flag]
    /\ asked' = [r \in Rank |-> [graph |-> Graph(Head(todo[r])), weighted |-> Head(todo[r]).flag,
                                  built |-> Head(todo[r]).flag]]
    /\ pc' = [r \in Rank |-> "run"]
    /\ todo' = [r \in Rank |-> Tail(todo[r])]
    /\ UNCHANGED <<machine_topology, is_machine_topo_weighted, warn_timeline, ops, lib, entered>>

\* Only Python knows the machine topology.
SetMachineTopology(r) ==
    LET c == Head(todo[r])
    IN /\ Calls(r, "set_machine_topology")
       /\ IF "graph" \in c.has /\ ~IsTopologyEquivalent(c.graph, machine_topology[r])
          THEN /\ machine_topology' = [machine_topology EXCEPT ![r] = c.graph]
               /\ is_machine_topo_weighted' = [is_machine_topo_weighted EXCEPT ![r] = c.flag]
          ELSE UNCHANGED <<machine_topology, is_machine_topo_weighted>>
       /\ Return(r)
       /\ UNCHANGED <<pc, topology, is_topo_weighted, warn_timeline, ops, sources, lib, asked,
                      entered>>

\* Calls that set a flag of the library: suspend, resume (the check for ipython
\* never fails: the function is not called), the negotiation, and, for this
\* module, the existence of windows.
SetFlag(r) ==
    /\ \/ Calls(r, "suspend") /\ lib' = [lib EXCEPT ![r].suspended = TRUE]
       \/ Calls(r, "resume") /\ lib' = [lib EXCEPT ![r].suspended = FALSE]
       \/ Calls(r, "win_create") /\ lib' = [lib EXCEPT ![r].window = TRUE]
       \/ Calls(r, "win_free") /\ lib' = [lib EXCEPT ![r].window = FALSE]
    /\ Return(r)
    /\ UNCHANGED <<pc, basics, warn_timeline, ops, sources, entered>>

\* set_skip_negotiate_stage parks all background threads, with nothing outstanding.
SetSkip ==
    /\ \A r \in Rank : Calls(r, "set_skip") /\ queue[r] = <<>>
    /\ lib' = [r \in Rank |-> [lib[r] EXCEPT !.skip = Head(todo[r]).flag]]
    /\ todo' = [r \in Rank |-> Tail(todo[r])]
    /\ UNCHANGED <<pc, basics, warn_timeline, ops, sources, entered>>

\* timeline_start_activity and timeline_end_activity; flag: the library has a timeline.
Timeline(r) ==
    /\ Calls(r, "timeline")
    /\ warn_timeline' = [warn_timeline EXCEPT ![r] = @ \/ ~Head(todo[r]).flag]
    /\ Return(r)
    /\ UNCHANGED <<pc, basics, ops, sources, lib, entered>>

\* bluefog_shutdown ends the background threads of all ranks, and every operation
\* they still have; here the caller also forgets the topologies.
\* A variant of Abort: nobody is told.
AbortSilently(res, q) == res
Abort(res, q) == [h \in DOMAIN res |->
                    IF \E i \in DOMAIN q : q[i].handle = h THEN "error" ELSE res[h]]
Shutdown(r) ==
    /\ Calls(r, "shutdown")
    /\ lib' = [s \in Rank |-> [lib[s] EXCEPT !.shut_down = TRUE]]
    /\ results' = [s \in Rank |-> Abort(results[s], queue[s])]
    /\ queue' = [s \in Rank |-> <<>>]
    /\ topology' = [topology EXCEPT ![r] = NoTopology]
    /\ machine_topology' = [machine_topology EXCEPT ![r] = NoTopology]
    /\ Return(r)
    /\ UNCHANGED <<pc, is_topo_weighted, is_machine_topo_weighted, warn_timeline, held,
                   waiting, handle_map, last_handle, sources, asked, entered>>

-----------------------------------------------------------------------------
(* mpi_ops.py: what an operation is called with *)

Part(n) == Scale \div n
Args(self, nw, weighted) ==
    [self_weight |-> self, neighbor_weights |-> nw, weighted_average_computation |-> weighted]
UniformArgs(peers) ==
    Args(Part(Cardinality(peers) + 1), [s \in peers |-> Part(Cardinality(peers) + 1)], FALSE)
TopologyArgs(topo, r) ==
    Args(GetRecvWeights(topo, r).self, GetRecvWeights(topo, r).neighbors, TRUE)
\* Weights that are all 1/(n+1) count as an average, not as weights.
GivenArgs(c) ==
    LET parts == {c.self_weight} \cup {c.neighbor_weights[s] : s \in DOMAIN c.neighbor_weights}
    IN Args(c.self_weight, c.neighbor_weights,
            parts # {Part(Cardinality(DOMAIN c.neighbor_weights) + 1)})

OneOfTwo(c) == ("self_weight" \in c.has) # ("neighbor_weights" \in c.has)
NeighborAllreduceError(r, c) ==
    \/ OneOfTwo(c)
    \/ "send_neighbors" \in c.has /\ (\/ ~IsInjective(c.send_neighbors)
                                      \/ "self_weight" \notin c.has
                                      \/ c.send_neighbors = <<>>)
    \/ /\ "self_weight" \in c.has
       /\ "send_neighbors" \notin c.has
       /\ ~(DOMAIN c.neighbor_weights \subseteq in_neighbor_ranks(r))
    \/ "self_weight" \notin c.has /\ is_topo_weighted[r] /\ topology[r] = NoTopology
\* A variant: the flag of the topology is not looked at.
NeighborAllreduceUniform(r, c) ==
    IF "self_weight" \in c.has THEN GivenArgs(c) ELSE UniformArgs(in_neighbor_ranks(r))
NeighborAllreduceArgs(r, c) ==
    CASE "self_weight" \in c.has -> GivenArgs(c)
      [] "self_weight" \notin c.has /\ is_topo_weighted[r] -> TopologyArgs(topology[r], r)
      [] OTHER -> UniformArgs(in_neighbor_ranks(r))

\* Machine ids become the ranks with local rank 0. The operation is then a dynamic one.
HierarchicalError(r, c) ==
    \/ OneOfTwo(c)
    \/ LocalSize = 1
    \/ "self_weight" \in c.has /\ ("send_neighbors" \notin c.has \/ c.send_neighbors = <<>>)
    \/ "self_weight" \in c.has /\ \E m \in DOMAIN c.neighbor_weights : m >= Cardinality(Machines)
    \/ "self_weight" \notin c.has /\ ("send_neighbors" \in c.has
                                      \/ machine_topology[r] = NoTopology)
HierarchicalArgs(r, c) ==
    LET a == CASE "self_weight" \in c.has -> GivenArgs(c)
               [] "self_weight" \notin c.has /\ is_machine_topo_weighted[r] ->
                    TopologyArgs(machine_topology[r], Machine(r))
               [] OTHER -> UniformArgs(in_neighbor_machine_ranks(r))
    IN [a EXCEPT !.neighbor_weights =
          [s \in {m * LocalSize : m \in DOMAIN @} |-> @[Machine(s)]]]

\* Without weights the flag is set and makes the library take the average.
PairGossipArgs(c) ==
    IF "self_weight" \in c.has THEN Args(c.self_weight, c.neighbor_weights, FALSE)
    ELSE Args(0, <<>>, TRUE)

\* The exceptions Python raises before it calls the library, and the library's
\* first check.
CallError(r, c) ==
    \/ ~lib[r].init
    \/ ~c.fit
    \/ c.op = "allreduce" /\ c.average /\ ~c.float
    \/ c.op = "neighbor_allreduce" /\ NeighborAllreduceError(r, c)
    \/ c.op = "hierarchical_neighbor_allreduce" /\ HierarchicalError(r, c)
    \/ c.op = "pair_gossip" /\ OneOfTwo(c)
CallArgs(r, c) ==
    CASE c.op = "neighbor_allreduce" -> NeighborAllreduceArgs(r, c)
      [] c.op = "hierarchical_neighbor_allreduce" -> HierarchicalArgs(r, c)
      [] c.op = "pair_gossip" -> PairGossipArgs(c)
      [] OTHER -> Args(0, <<>>, FALSE)

\* Where the operation is dynamic, the ranks it is sent to.
Dynamic(c) == "send_neighbors" \in c.has \/ c.op = "hierarchical_neighbor_allreduce"
SendTo(r, c) ==
    CASE c.op = "hierarchical_neighbor_allreduce" ->
           {m * LocalSize : m \in IF "send_neighbors" \in c.has THEN Range(c.send_neighbors)
                                  ELSE out_neighbor_machine_ranks(r)}
      [] OTHER -> Range(c.send_neighbors)

-----------------------------------------------------------------------------
(* mpi_ops.py: handles *)

Without(f, h) == [k \in DOMAIN f \ {h} |-> f[k]]
With(f, h, v) == [k \in DOMAIN f \cup {h} |-> IF k = h THEN v ELSE f[k]]

\* The prefix of the operation and its name, or the number of the handle. The two
\* kinds of neighbor_allreduce share a prefix.
Prefix(op) == CASE op = "barrier" -> "allreduce"
                [] op = "hierarchical_neighbor_allreduce" -> "neighbor_allreduce"
                [] OTHER -> op
OpName(c, h) == <<Prefix(c.op),
                  IF c.op = "barrier" THEN "barrier" ELSE c.name,
                  IF c.name = "" /\ c.op # "barrier" THEN h ELSE 0>>
Refused(r, key) == \/ lib[r].shut_down \/ lib[r].suspended
                   \/ \E i \in DOMAIN queue[r] : queue[r][i].key = key

\* A variant: a refused operation does not use up a handle.
NextHandleIfAccepted(r, refused) == IF refused THEN last_handle[r] ELSE last_handle[r] + 1
NextHandle(r, refused) == last_handle[r] + 1

\* A nonblocking operation, or the first half of a blocking one; barrier() with
\* the negotiation is an allreduce of one element. The handle is allocated first:
\* when the operation is refused, it stays with the handle manager.
Enqueue(r) ==
    LET c == Head(todo[r])
        h == last_handle[r] + 1
        key == OpName(c, h)
        refused == Refused(r, key)
    IN /\ pc[r] = "run" /\ todo[r] # <<>>
       /\ c.op \in Collective
       /\ ~(c.op = "barrier" /\ lib[r].skip)
       /\ entered' = [entered EXCEPT ![r] = IF c.op = "barrier" THEN @ + 1 ELSE @]
       /\ IF CallError(r, c)
          THEN Return(r) /\ UNCHANGED <<pc, held, waiting, handle_map, results, last_handle, queue>>
          ELSE /\ last_handle' = [last_handle EXCEPT ![r] = NextHandle(r, refused)]
               /\ results' = [results EXCEPT ![r] = With(@, h, "pending")]
               /\ IF refused
                  THEN Return(r) /\ UNCHANGED <<pc, held, waiting, handle_map, queue>>
                  ELSE /\ queue' = [queue EXCEPT ![r] = Append(@, [key |-> key, handle |-> h])]
                       /\ handle_map' = [handle_map EXCEPT ![r] = With(@, h,
                            [call |-> c, args |-> CallArgs(r, c),
                             to |-> IF Dynamic(c) THEN SendTo(r, c) ELSE {},
                             place |-> Len(todo[r]), output |-> [s \in Rank |-> 0]])]
                       /\ IF c.blocking
                          THEN /\ pc' = [pc EXCEPT ![r] = "sync"]
                               /\ waiting' = [waiting EXCEPT ![r] = h]
                               /\ UNCHANGED <<todo, held>>
                          ELSE /\ held' = [held EXCEPT ![r] = @ \cup {h}]
                               /\ Return(r)
                               /\ UNCHANGED <<pc, waiting>>
       /\ UNCHANGED <<basics, warn_timeline, sources, lib>>

\* synchronize(handle), wait(handle): any handle the script has, or one it has
\* waited for before.
Wait(r) ==
    /\ \/ /\ Calls(r, "wait")
          /\ \E h \in held[r] : /\ waiting' = [waiting EXCEPT ![r] = h]
                                /\ held' = [held EXCEPT ![r] = @ \ {h}]
       \/ Calls(r, "wait_again") /\ UNCHANGED <<waiting, held>>
    /\ pc' = [pc EXCEPT ![r] = "sync"]
    /\ UNCHANGED <<todo, basics, warn_timeline, handle_map, results, last_handle, queue, sources,
                   lib, entered>>
NothingToWait(r) ==
    /\ Calls(r, "wait")
    /\ held[r] = {}
    /\ Return(r)
    /\ UNCHANGED <<pc, basics, warn_timeline, ops, sources, lib, entered>>

poll(r, h) == results[r][h] # "pending"

\* The end of a wait: an unknown handle is an error, an operation that failed
\* raises before the handle is taken out of _handle_map.
\* A variant: the handle stays with the handle manager.
KeepHandle(res, h) == res
ReleaseHandle(res, h) == Without(res, h)
Synchronize(r) ==
    LET h == waiting[r]
        ok == h \in DOMAIN handle_map[r] /\ h \in DOMAIN results[r] /\ results[r][h] = "ok"
    IN /\ pc[r] = "sync"
       /\ h \in DOMAIN results[r] /\ h \in DOMAIN handle_map[r] => poll(r, h)
       /\ results' = [results EXCEPT ![r] =
            IF h \in DOMAIN handle_map[r] /\ h \in DOMAIN @ THEN ReleaseHandle(@, h) ELSE @]
       /\ handle_map' = [handle_map EXCEPT ![r] = IF ok THEN Without(@, h) ELSE @]
       /\ pc' = [pc EXCEPT ![r] = "run"]
       /\ Return(r)
       /\ UNCHANGED <<basics, warn_timeline, held, waiting, last_handle, queue, sources, lib, entered>>

\* barrier() without the negotiation: MPI_Barrier; its handle is released at once.
EnterBarrier(r) ==
    /\ Calls(r, "barrier")
    /\ lib[r].skip
    /\ last_handle' = [last_handle EXCEPT ![r] = @ + 1]
    /\ entered' = [entered EXCEPT ![r] = @ + 1]
    /\ pc' = [pc EXCEPT ![r] = "barrier"]
    /\ UNCHANGED <<todo, held, waiting, basics, warn_timeline, handle_map, results, queue, sources,
                   lib>>
LeaveBarrier(r) ==
    /\ pc[r] = "barrier"
    /\ \A s \in Rank : entered[s] >= entered[r]
    /\ pc' = [pc EXCEPT ![r] = "run"]
    /\ Return(r)
    /\ UNCHANGED <<basics, warn_timeline, ops, sources, lib, entered>>

-----------------------------------------------------------------------------
(* The library: an operation takes place *)

Mate(r) == {s \in Rank : Machine(s) = Machine(r)}
Spread(set, w) == [s \in Rank |-> IF s \in set THEN w ELSE 0]

\* The callback of neighbor_allreduce on what was received from srcs: with the
\* flag every part by its weight, 0 if it has none; otherwise the average of all.
Combined(r, a, srcs) ==
    IF srcs = {} THEN Spread({r}, Scale)
    ELSE [s \in Rank |->
            IF a.weighted_average_computation
            THEN CASE s = r -> a.self_weight
                   [] s \in srcs /\ s \in DOMAIN a.neighbor_weights -> a.neighbor_weights[s]
                   [] OTHER -> 0
            ELSE IF s \in {r} \cup srcs THEN Part(Cardinality(srcs) + 1) ELSE 0]
\* The hierarchical one combines the sums of machines, and divides by their size.
OverMachines(r, a) ==
    LET lead == Machine(r) * LocalSize
        f == Combined(lead, a, DOMAIN a.neighbor_weights)
    IN [s \in Rank |-> f[Machine(s) * LocalSize] \div LocalSize]

\* The result of each operation.
Allreduce(r, c) ==
    LET set == IF c.flag THEN Mate(r) ELSE Rank
    IN Spread(set, IF c.average THEN Part(Cardinality(set)) ELSE Scale)
Broadcast(c) == Spread({c.peer}, Scale)
Allgather == Spread(Rank, Scale)
NeighborAllgather(r) == Spread(sources[r], Scale)
NeighborAllreduce(r, e) ==
    Combined(r, e.args, IF Dynamic(e.call) THEN DOMAIN e.args.neighbor_weights ELSE sources[r])
PairGossip(r, e) ==
    IF e.args.weighted_average_computation THEN Spread({r, e.call.peer}, Part(2))
    ELSE [s \in Rank |-> CASE s = r -> e.args.self_weight
                           [] s = e.call.peer -> e.args.neighbor_weights[s]
                           [] OTHER -> 0]

Output(r, e) ==
    CASE e.call.op = "allreduce" -> Allreduce(r, e.call)
      [] e.call.op = "barrier" -> Spread(Rank, Part(World))
      [] e.call.op = "broadcast" -> Broadcast(e.call)
      [] e.call.op = "allgather" -> Allgather
      [] e.call.op = "neighbor_allgather" -> NeighborAllgather(r)
      [] e.call.op = "neighbor_allreduce" -> NeighborAllreduce(r, e)
      [] e.call.op = "hierarchical_neighbor_allreduce" -> OverMachines(r, e.args)
      [] e.call.op = "pair_gossip" -> PairGossip(r, e)

\* One operation e[r] of every rank. Lists that do not match are found by the
\* check, or leave the operation waiting.
Matching(e) ==
    LET who == {r \in Rank : e[r].call.op = "hierarchical_neighbor_allreduce" => r % LocalSize = 0}
    IN \A r, s \in who : s \in e[r].to <=> r \in DOMAIN e[s].args.neighbor_weights
Delivered(e, output) ==
    [call |-> e.call, args |-> e.args, to |-> e.to, place |-> e.place, output |-> output]
PerformOn(i) ==
    LET h == [r \in Rank |-> queue[r][i[r]].handle]
        e == [r \in Rank |-> handle_map[r][h[r]]]
        dynamic == \E r \in Rank : Dynamic(e[r].call)
        good == dynamic => Matching(e)
    IN /\ good \/ \A r \in Rank : e[r].call.check
       /\ queue' = [r \in Rank |-> RemoveAt(queue[r], i[r])]
       /\ results' = [r \in Rank |-> [results[r] EXCEPT ![h[r]] = IF good THEN "ok" ELSE "error"]]
       /\ handle_map' = [r \in Rank |-> IF good
                          THEN [handle_map[r] EXCEPT ![h[r]] = Delivered(e[r], Output(r, e[r]))]
                          ELSE handle_map[r]]
       /\ UNCHANGED <<todo, pc, held, waiting, basics, warn_timeline, last_handle, sources, lib,
                      entered>>
Perform ==
    /\ \A r \in Rank : queue[r] # <<>>
    /\ \/ /\ \E r \in Rank : lib[r].skip
          /\ PerformOn([r \in Rank |-> 1])
       \/ /\ \A r \in Rank : ~lib[r].skip
          /\ \E j \in DOMAIN queue[0] :
               LET Has(r, k) == queue[r][k].key = queue[0][j].key
               IN /\ \A r \in Rank : \E k \in DOMAIN queue[r] : Has(r, k)
                  /\ PerformOn([r \in Rank |-> CHOOSE k \in DOMAIN queue[r] : Has(r, k)])

-----------------------------------------------------------------------------
Process(r) ==
    \/ InitBluefog(r) \/ SetTopology(r) \/ SetMachineTopology(r) \/ SetFlag(r) \/ Timeline(r)
    \/ Shutdown(r) \/ Enqueue(r) \/ Wait(r) \/ NothingToWait(r) \/ Synchronize(r)
    \/ EnterBarrier(r) \/ LeaveBarrier(r)
Library == BuildGraph \/ SetSkip \/ Perform
Terminating == (\A r \in Rank : todo[r] = <<>>) /\ UNCHANGED vars
Next == (\E r \in Rank : Process(r)) \/ Library \/ Terminating

\* Python threads and the library's threads run on.
Spec == Init /\ [][Next]_vars /\ (\A r \in Rank : WF_vars(Process(r))) /\ WF_vars(Library)

-----------------------------------------------------------------------------
(* Properties *)

\* Handles are within those allocated, and what is in the queue is pending.
TypeOK ==
    \A r \in Rank :
        /\ pc[r] \in {"run", "sync", "topology", "barrier"}
        /\ pc[r] # "run" => todo[r] # <<>>
        /\ sources[r] \subseteq Rank \ {r}
        /\ DOMAIN handle_map[r] \cup DOMAIN results[r] \subseteq 1 .. last_handle[r]
        /\ \A i \in DOMAIN queue[r] : results[r][queue[r][i].handle] = "pending"

\* What Python believes and what the library does: outside of set_topology the
\* in-neighbors of the cached graph are those of the communicator, so that
\* default weights are for the tensors that arrive.
CacheMatchesCommunicator ==
    \A r \in Rank :
        topology[r] # NoTopology /\ pc[r] # "topology" => in_neighbor_ranks(r) = sources[r]

\* "the return tensor will return the weighted average defined by these weights
\* and the self_weight. If not, ... the weighted average defined by the topology
\* weights [if] provided or uniformly average" (neighbor_allreduce), where weighted
\* tells whether the topology is to give weights; for hierarchical_neighbor_allreduce
\* the weights are those of the machines.
Documented(r, e, weighted) ==
    CASE "self_weight" \in e.call.has /\ e.call.op # "hierarchical_neighbor_allreduce" ->
           [s \in Rank |-> CASE s = r -> e.call.self_weight
                             [] s \in DOMAIN e.call.neighbor_weights -> e.call.neighbor_weights[s]
                             [] OTHER -> 0]
      [] "self_weight" \in e.call.has /\ e.call.op = "hierarchical_neighbor_allreduce" ->
           [s \in Rank |->
              (CASE Machine(s) = Machine(r) -> e.call.self_weight
                 [] Machine(s) \in DOMAIN e.call.neighbor_weights ->
                      e.call.neighbor_weights[Machine(s)]
                 [] OTHER -> 0) \div LocalSize]
      [] "self_weight" \notin e.call.has /\ weighted ->
           [s \in Rank |-> asked[r].graph[s][r]]
      [] OTHER -> Spread({r} \cup Predecessors(asked[r].graph, r),
                         Part(Cardinality({r} \cup Predecessors(asked[r].graph, r))))
Averaging == {"allreduce", "neighbor_allreduce", "hierarchical_neighbor_allreduce", "pair_gossip"}
HasDocumentedWeights(e) == "self_weight" \in e.call.has \/ e.call.op = "neighbor_allreduce"

\* The operations a rank can look at the result of.
Results(r) == {handle_map[r][h] : h \in {g \in DOMAIN handle_map[r] \cap DOMAIN results[r] :
                                           results[r][g] = "ok"}}

\* A static call whose weights are the same for the rank and all neighbors it names,
\* but which does not name all in-neighbors: nothing tells the library the weights.
PartialAverage(r, e) ==
    /\ e.call.op = "neighbor_allreduce" /\ "self_weight" \in e.call.has /\ ~Dynamic(e.call)
    /\ ~e.args.weighted_average_computation
    /\ DOMAIN e.call.neighbor_weights # Predecessors(asked[r].graph, r) \ {r}

\* The topology gives the weights, and set_topology has been called again for the same
\* graph with another is_weighted.
Reweighted(r, e) == "self_weight" \notin e.call.has /\ asked[r].weighted # asked[r].built

\* The coefficients of every result are those its documentation promises, before and
\* after topology changes that succeed, are skipped or fail, except in two cases, where
\* they are others. "If neighbor_weights is presented, the return tensor will return the
\* weighted average defined by these weights" (mpi_ops.py:512): a PartialAverage is taken
\* over all in-neighbors instead (471-478 turns the weights off, mpi_ops.cc:510-527
\* divides by the size of the graph's neighborhood). "is_weighted: If set to true, ..."
\* (basics.py:302): what counts is the call for which the graph was built (324 returns
\* before the flag is looked at). An average without weights sums to one.
WeightsHonoured ==
    \A r \in Rank : \A e \in Results(r) :
        /\ HasDocumentedWeights(e) =>
             e.output =
               CASE PartialAverage(r, e) ->
                      Spread({r} \cup Predecessors(asked[r].graph, r),
                             Part(Cardinality({r} \cup Predecessors(asked[r].graph, r))))
                 [] Reweighted(r, e) -> Documented(r, e, asked[r].built)
                 [] OTHER -> Documented(r, e, asked[r].weighted)
        /\ e.call.op \in Averaging /\ e.call.average /\ "self_weight" \notin e.call.has
           => SumOver(e.output) = Scale

\* The two maps of handles fall apart only where an exception was raised: a
\* handle the script can still synchronize is known to the handle manager unless
\* its operation failed, and the manager has none that was not returned but
\* those of refused operations, which stay pending.
HandleMapsAgree ==
    \A r \in Rank :
        /\ \A h \in held[r] : h \in DOMAIN handle_map[r] \cap DOMAIN results[r]
        /\ \A h \in DOMAIN results[r] \ DOMAIN handle_map[r] : results[r][h] = "pending"
        /\ \A h \in DOMAIN handle_map[r] \ DOMAIN results[r] :
             handle_map[r][h].output = [s \in Rank |-> 0]

\* Python's _handle_map and the library's HandleManager are well formed and agree
\* (synchronize, mpi_ops.py:876, raises between the two updates).
HandlesConsistent == TypeOK /\ HandleMapsAgree

\* When the ranks run the same script, what is performed together is the same call on
\* every rank: always for operations without a name, which are numbered by the handles
\* that refused operations use up as well (mpi_ops.cc:54), although a name still in use
\* may be refused on one rank and accepted on another; and for operations with a name,
\* or with the negotiation skipped, as long as no rank has had an operation refused.
Gone(q, p) == {q[i].handle : i \in DOMAIN q} \ {p[i].handle : i \in DOMAIN p}
NothingRefused == \A r \in Rank : DOMAIN results[r] \subseteq DOMAIN handle_map[r]
Unnamed(c) == c.name = "" /\ c.op # "barrier"
CallsPairUp ==
    [][\A r, s \in Rank : lib'[r].shut_down = lib[r].shut_down =>
         \A h \in Gone(queue[r], queue'[r]) :
            (Unnamed(handle_map[r][h].call) /\ ~lib[r].skip) \/ NothingRefused =>
               \E g \in Gone(queue[s], queue'[s]) : handle_map[r][h].place = handle_map[s][g].place]_vars

\* Every script comes to its end: no call waits for ever.
ScriptsEnd == <>(\A r \in Rank : todo[r] = <<>>)
=============================================================================
