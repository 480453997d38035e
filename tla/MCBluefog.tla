------------------------------ MODULE MCBluefog ------------------------------
(* Small jobs of Bluefog for TLC. *)
EXTENDS Bluefog

Tensor(type, name) ==
    [type |-> type, name |-> name, dtype |-> "BLUEFOG_FLOAT32",
     device |-> CPU_DEVICE_ID, hier |-> FALSE, shape |-> <<2>>, size |-> 8,
     root |-> 0, dyn |-> FALSE, send |-> <<>>, recv |-> <<>>, check |-> FALSE]

Enqueue(op) == [call |-> "enqueue", op |-> op]
Do(type, name) == Enqueue(Tensor(type, name))
Wait == [call |-> "wait"]
Stop == [call |-> "shutdown"]
SetTopology(s) == [call |-> "set_topology", sources |-> s]
Skip(b) == [call |-> "skip", value |-> b]

Names == {"x", "y", "z"}
DTypes == {"BLUEFOG_UINT8", "BLUEFOG_FLOAT32"}

\* Everybody hears everybody else, and a ring.
Complete0 == [r \in Rank |-> Rank \ {r}]
Ring == [r \in Rank |-> {(r + 1) % Size}]

-----------------------------------------------------------------------------
\* Every rank runs the same program.
All(p) == [r \in Rank |-> p]
\* Rank 0 runs p, rank 1 runs q (and rank 2, if there is one, q as well).
Two(p, q) == [r \in Rank |-> IF r = 0 THEN p ELSE q]

X == Do("ALLREDUCE", "x")
Y == Do("ALLREDUCE", "y")
BigX == Enqueue([Tensor("ALLREDUCE", "x") EXCEPT !.shape = <<3>>, !.size = 12])

-----------------------------------------------------------------------------
\* core, first part: two tensors in either order; x of another shape or type on one rank;
\* a rank that never sends x and shuts the job down while it is outstanding.
OrderPrograms ==
    {Two(<<X, Y, Wait, Stop>>, q) :
        q \in {<<X, Y, Wait, Stop>>, <<Y, X, Wait, Stop>>, <<Y, Wait, Stop>>,
               <<Y, BigX, Wait, Stop>>, <<Y, Do("ALLGATHER", "x"), Wait, Stop>>}}
    \cup {Two(<<X, Stop>>, <<x, Stop>>) : x \in {X, BigX}}

\* core, second part: one tensor, with all that can differ between two ranks; of two
\* different types, one variant each.
Variants(type) ==
    {[Tensor(type, "x") EXCEPT !.shape = s] :
        s \in {<<>>, <<2>>, <<2, 1>>, <<1, 1>>, <<1, 2>>}}
ReduceVariants ==
    {Tensor("ALLREDUCE", "x"),
     [Tensor("ALLREDUCE", "x") EXCEPT !.dtype = "BLUEFOG_UINT8"],
     [Tensor("ALLREDUCE", "x") EXCEPT !.hier = TRUE],
     [Tensor("ALLREDUCE", "x") EXCEPT !.device = 0]}
CheckedPairs ==
    UNION {v \X v : v \in {Variants("ALLGATHER"), Variants("BROADCAST"), ReduceVariants}}
    \cup LET types == {Tensor(t, "x") : t \in {"ALLGATHER", "BROADCAST", "ALLREDUCE"}}
         IN types \X types
CheckPrograms ==
    {Two(<<Enqueue(p[1]), Wait>>, <<Enqueue(p[2]), Wait>>) : p \in CheckedPairs}

\* calls, first part: a tensor late on one rank, and one it never submits.
LivePrograms ==
    {Two(<<X, Wait, Y, Wait, Stop>>, <<Y, X, Wait, Stop>>),
     Two(<<X, Y, Wait, Stop>>, <<Y, Wait, Stop>>)}

\* calls, second part: the graph is replaced between two neighbor operations; it is not
\* replaced while a window exists; one rank asks for a pause later than others.
NX == Do("NEIGHBOR_ALLREDUCE", "x")
NY == Do("NEIGHBOR_ALLGATHER", "y")
TopologyPrograms ==
    {All(<<NX, Wait, SetTopology({}), NY, Wait, Stop>>),
     Two(<<SetTopology({}), SetTopology({1}), NX, Wait, Stop>>,
         <<SetTopology({0}), SetTopology({}), NX, Wait, Stop>>),
     All(<<Do("WIN_CREATE", "x"), Wait, SetTopology({}), Do("WIN_FREE", AllWindows),
           Wait, SetTopology({}), Stop>>)}

\* calls, third part: creation, one-sided operations, an error and the two ways to free.
WindowPrograms ==
    {Two(<<Do("WIN_CREATE", "x"), Wait, Do("WIN_PUT", "x"), Do("WIN_GET", "x"), Wait,
           Do("WIN_FREE", "x"), Wait, Stop>>,
         <<Do("WIN_CREATE", "x"), Wait, Do("WIN_ACCUMULATE", "x"), Wait,
           Do("WIN_FREE", "x"), Wait, Stop>>),
     All(<<Do("WIN_FREE", "x"), Do("WIN_CREATE", "x"), Wait, Do("WIN_CREATE", "x"),
           Wait, Do("WIN_FREE", AllWindows), Wait, Do("WIN_FREE", AllWindows), Wait, Stop>>),
     Two(<<X, X, [call |-> "suspend"], Y, [call |-> "resume"], Y, Wait, Stop>>,
         <<Y, Wait, X, Wait, Stop>>)}

\* calls, fourth part: the negotiation is turned off and on again between operations.
SkipPrograms ==
    {All(<<Skip(TRUE), X, Y, Wait, Skip(FALSE), X, Wait, Stop>>),
     All(<<X, Wait, Skip(TRUE), Skip(TRUE), Do("BROADCAST", "x"), Wait, Stop>>)}
CallPrograms ==
    LivePrograms \cup TopologyPrograms \cup WindowPrograms \cup SkipPrograms

-----------------------------------------------------------------------------
\* core, third part: three tensors of which two fit into the buffer, submitted in
\* different orders; static and dynamic neighbors, the same number on both ranks, one
\* more on rank 0, or one more on rank 1; lists that change on rank 1 only and do not
\* pair up, so that the check finds it when y is not fused with x.
Neighbor(name) == Do("NEIGHBOR_ALLREDUCE", name)
Dynamic(name, to, by, check) ==
    Enqueue([Tensor("NEIGHBOR_ALLREDUCE", name) EXCEPT
               !.dyn = TRUE, !.send = to, !.recv = by, !.check = check])
FusionPrograms ==
    {Two(<<NX, Neighbor("y"), Neighbor("z"), Wait, Stop>>,
         <<Neighbor("z"), NX, Neighbor("y"), Wait, Stop>>),
     Two(<<X, Y, Neighbor("z"), Wait, Stop>>, <<Y, X, Neighbor("z"), Wait, Stop>>),
     Two(<<Dynamic("x", <<1>>, <<1>>, FALSE), Dynamic("y", <<1>>, <<1>>, FALSE),
           Neighbor("z"), Wait, Stop>>,
         <<Neighbor("z"), Dynamic("x", <<0>>, <<0>>, FALSE),
           Dynamic("y", <<0>>, <<0>>, FALSE), Wait, Stop>>),
     Two(<<SetTopology({1}), NX, Neighbor("y"), Neighbor("z"), Wait, Stop>>,
         <<SetTopology({}), Neighbor("y"), NX, Neighbor("z"), Wait, Stop>>),
     Two(<<SetTopology({}), NX, Neighbor("y"), Neighbor("z"), Wait, Stop>>,
         <<SetTopology({0}), NX, Neighbor("y"), Neighbor("z"), Wait, Stop>>),
     Two(<<Dynamic("x", <<1>>, <<1>>, TRUE), Dynamic("y", <<1>>, <<1>>, TRUE), Wait, Stop>>,
         <<Dynamic("x", <<0>>, <<0>>, TRUE), Dynamic("y", <<0>>, <<>>, TRUE), Wait, Stop>>)}

CorePrograms == OrderPrograms \cup CheckPrograms \cup FusionPrograms

\* three: three ranks, of which one lags; a dynamic operation in which rank 0 waits
\* for a rank that does not send to it, found by the check.
ThreePrograms ==
    {[r \in Rank |-> CASE r = 0 -> <<Dynamic("x", <<1>>, <<2>>, TRUE), Wait, Stop>>
                       [] r = 1 -> <<Dynamic("x", <<2>>, l[2], TRUE), Wait, Stop>>
                       [] r = 2 -> <<Dynamic("x", l[1], <<1>>, TRUE), Wait, Stop>>]
       : l \in {<<<<0>>, <<0>>>>, <<<<1>>, <<0, 2>>>>}}
    \cup {[r \in Rank |-> CASE r = 0 -> <<X, Stop>> [] r = 1 -> <<X>> [] r = 2 -> <<x>>]
            : x \in {X, BigX}}

-----------------------------------------------------------------------------
(* Jobs in which the code does not do what it says. *)

\* Two win_put on one window, the second before the first is done.
DuplicatePrograms ==
    {All(<<Do("WIN_CREATE", "x"), Wait, Do("WIN_PUT", "x"), Do("WIN_PUT", "x"), Wait,
           Stop>>)}

\* set_topology, or turning the negotiation off, with an operation outstanding.
UnfinishedPrograms == {All(<<X, SetTopology({}), Wait, Stop>>)}
PendingSkipPrograms == {All(<<X, Skip(TRUE), Wait, Stop>>)}

\* A rank sets its topology when another one has shut the job down.
AfterShutdownPrograms == {Two(<<Stop>>, <<SetTopology({}), Stop>>)}

\* Shutdown while two tensors that will be fused are outstanding.
\* The buffer is asked for after the check of the lists.
FusedShutdownPrograms ==
    {All(<<X, Y, Stop>>),
     Two(<<Dynamic("x", <<1>>, <<1>>, TRUE), Dynamic("y", <<1>>, <<1>>, TRUE), Stop>>,
         <<Dynamic("x", <<0>>, <<0>>, TRUE), Dynamic("y", <<0>>, <<0>>, TRUE), Stop>>)}

\* win_free next to an allreduce.
FreeNextToAllreducePrograms ==
    {All(<<Do("WIN_CREATE", "x"), Wait, Y, Do("WIN_FREE", "x"), Wait, Stop>>)}

\* All the jobs above that two ranks run, and more that end in an exception or
\* a failed assertion: two win_create at once, win_put without a window.
FaultyPrograms ==
    UnfinishedPrograms \cup PendingSkipPrograms \cup DuplicatePrograms
    \cup FreeNextToAllreducePrograms \cup FusedShutdownPrograms \cup AfterShutdownPrograms
    \cup {All(<<Do("WIN_CREATE", "x"), Do("WIN_CREATE", "x"), Stop>>),
          Two(<<Do("WIN_PUT", "x"), X, Stop>>, <<X, Stop>>)}
=============================================================================
