------------------------------ MODULE MCWindow -------------------------------
(* Scripts for TLC: three ranks. *)
EXTENDS Window

MCScale == 8
MCRank == 0 .. 2
MCName == {"x", "y"}
\* One buffer, or two of the same owner or the same writer.
MCSlotLists == {<<>>} \cup {<<<<"x", i, j>>>> : i, j \in MCRank} \cup
    UNION {{<<<<"x", i, j>>, <<"x", i, k>>>>, <<<<"x", j, i>>, <<"x", k, i>>>>} :
             i, j, k \in MCRank}
MCTopo == FullyConnectedGraph(3)

Blank == [op |-> "wait", name |-> "", has |-> {}, value |-> 0, shape |-> 0, flag |-> FALSE,
          mutex |-> TRUE, blocking |-> TRUE, clone |-> FALSE, self_weight |-> 0, weights |-> <<>>, ranks |-> <<>>]
Do(o) == [Blank EXCEPT !.op = o]
On(o, n) == [Do(o) EXCEPT !.name = n, !.has = {"name"}]
Create(n, v, zero) == [On("create", n) EXCEPT !.value = v, !.flag = zero]
Weighted(c, self, w) == [c EXCEPT !.self_weight = self, !.weights = w,
                                  !.has = @ \cup {"self_weight", "weights"}]
To(s, w) == [q \in {s} |-> w]
Half(o, s) == Weighted(On(o, "x"), 4, To(s, 4))
WithP == [Do("associated_p") EXCEPT !.flag = TRUE]

Plain(c) == [c EXCEPT !.mutex = FALSE]
Async(c) == [c EXCEPT !.blocking = FALSE]
Enter(own) == [On("enter", "x") EXCEPT !.flag = own]
Exit(own) == [On("exit", "x") EXCEPT !.flag = own]

\* Ranks send halves and collect what they were sent, in any interleaving.
PushSum == [r \in Rank |->
    <<WithP, Create("x", 8, TRUE)>> \o
    (CASE r = 0 -> <<Half("accumulate", 1), On("collect", "x")>>
       [] r = 1 -> <<On("collect", "x"), Half("accumulate", 0), On("collect", "x")>>
       [] OTHER -> <<Weighted(On("accumulate", "x"), 4, [s \in {0, 1} |-> 2])>>)]

\* Puts with p, and averages: an average may read the buffer before or after.
PutAndAverage == [r \in Rank |->
    <<WithP, Create("x", 8, TRUE)>> \o
    (CASE r = 0 -> <<Half("put", 1), On("collect", "x")>>
       [] r = 1 -> <<On("collect", "x"), Half("put", 0), On("collect", "x")>>
       [] OTHER -> <<Half("put", 0)>>)]

\* Versions: puts, gets and updates of a window which starts with the tensors.
Versions == [r \in Rank |->
    <<Create("x", 6 * (r + 1), FALSE)>> \o
    (CASE r = 0 -> <<Weighted(On("put", "x"), 8, To(1, 8)), On("update", "x")>>
       [] r = 1 -> <<[On("update", "x") EXCEPT !.flag = TRUE],
                     Weighted(On("get", "x"), 0, To(0, 4))>>
       [] OTHER -> <<Weighted(On("get", "x"), 0, To(1, 8)), On("update", "x")>>)]

\* Blocks under the mutex against updates: the lists of mutexes are ascending.
Blocks == [r \in Rank |->
    <<Create("x", 6, FALSE)>> \o
    (CASE r = 0 -> <<Enter(FALSE), Plain(On("put", "x")), Exit(FALSE)>>
       [] r = 1 -> <<Enter(TRUE), Plain(On("update", "x")), Exit(TRUE)>>
       [] OTHER -> <<Enter(FALSE), Exit(FALSE), On("update", "x")>>)]

\* Arguments that are refused, names that are not there, and no mutex at all.
Refusals == [r \in Rank |->
    IF r # 0 THEN <<Create("x", 8, FALSE), On("free", "x"), Create("y", 8, TRUE), Do("free"),
                    Create("y", 8, TRUE)>>
    ELSE <<On("free", "y"), On("update", "x"), Enter(FALSE), On("update", "x"), Exit(FALSE),
           On("get", "y"), Do("wait"), Create("x", 8, FALSE), Create("x", 8, FALSE),
           Weighted(On("put", "x"), 8, To(0, 8)), Weighted(On("update", "x"), 4, To(0, 4)),
           [On("update", "x") EXCEPT !.has = {"name", "self_weight"}],
           Plain([Weighted(On("update", "x"), 4, To(1, 4)) EXCEPT !.clone = TRUE]),
           Async(Plain(On("put", "x"))), Async(Plain(On("get", "x"))), Do("wait"), Do("wait"),
           Plain(On("update", "x")), On("free", "x"),
           Create("y", 8, TRUE), Do("free"), Enter(FALSE), Exit(FALSE), Create("y", 8, TRUE)>>]

\* A window that the library does not know, and one that is freed under a get.
Crashes == [r \in Rank |->
    <<Create("x", 8, TRUE)>> \o
    (CASE r = 0 -> <<On("put", "y")>>
       [] r = 1 -> <<Async(Plain(On("get", "x"))), On("free", "x")>>
       [] OTHER -> <<Do("wait")>>)]

\* A tensor of another shape, and suspended ranks: what fails is left in some registries,
\* until all windows are freed.
Failures == [r \in Rank |->
    <<[Create("y", 8, TRUE) EXCEPT !.shape = IF r = 2 THEN 1 ELSE 0], Create("y", 8, TRUE),
      Create("x", 8, FALSE), Do("suspend"), On("free", "x")>> \o
    (IF r = 0 THEN <<On("put", "x"), Do("resume"), Enter(FALSE), Do("suspend"), Exit(FALSE)>>
     ELSE <<>>) \o
    <<Do("resume"), Create("x", 8, TRUE), On("update", "x"), Do("suspend"), Do("free"),
      Create("y", 8, TRUE), Do("resume"), Do("free"), Create("x", 8, TRUE), Create("y", 8, TRUE)>>]

\* A suspended rank updates with no mutex, and raises or ends when it looks at p.
Suspended == [r \in Rank |->
    <<[WithP EXCEPT !.flag = r = 0], Create("x", 6, FALSE)>> \o
    (CASE r = 0 -> <<Async(Half("put", 1)), Do("suspend"), On("update", "x")>>
       [] r = 1 -> <<Do("suspend"), On("update", "x"), Enter(TRUE), Exit(TRUE), Do("resume"),
                     On("update", "x")>>
       [] OTHER -> <<Half("put", 1)>>)]

MCJobs == {PushSum, PutAndAverage, Versions, Blocks, Refusals, Crashes, Failures, Suspended}

\* The example of win_mutex (mpi_ops.py:1347-1351), on every rank.
MCExample == {[r \in Rank |-> <<Create("x", 8, TRUE), Enter(FALSE), On("collect", "x"),
                                Exit(FALSE), Plain(On("put", "x"))>>]}
=============================================================================
