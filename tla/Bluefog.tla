------------------------------- MODULE Bluefog -------------------------------
(***************************************************************************)
(* A bluefog job: the user thread and the background thread of every rank,  *)
(* the coordinator on rank 0 and the MPI calls between them.                *)
(***************************************************************************)
EXTENDS UserThread, BackgroundThread, Coordinator

Init ==
    /\ program \in Programs
    /\ mpc = [r \in Rank |-> "run"]
    /\ status = [r \in Rank |-> <<>>]
    /\ issued = [r \in Rank |-> <<>>]
    /\ shut_down = [r \in Rank |-> FALSE]
    /\ suspended = [r \in Rank |-> FALSE]
    /\ skip = [r \in Rank |-> FALSE]
    /\ setting_topology = [r \in Rank |-> FALSE]
    /\ setting_topology_done = [r \in Rank |-> FALSE]
    /\ ready_to_setting_topology = [r \in Rank |-> FALSE]
    /\ tensor_table = [r \in Rank |-> <<>>]
    /\ message_queue = [r \in Rank |-> <<>>]
    /\ bpc = [r \in Rank |-> "top"]
    /\ should_shut_down = [r \in Rank |-> FALSE]
    /\ should_change_topo = [r \in Rank |-> FALSE]
    /\ index = [r \in Rank |-> 1]
    /\ buffer = [r \in Rank |-> <<>>]
    /\ kept = [r \in Rank |-> <<>>]
    /\ entries = [r \in Rank |-> <<>>]
    /\ running = [r \in Rank |-> <<>>]
    /\ todo = [r \in Rank |-> <<>>]
    /\ message_table = <<>>
    /\ from = Master
    /\ inbox = <<>>
    /\ ready_to_reduce = <<>>
    /\ responses = <<>>
    /\ response_list = <<>>
    /\ fused_size = 0
    /\ gather = [r \in Rank |-> <<>>]
    /\ bcast = [r \in Rank |-> <<>>]
    /\ hist = [r \in Rank |-> <<>>]
    /\ win = [r \in Rank |-> {}]
    /\ sources = Sources0
    /\ epoch = [r \in Rank |-> 0]

\* Every program has ended and every background thread has left its loop.
Terminating ==
    /\ \A r \in Rank : program[r] = <<>> /\ bpc[r] = "down"
    /\ UNCHANGED vars

Next ==
    \/ \E r \in Rank : UserStep(r) \/ BackgroundStep(r)
    \/ CoordinatorStep
    \/ Terminating

(***************************************************************************)
(* The threads are kernel threads and MPI progresses: a thread that can     *)
(* take a step takes one.                                                   *)
(***************************************************************************)
Fairness ==
    /\ \A r \in Rank : WF_vars(UserStep(r)) /\ WF_vars(BackgroundStep(r))
    /\ WF_vars(CoordinatorStep)

Spec == Init /\ [][Next]_vars
FairSpec == Spec /\ Fairness

-----------------------------------------------------------------------------
(* Safety *)

\* The same operation as far as MPI can tell: type, tensor, data type, shape,
\* kind of device and communicator.  A gather may differ in the first dimension.
SameOp(a, b) ==
    /\ a.type = b.type
    /\ a.name = b.name
    /\ a.type # "WIN_FREE" => a.dtype = b.dtype
    /\ (a.device = CPU_DEVICE_ID) = (b.device = CPU_DEVICE_ID)
    /\ a.type \in FusibleType => a.hier = b.hier
    /\ a.type \in FusibleType \cup {"BROADCAST", "WIN_CREATE"} => a.shape = b.shape
    /\ a.type \in {"ALLGATHER", "NEIGHBOR_ALLGATHER"} =>
          a.shape # <<>> /\ b.shape # <<>> /\ Tail(a.shape) = Tail(b.shape)

\* The k-th collective call of every rank is the same fused operation, on the
\* same tensors, under the same topology: what the negotiation is for.
CollectivesMatch ==
    \A r, s \in Rank : \A k \in DOMAIN hist[r] \cap DOMAIN hist[s] :
        LET c == hist[r][k]
            d == hist[s][k]
        IN  /\ c.epoch = d.epoch
            /\ Len(c.ops) = Len(d.ops)
            /\ \A i \in DOMAIN c.ops : SameOp(c.ops[i], d.ops[i])

\* The requests of rank r for message name k that are on their way to the
\* coordinator or wait in its table ...
RequestsFor(r, k) ==
    LET of(s) == Cardinality({i \in DOMAIN s : s[i].rank = r /\ s[i].key = k})
    IN  of(message_queue[r]) + of(buffer[r]) + of(kept[r]) + of(inbox)
        + (IF gather[r] = <<>> THEN 0 ELSE of(Head(gather[r]).requests))
        + (IF k \in DOMAIN message_table THEN of(message_table[k]) ELSE 0)

\* ... and the responses for k that rank r has not executed yet.
ResponsesFor(r, k) ==
    LET of(s) == Cardinality({i \in DOMAIN s :
                                \E j \in DOMAIN s[i].keys : s[i].keys[j] = k})
    IN  of(responses) + of(response_list) + of(todo[r])
        + (IF bcast[r] = <<>> THEN 0 ELSE of(Head(bcast[r]).responses))

\* Every entry of a negotiated operation in the tensor table has exactly one
\* request or response travelling for it, and nothing travels for an entry
\* that is gone: no operation is executed twice, answered twice or forgotten.
RequestAccounting ==
    \A r \in Rank : bpc[r] # "down" =>
        \A k \in (KeySet \ (OneSidedType \X AnyName)) :
            RequestsFor(r, k) + ResponsesFor(r, k) =
                (IF k \in DOMAIN tensor_table[r] THEN 1 ELSE 0)

\* A handle is pending as long as exactly one of the enqueue call, the table,
\* the direct entries and the operation under way holds its callback, and done
\* once nothing holds it.
HandleAccounting ==
    \A r \in Rank : \A h \in DOMAIN status[r] :
        LET of(s) == Cardinality({i \in DOMAIN s : s[i].handle = h})
        IN  of(tensor_table[r]) + of(entries[r]) + of(running[r])
              + (IF mpc[r] = "add" /\ h = Len(status[r]) THEN 1 ELSE 0)
            = (IF status[r][h] = "pending" THEN 1 ELSE 0)

\* ConstructResponse asserts that the name it is called with is in the message
\* table, and erases it: every name that is ready to reduce is listed once and
\* its requests, at least one per rank, are there.
ReadyInTable ==
    /\ \A i \in DOMAIN ready_to_reduce :
          /\ ready_to_reduce[i] \in DOMAIN message_table
          /\ Len(message_table[ready_to_reduce[i]]) >= Size
    /\ \A i, j \in DOMAIN ready_to_reduce :
          i # j => ready_to_reduce[i] # ready_to_reduce[j]

\* The background thread meets neither a failed assertion nor an exception.
NoAbort == \A r \in Rank : bpc[r] # "aborted"

\* Which use of its message name a handle is.
Occurrence(r, h) ==
    Cardinality({g \in 1 .. h : /\ Key(issued[r][g]) = Key(issued[r][h])
                               /\ status[r][g] # "rejected"})

\* Handle h of rank r and handle g of rank s stand for one negotiated operation.
Partners(r, h, s, g) ==
    /\ Key(issued[r][h]) = Key(issued[s][g])
    /\ issued[r][h].type \notin OneSidedType
    /\ "rejected" \notin {status[r][h], status[s][g]}
    /\ Occurrence(r, h) = Occurrence(s, g)

\* All ranks see the same outcome of a negotiated operation: no rank is told
\* that it succeeded when another is told of an error or of the shutdown.
OutcomesAgree ==
    \A r, s \in Rank : \A h \in DOMAIN status[r], g \in DOMAIN status[s] :
        /\ Partners(r, h, s, g)
        /\ "pending" \notin {status[r][h], status[s][g]}
        => status[r][h] = status[s][g]

\* The send list of one rank and the receive list of another name each other, or
\* neither does.
ListsPair(p, a, q, b) == (q \in Elements(a.send)) = (p \in Elements(b.recv))

\* The checks of the coordinator, and the check of the neighbor lists, refuse
\* nothing that is right: an operation on tensors fails only if two ranks really
\* asked for different things, or for lists that do not pair up.
ErrorsJustified ==
    \A r \in Rank : \A h \in DOMAIN status[r] :
        status[r][h] = "error" /\ issued[r][h].type \notin WindowType =>
            \E p, q \in Rank : \E g \in DOMAIN status[p], j \in DOMAIN status[q] :
                /\ Partners(r, h, p, g) /\ Partners(r, h, q, j)
                /\ \/ ~SameOp(issued[p][g], issued[q][j])
                   \/ ~ListsPair(p, issued[p][g], q, issued[q][j])

\* A dynamic neighbor_allreduce succeeds only on a rank to which all the ranks
\* in its receive list have sent (the lists of a hierarchical one name machines).
ReceivesServed ==
    \A r \in Rank : \A h \in DOMAIN status[r] :
        LET op == issued[r][h] IN
        status[r][h] = "ok" /\ op.type = "NEIGHBOR_ALLREDUCE" /\ op.dyn /\ ~op.hier =>
            \A i \in DOMAIN op.recv :
                \E g \in DOMAIN status[op.recv[i]] :
                    /\ Partners(r, h, op.recv[i], g)
                    /\ \E j \in DOMAIN issued[op.recv[i]][g].send :
                          issued[op.recv[i]][g].send[j] = r

\* The ranks leave the loop in the same cycle: when one has left it, every
\* other rank has the shutdown in hand and nobody waits for a rank that left.
Left(r) == bpc[r] \in {"exit", "finalize", "down"}
ShutdownTogether ==
    (\E r \in Rank : Left(r)) =>
        \A s \in Rank : \/ should_shut_down[s]
                        \/ bpc[s] = "recv" /\ bcast[s] # <<>> /\ Head(bcast[s]).shutdown

\* What an operation that starts with op occupies per byte of its tensors.
Slots(r, op) == FusionSlots(op, Cardinality(sources[r]))

\* What the fused operation of rank r stores in the rank's fusion buffer fits:
\* its tensors and, for neighbor_allreduce, one copy per in-neighbor.
Fits(r) ==
    LET bytes[i \in 0 .. Len(running[r])] ==
            IF i = 0 THEN 0 ELSE bytes[i - 1] + running[r][i].op.size
    IN  bytes[Len(running[r])] * Slots(r, running[r][1].op) <= Threshold

SameNeighbors(a, b) == a.dyn = b.dyn /\ a.send = b.send /\ a.recv = b.recv

\* What rank 0 asked for under the name of handle h of rank r.
Rank0Op(r, h) ==
    issued[Master][CHOOSE g \in DOMAIN issued[Master] : Partners(Master, g, r, h)]

\* The fusion loop of NegotiateOfRequestOfMaster decides for all ranks and looks
\* at the entries and the neighbors of rank 0 only.  The tensors it fuses are of
\* one type, data type and hierarchy on every rank.  On rank 0 they fit the buffer
\* and are for the same neighbors.  On another rank they exceed the buffer only if
\* the rank has more in-neighbors than rank 0, and are for different neighbors, of
\* which those of the first tensor are used, only if its lists change between two
\* tensors for which those of rank 0 are equal.  The code does not exclude these
\* two cases, and both are in the run.
FusionSound ==
    \A r \in Rank : Len(running[r]) > 1 =>
        LET here(i)  == running[r][i].op
            there(i) == Rank0Op(r, running[r][i].handle)
        IN  /\ \A i \in DOMAIN running[r] :
                  /\ here(1).type = here(i).type
                  /\ here(1).dtype = here(i).dtype
                  /\ here(1).hier = here(i).hier
            /\ Fits(r) \/ Slots(r, here(1)) > Slots(Master, there(1))
            /\ \A i \in DOMAIN running[r] :
                  \/ SameNeighbors(here(1), here(i))
                  \/ r # Master /\ SameNeighbors(there(1), there(i))

-----------------------------------------------------------------------------
(* The pause *)

\* The protocol of the three flags: the background thread is ready exactly
\* while it is parked, the user thread is done exactly while it closes the
\* pause, and it works on the shared state only when the other is parked.
Handshake ==
    \A r \in Rank :
        /\ ready_to_setting_topology[r] <=> bpc[r] = "park"
        /\ setting_topology_done[r] <=> mpc[r] = "close"
        /\ mpc[r] = "building" => bpc[r] = "park"

\* The graph communicator and the neighbor lists of a rank change, and the
\* negotiation is turned off, only while its background thread is parked.
ChangeOnlyWhenParked ==
    [][\A r \in Rank :
          (\/ epoch'[r] # epoch[r] \/ sources'[r] # sources[r]
           \/ ~skip[r] /\ skip'[r])
          => bpc[r] = "park"]_vars

-----------------------------------------------------------------------------
(* Liveness *)

\* Every call of every user thread returns; shutdown() does so when the
\* request has gone through rank 0 and the background thread has ended (join).
CallsReturn == <>(\A r \in Rank : program[r] = <<>>)

\* Every queued operation is eventually called back.
HandlesComplete ==
    \A r \in Rank : (\E h \in DOMAIN status[r] : status[r][h] = "pending")
        ~> (\A h \in DOMAIN status[r] : status[r][h] # "pending")
=============================================================================
