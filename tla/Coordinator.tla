----------------------------- MODULE Coordinator -----------------------------
(***************************************************************************)
(* NegotiateOfRequestOfMaster up to the broadcast of the response list: the *)
(* background thread of rank 0 counts the requests of all ranks, builds a   *)
(* response for every tensor all ranks asked for, fuses consecutive         *)
(* responses and tells every rank.  One step per request and per response.  *)
(* Source: bluefog/common/operations.cc.                                    *)
(***************************************************************************)
EXTENDS GlobalState

Workers == Rank \ {Master}

coordUnchanged == <<userVars, flagVars, topoFlags, queueVars, index, buffer,
                    entries, running, hist, win, sources, epoch>>

MasterGoto(pc) == bpc' = [bpc EXCEPT ![Master] = pc]

-----------------------------------------------------------------------------
(* Counting *)

\* variant: a request replaces the ones before it
OnlyLastRequest(t, req) == Put(t, req.key, <<req>>)

\* The requests received for a name, this one included.
WithRequest(t, req) ==
    Put(t, req.key, IF req.key \in DOMAIN t THEN Append(t[req.key], req) ELSE <<req>>)

\* variant: one request too few is enough
IsReadyEarly(reqs) == Len(reqs) + 1 >= Size

\* All ranks have sent a request for the name.
IsReady(reqs) == Len(reqs) = Size

\* IncrementTensorCount of the next request of the rank being counted.
CountRequest ==
    LET req == Head(inbox)
        t   == WithRequest(message_table, req)
    IN  /\ bpc[Master] = "count"
        /\ inbox # <<>>
        /\ inbox' = Tail(inbox)
        /\ message_table' = t
        /\ ready_to_reduce' = IF IsReady(t[req.key])
                                THEN Append(ready_to_reduce, req.key)
                                ELSE ready_to_reduce
        /\ UNCHANGED <<coordUnchanged, bpc, should_shut_down, should_change_topo,
                       kept, todo, from, fuseVars, gather, bcast>>

(***************************************************************************)
(* MPI_Gather(v) has the lists of all workers; the next one is parsed and   *)
(* its flags are taken over.                                                *)
(***************************************************************************)
NextList ==
    LET list == Head(gather[from + 1])
    IN  /\ bpc[Master] = "count"
        /\ inbox = <<>>
        /\ from + 1 \in Workers
        /\ \A s \in Workers : s > from => gather[s] # <<>>
        /\ inbox' = list.requests
        /\ from' = from + 1
        /\ gather' = [gather EXCEPT ![from + 1] = Tail(@)]
        /\ should_shut_down' = [should_shut_down EXCEPT ![Master] = @ \/ list.shutdown]
        /\ should_change_topo' =
              [should_change_topo EXCEPT ![Master] = @ \/ list.change_topo]
        /\ UNCHANGED <<coordUnchanged, bpc, kept, todo, message_table,
                       ready_to_reduce, fuseVars, bcast>>

CountDone ==
    /\ bpc[Master] = "count"
    /\ inbox = <<>>
    /\ from + 1 \notin Workers
    /\ MasterGoto("construct")
    /\ UNCHANGED <<coordUnchanged, should_shut_down, should_change_topo, kept, todo,
                   countVars, fuseVars, gather, bcast>>

-----------------------------------------------------------------------------
(* Responses *)

\* ConstructResponse asserts that the name is in the table, and erases it.  A
\* name is ready when its count reaches Size, so it is listed once.
ConstructNext ==
    LET k == Head(ready_to_reduce)
    IN  /\ bpc[Master] = "construct"
        /\ ready_to_reduce # <<>>
        /\ responses' = Append(responses, ConstructResponse(k, message_table[k]))
        /\ message_table' = Erase(message_table, k)
        /\ ready_to_reduce' = Tail(ready_to_reduce)
        /\ UNCHANGED <<coordUnchanged, bpc, should_shut_down, should_change_topo,
                       kept, todo, from, inbox, response_list, fused_size, gather,
                       bcast>>

ConstructDone ==
    /\ bpc[Master] = "construct"
    /\ ready_to_reduce = <<>>
    /\ MasterGoto("fuse")
    /\ UNCHANGED <<coordUnchanged, should_shut_down, should_change_topo, kept, todo,
                   countVars, fuseVars, gather, bcast>>

-----------------------------------------------------------------------------
(* Fusion: the last response of response_list is the one being extended. *)

Last == response_list[Len(response_list)]
MasterOp(k) == tensor_table[Master][k].op

\* The last response is of a type that may be fused.
Extending == response_list # <<>> /\ Last.type \in FusibleType
GroupOp   == MasterOp(Last.keys[1])

\* response.add_tensor_name
WithKey(response, k) ==
    [type |-> response.type, keys |-> Append(response.keys, k),
     devices |-> response.devices]

\* variant: the space of the neighbors is forgotten
AddedBytesSelfOnly(op, size) == size

\* Bytes a tensor adds to a fused response whose first tensor is op.
AddedBytes(op, size) == size * FusionSlots(op, Cardinality(sources[Master]))

(***************************************************************************)
(* GetTensorEntry throws when the name is not in the table; an entry        *)
(* without tensor is dereferenced when it follows a response that is being  *)
(* extended.                                                                *)
(***************************************************************************)
FusionFault(new) ==
    LET k == new.keys[1] IN
    \/ /\ Extending \/ new.type \in FusibleType
       /\ k \notin DOMAIN tensor_table[Master]
    \/ /\ Extending
       /\ k \in DOMAIN tensor_table[Master]
       /\ ~HasTensor(MasterOp(k))

Fuses(new) ==
    /\ Extending
    /\ LET op == MasterOp(new.keys[1])
       IN  CanFuse(Last, GroupOp, new, op,
                   fused_size + AddedBytes(GroupOp, op.size), Threshold)

FuseNext ==
    LET new == Head(responses)
        op  == MasterOp(new.keys[1])
    IN  /\ bpc[Master] = "fuse"
        /\ responses # <<>>
        /\ \/ /\ FusionFault(new)
              /\ MasterGoto("aborted")
              /\ UNCHANGED fuseVars
           \/ /\ ~FusionFault(new)
              /\ Fuses(new)
              /\ response_list' = [response_list EXCEPT
                    ![Len(response_list)] = WithKey(Last, new.keys[1])]
              /\ fused_size' = fused_size + AddedBytes(GroupOp, op.size)
              /\ responses' = Tail(responses)
              /\ UNCHANGED bpc
           \/ /\ ~FusionFault(new)
              /\ ~Fuses(new)
              /\ response_list' = Append(response_list, new)
              /\ fused_size' = IF new.type \in FusibleType
                                 THEN AddedBytes(op, op.size) ELSE 0
              /\ responses' = Tail(responses)
              /\ UNCHANGED bpc
        /\ UNCHANGED <<coordUnchanged, should_shut_down, should_change_topo, kept,
                       todo, countVars, gather, bcast>>

\* MPI_Bcast of the response list; the master goes on to execute it.
Broadcast ==
    LET list == [responses   |-> response_list,
                 shutdown    |-> should_shut_down[Master],
                 change_topo |-> should_change_topo[Master]]
    IN  /\ bpc[Master] = "fuse"
        /\ responses = <<>>
        /\ bcast' = [s \in Rank |-> IF s \in Workers THEN Append(bcast[s], list)
                                                     ELSE bcast[s]]
        /\ todo' = [todo EXCEPT ![Master] = response_list]
        /\ response_list' = <<>>
        /\ fused_size' = 0
        /\ MasterGoto("respond")
        /\ UNCHANGED <<coordUnchanged, should_shut_down, should_change_topo, kept,
                       countVars, responses, gather>>

-----------------------------------------------------------------------------
CoordinatorStep ==
    \/ CountRequest \/ NextList \/ CountDone
    \/ ConstructNext \/ ConstructDone \/ FuseNext \/ Broadcast
=============================================================================
