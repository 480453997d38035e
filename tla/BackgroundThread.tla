-------------------------- MODULE BackgroundThread --------------------------
(***************************************************************************)
(* BackgroundThreadLoop: RunLoopOnce until the shutdown, then               *)
(* FinalizeTensorQueue.  A cycle pops the requests, executes the one-sided  *)
(* ones (all of them when the negotiation is skipped), negotiates the       *)
(* others, executes the responses and pauses when a topology is being set.  *)
(* Source: bluefog/common/operations.cc, tensor_queue.cc; the effect of an  *)
(* operation is that of mpi_controller.cc, and MPI itself is external.      *)
(***************************************************************************)
EXTENDS GlobalState

masterVars == <<countVars, fuseVars>>

BGoto(r, pc) == bpc' = [bpc EXCEPT ![r] = pc]

-----------------------------------------------------------------------------
(* The top of the cycle *)

ReadFlags(r) ==
    /\ bpc[r] = "top"
    /\ should_shut_down' = [should_shut_down EXCEPT ![r] = shut_down[r]]
    /\ should_change_topo' = [should_change_topo EXCEPT ![r] = setting_topology[r]]
    /\ BGoto(r, "pop")
    /\ UNCHANGED <<userVars, flagVars, topoFlags, queueVars, index, buffer, kept,
                   execVars, masterVars, mpiVars>>

PopMessagesFromQueue(r) ==
    /\ bpc[r] = "pop"
    /\ buffer' = [buffer EXCEPT ![r] = message_queue[r]]
    /\ message_queue' = [message_queue EXCEPT ![r] = <<>>]
    /\ index' = [index EXCEPT ![r] = 1]
    /\ BGoto(r, "convert")
    /\ UNCHANGED <<userVars, flagVars, topoFlags, tensor_table, should_shut_down,
                   should_change_topo, kept, execVars, masterVars, mpiVars>>

\* IsRequestConvertToEntryDirectly; the flag is read again for every request.
Direct(r, req) == skip[r] \/ req.type \notin NegotiatedType

(***************************************************************************)
(* The first loop over the buffer: GetTensorEntriesFromRequestDirectly      *)
(* asserts that the entry of a direct request is in the table.              *)
(***************************************************************************)
ConvertNext(r) ==
    LET req == buffer[r][index[r]]
    IN  /\ bpc[r] = "convert"
        /\ index[r] <= Len(buffer[r])
        /\ IF Direct(r, req) /\ req.key \notin DOMAIN tensor_table[r]
             THEN BGoto(r, "aborted") /\ UNCHANGED <<entries, tensor_table, index>>
             ELSE /\ index' = [index EXCEPT ![r] = @ + 1]
                  /\ UNCHANGED bpc
                  /\ IF Direct(r, req)
                       THEN /\ entries' = [entries EXCEPT
                                  ![r] = Append(@, tensor_table[r][req.key])]
                            /\ tensor_table' = [tensor_table EXCEPT
                                  ![r] = Erase(@, req.key)]
                       ELSE UNCHANGED <<entries, tensor_table>>
        /\ UNCHANGED <<userVars, flagVars, topoFlags, message_queue,
                       should_shut_down, should_change_topo, buffer, kept,
                       running, todo, masterVars, mpiVars>>

ConvertDone(r) ==
    /\ bpc[r] = "convert"
    /\ index[r] > Len(buffer[r])
    /\ BGoto(r, "remove")
    /\ UNCHANGED <<userVars, flagVars, topoFlags, queueVars, localVars, execVars,
                   masterVars, mpiVars>>

\* The second loop: remove_if, with the same predicate.
RemoveNext(r) ==
    /\ bpc[r] = "remove"
    /\ buffer[r] # <<>>
    /\ buffer' = [buffer EXCEPT ![r] = Tail(@)]
    /\ kept' = [kept EXCEPT ![r] = IF Direct(r, Head(buffer[r])) THEN @
                                   ELSE Append(@, Head(buffer[r]))]
    /\ UNCHANGED <<userVars, flagVars, topoFlags, queueVars, bpc, should_shut_down,
                   should_change_topo, index, execVars, masterVars, mpiVars>>

RemoveDone(r) ==
    /\ bpc[r] = "remove"
    /\ buffer[r] = <<>>
    /\ BGoto(r, "direct")
    /\ UNCHANGED <<userVars, flagVars, topoFlags, queueVars, localVars, execVars,
                   masterVars, mpiVars>>

-----------------------------------------------------------------------------
(* Executing operations *)

Machine(r) == {s \in Rank : s \div LocalSize = r \div LocalSize}

\* local_rank_ = 0 of the machine.
Leader(r) == r - (r % LocalSize)

Elements(s) == {s[i] : i \in DOMAIN s}

(***************************************************************************)
(* The ranks whose data an operation needs before MPI lets rank r leave it. *)
(* A dynamic neighbor_allreduce with enable_topo_check starts with an       *)
(* MPI_Allgather of all send and receive lists; a hierarchical one reduces  *)
(* within the machines, exchanges between their leaders (the lists name     *)
(* leaders, the same for all ranks of a machine) and broadcasts in the      *)
(* machine.                                                                 *)
(***************************************************************************)
Peers(r, op) ==
    CASE op.type = "BROADCAST" -> {op.root}
      [] op.type = "ALLREDUCE" /\ op.hier -> Machine(r)
      [] op.type = "NEIGHBOR_ALLREDUCE" /\ op.hier ->
            Machine(r) \cup UNION {Machine(s) : s \in Elements(op.recv)}
      [] op.type = "NEIGHBOR_ALLREDUCE" /\ op.dyn ->
            IF op.check THEN Rank ELSE Elements(op.recv)
      [] op.type \in {"NEIGHBOR_ALLREDUCE", "NEIGHBOR_ALLGATHER"} -> sources[r]
      [] OTHER -> Rank

(***************************************************************************)
(* Rank s has entered its k-th collective call.  A rank that is to receive  *)
(* from the list of a neighbor_allreduce also needs itself, or its leader,  *)
(* in the list the other one sends to.                                      *)
(***************************************************************************)
Arrived(s, r, op, k) ==
    /\ Len(hist[s]) >= k
    /\ op.type = "NEIGHBOR_ALLREDUCE" =>
          LET to == Elements(hist[s][k].ops[1].send) IN
          /\ op.dyn /\ ~op.check /\ ~op.hier => r \in to
          /\ op.hier /\ s \notin Machine(r) => Leader(r) \in to

\* GetBluefogFusionBuffer, which only fused operations call, fails.
FusionRefused(r, batch) == Len(batch) > 1 /\ (shut_down[r] \/ suspended[r])

\* CheckNeighborSendRecvPattern gathers the lists: enable_topo_check and
\* dynamic neighbors.  For a hierarchical operation it only logs.
PatternChecked(op) ==
    op.type = "NEIGHBOR_ALLREDUCE" /\ op.dyn /\ op.check /\ ~op.hier

\* An exception in the background thread before it enters a collective call;
\* nothing catches it.
Throws(r, batch) ==
    LET op == batch[1].op IN
    \/ op.type \in OneSidedType /\ op.name \notin win[r]
    \/ FusionRefused(r, batch) /\ ~PatternChecked(op)
    \/ /\ op.type = "NEIGHBOR_ALLREDUCE" /\ op.hier
       /\ op.send = <<>> \/ LocalSize < 2

\* RegisterWindowName and UnregisterWindowName report an error.
WindowError(r, op) ==
    \/ op.type = "WIN_CREATE" /\ op.name \in win[r]
    \/ op.type = "WIN_FREE" /\ op.name # AllWindows /\ op.name \notin win[r]

\* Operations no other rank takes part in.
IsLocal(r, op) ==
    \/ op.type \in OneSidedType
    \/ op.type = "WIN_FREE" /\ op.name = AllWindows /\ win[r] = {}

(***************************************************************************)
(* PerformOperation of one entry or PerformOperationWithFusion of several:  *)
(* the operation fails, is done at once, or enters a collective call.       *)
(***************************************************************************)
Perform(r, batch, pc) ==
    LET op == batch[1].op IN
    \/ /\ Throws(r, batch)
       /\ BGoto(r, "aborted")
       /\ UNCHANGED <<status, running, hist>>
    \/ /\ ~Throws(r, batch)
       /\ WindowError(r, op)
       /\ Callback(r, batch, "error")
       /\ UNCHANGED <<bpc, running, hist>>
    \/ /\ ~Throws(r, batch)
       /\ IsLocal(r, op)
       /\ Callback(r, batch, "ok")
       /\ UNCHANGED <<bpc, running, hist>>
    \/ /\ ~Throws(r, batch)
       /\ ~WindowError(r, op)
       /\ ~IsLocal(r, op)
       /\ running' = [running EXCEPT ![r] = batch]
       /\ hist' = [hist EXCEPT ![r] = Append(@,
              [ops |-> [i \in DOMAIN batch |-> batch[i].op], epoch |-> epoch[r]])]
       /\ BGoto(r, pc)
       /\ UNCHANGED status

PerformDirect(r) ==
    /\ bpc[r] = "direct"
    /\ entries[r] # <<>>
    /\ entries' = [entries EXCEPT ![r] = Tail(@)]
    /\ Perform(r, <<Head(entries[r])>>, "directing")
    /\ UNCHANGED <<program, mpc, issued, flagVars, topoFlags, queueVars, localVars, todo,
                   masterVars, gather, bcast, win, sources, epoch>>

(***************************************************************************)
(* GetTensorEntriesFromResponse asserts that every name of the response is  *)
(* in the table and erases them; an error response only calls back.         *)
(***************************************************************************)
EraseNothing(t, keys) == t                            \* variant
EraseAll(t, keys) == [k \in DOMAIN t \ {keys[i] : i \in DOMAIN keys} |-> t[k]]

PerformResponse(r) ==
    LET response == Head(todo[r])
        keys     == response.keys
        batch    == [i \in DOMAIN keys |-> tensor_table[r][keys[i]]]
        found    == \A i \in DOMAIN keys : keys[i] \in DOMAIN tensor_table[r]
    IN  /\ bpc[r] = "respond"
        /\ todo[r] # <<>>
        /\ \/ /\ ~found
              /\ BGoto(r, "aborted")
              /\ UNCHANGED <<status, tensor_table, todo, running, hist>>
           \/ /\ found
              /\ tensor_table' = [tensor_table EXCEPT ![r] = EraseAll(@, keys)]
              /\ todo' = [todo EXCEPT ![r] = Tail(@)]
              /\ IF response.type = "ERROR"
                   THEN Callback(r, batch, "error") /\ UNCHANGED <<bpc, running, hist>>
                   ELSE Perform(r, batch, "responding")
        /\ UNCHANGED <<program, mpc, issued, flagVars, topoFlags, message_queue, localVars,
                       entries, masterVars, gather, bcast, win, sources, epoch>>

\* variant: only the edges of the send matrix are looked up
PatternMismatchOneWay(k) ==
    \E s, t \in Rank :
        LET sop == hist[s][k].ops[1]
            top == hist[t][k].ops[1]
        IN  t \in Elements(sop.send) /\ s \notin Elements(top.recv)

\* CheckNeighborSendRecvPattern: the send matrix is not the transposed
\* receive matrix.
PatternMismatch(k) ==
    \E s, t \in Rank :
        LET sop == hist[s][k].ops[1]
            top == hist[t][k].ops[1]
        IN  (t \in Elements(sop.send)) # (s \in Elements(top.recv))

\* What the operation does to the window map of the rank.
WindowsAfter(w, op) ==
    CASE op.type = "WIN_CREATE" -> w \cup {op.name}
      [] op.type = "WIN_FREE"   -> IF op.name = AllWindows THEN {} ELSE w \ {op.name}
      [] OTHER -> w

\* The lists agree, and only now a fused operation asks for its buffer.
ThrowsAfterCheck(r) ==
    /\ FusionRefused(r, running[r])
    /\ PatternChecked(running[r][1].op)
    /\ ~PatternMismatch(Len(hist[r]))

(***************************************************************************)
(* The collective call returns: the exception comes after the check of the  *)
(* lists, or the callbacks run.  The check and the exchange that follows it *)
(* are one step.                                                            *)
(***************************************************************************)
Complete(r) ==
    LET op == running[r][1].op
        k  == Len(hist[r])
    IN  /\ bpc[r] \in {"directing", "responding"}
        /\ \A s \in Peers(r, op) : Arrived(s, r, op, k)
        /\ \/ /\ ThrowsAfterCheck(r)
              /\ BGoto(r, "aborted")
              /\ UNCHANGED <<win, status>>
           \/ /\ ~ThrowsAfterCheck(r)
              /\ win' = [win EXCEPT ![r] = WindowsAfter(@, op)]
              /\ Callback(r, running[r],
                          IF PatternChecked(op) /\ PatternMismatch(k)
                            THEN "error" ELSE "ok")
              /\ BGoto(r, IF bpc[r] = "directing" THEN "direct" ELSE "respond")
        /\ running' = [running EXCEPT ![r] = <<>>]
        /\ UNCHANGED <<program, mpc, issued, flagVars, topoFlags, queueVars, localVars,
                       entries, todo, masterVars, gather, bcast, hist, sources, epoch>>

-----------------------------------------------------------------------------
(* The end of the cycle *)

\* variant: only a rank that asked for the shutdown leaves the loop
NextCycleOfAsker(r) == IF shut_down[r] THEN "exit" ELSE "top"

\* RunLoopOnce returns !should_shut_down.
NextCycle(r) == IF should_shut_down[r] THEN "exit" ELSE "top"

\* The cycle is over: pause when some rank sets its topology.
EndCycle(r) ==
    /\ BGoto(r, IF should_change_topo[r] THEN "park" ELSE NextCycle(r))
    /\ ready_to_setting_topology' = [ready_to_setting_topology EXCEPT
                                       ![r] = IF should_change_topo[r] THEN TRUE ELSE @]
    /\ UNCHANGED <<setting_topology, setting_topology_done>>

\* The direct operations are done; the flag is read once more.
DirectDone(r) ==
    /\ bpc[r] = "direct"
    /\ entries[r] = <<>>
    /\ kept' = [kept EXCEPT ![r] = IF skip[r] \/ r = Master THEN <<>> ELSE @]
    /\ IF skip[r]
         THEN EndCycle(r) /\ UNCHANGED <<inbox, from>>
         ELSE /\ BGoto(r, IF r = Master THEN "count" ELSE "send")
              /\ UNCHANGED topoFlags
              /\ IF r = Master THEN inbox' = kept[r] /\ from' = Master
                               ELSE UNCHANGED <<inbox, from>>
    /\ UNCHANGED <<userVars, flagVars, queueVars, should_shut_down,
                   should_change_topo, index, buffer, execVars, message_table,
                   ready_to_reduce, fuseVars, mpiVars>>

\* message_list.set_shutdown: the shared flag, not the local copy.
ShutdownFlag(r) == shut_down[r]

\* NegotiateOfRequestOfSlave: MPI_Gather(v) sends the list.
SlaveSend(r) ==
    /\ bpc[r] = "send"
    /\ gather' = [gather EXCEPT ![r] = Append(@,
          [requests |-> kept[r], shutdown |-> ShutdownFlag(r),
           change_topo |-> should_change_topo[r]])]
    /\ kept' = [kept EXCEPT ![r] = <<>>]
    /\ BGoto(r, "recv")
    /\ UNCHANGED <<userVars, flagVars, topoFlags, queueVars, should_shut_down,
                   should_change_topo, index, buffer, execVars, masterVars,
                   bcast, hist, win, sources, epoch>>

\* variant: a rank that is told to shut down executes nothing any more
NothingAtShutdown(list) == IF list.shutdown THEN <<>> ELSE list.responses

\* The responses a worker executes: all of them, the shutdown comes after.
ToExecute(list) == list.responses

\* MPI_Bcast returns.  The flags of the list are locals the code takes over
\* after the responses; nothing reads them before.
SlaveRecv(r) ==
    LET list == Head(bcast[r])
    IN  /\ bpc[r] = "recv"
        /\ bcast[r] # <<>>
        /\ bcast' = [bcast EXCEPT ![r] = Tail(@)]
        /\ todo' = [todo EXCEPT ![r] = ToExecute(list)]
        /\ should_shut_down' = [should_shut_down EXCEPT ![r] = @ \/ list.shutdown]
        /\ should_change_topo' =
              [should_change_topo EXCEPT ![r] = @ \/ list.change_topo]
        /\ BGoto(r, "respond")
        /\ UNCHANGED <<userVars, flagVars, topoFlags, queueVars, index, buffer,
                       kept, entries, running, masterVars, gather, hist, win,
                       sources, epoch>>

RespondDone(r) ==
    /\ bpc[r] = "respond"
    /\ todo[r] = <<>>
    /\ EndCycle(r)
    /\ UNCHANGED <<userVars, flagVars, queueVars, localVars, execVars, masterVars,
                   mpiVars>>

\* variant: ready_to_setting_topology stays set
UnparkKeepReady(r) ==
    /\ bpc[r] = "park"
    /\ setting_topology_done[r]
    /\ BGoto(r, "unpark")
    /\ UNCHANGED <<userVars, flagVars, topoFlags, queueVars, localVars, execVars,
                   masterVars, mpiVars>>

\* The pause: wait for setting_topology_done, clear ready_to_setting_topology,
\* then wait until the user thread has reset setting_topology_done.
Unpark(r) ==
    /\ bpc[r] = "park"
    /\ setting_topology_done[r]
    /\ ready_to_setting_topology' = [ready_to_setting_topology EXCEPT ![r] = FALSE]
    /\ BGoto(r, "unpark")
    /\ UNCHANGED <<userVars, flagVars, setting_topology, setting_topology_done,
                   queueVars, localVars, execVars, masterVars, mpiVars>>

Unparked(r) ==
    /\ bpc[r] = "unpark"
    /\ ~setting_topology_done[r]
    /\ BGoto(r, NextCycle(r))
    /\ UNCHANGED <<userVars, flagVars, topoFlags, queueVars, localVars, execVars,
                   masterVars, mpiVars>>

-----------------------------------------------------------------------------
(* After the loop *)

Exit(r) ==
    /\ bpc[r] = "exit"
    /\ shut_down' = [shut_down EXCEPT ![r] = TRUE]
    /\ BGoto(r, "finalize")
    /\ UNCHANGED <<userVars, suspended, skip, topoFlags, queueVars, localVars,
                   execVars, masterVars, mpiVars>>

\* variant: the queue is cleared without the callbacks
FinalizeSilently(r) ==
    /\ bpc[r] = "finalize"
    /\ tensor_table' = [tensor_table EXCEPT ![r] = <<>>]
    /\ message_queue' = [message_queue EXCEPT ![r] = <<>>]
    /\ win' = [win EXCEPT ![r] = {}]
    /\ BGoto(r, "down")
    /\ UNCHANGED <<userVars, flagVars, topoFlags, localVars, execVars,
                   masterVars, gather, bcast, hist, sources, epoch>>

\* Every entry left in the table is called back with SHUT_DOWN_ERROR.
FinalizeTensorQueue(r) ==
    /\ bpc[r] = "finalize"
    /\ status' = [status EXCEPT ![r] = [h \in DOMAIN @ |->
          IF \E k \in DOMAIN tensor_table[r] : tensor_table[r][k].handle = h
            THEN "shutdown" ELSE @[h]]]
    /\ tensor_table' = [tensor_table EXCEPT ![r] = <<>>]
    /\ message_queue' = [message_queue EXCEPT ![r] = <<>>]
    /\ win' = [win EXCEPT ![r] = {}]
    /\ BGoto(r, "down")
    /\ UNCHANGED <<program, mpc, issued, flagVars, topoFlags, localVars, execVars,
                   masterVars, gather, bcast, hist, sources, epoch>>

-----------------------------------------------------------------------------
BackgroundStep(r) ==
    \/ ReadFlags(r) \/ PopMessagesFromQueue(r)
    \/ ConvertNext(r) \/ ConvertDone(r) \/ RemoveNext(r) \/ RemoveDone(r)
    \/ PerformDirect(r) \/ PerformResponse(r) \/ Complete(r)
    \/ DirectDone(r) \/ SlaveSend(r) \/ SlaveRecv(r) \/ RespondDone(r)
    \/ Unpark(r) \/ Unparked(r) \/ Exit(r) \/ FinalizeTensorQueue(r)
=============================================================================
