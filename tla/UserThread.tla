----------------------------- MODULE UserThread -----------------------------
(***************************************************************************)
(* The calls the user thread of a rank makes: the Enqueue functions,        *)
(* synchronize, bluefog_set_topology, SetSkipNegotiateStageState,           *)
(* bluefog_suspend/resume and bluefog_shutdown.  A call that polls a flag   *)
(* of the background thread is split where it waits.                        *)
(* Source: bluefog/common/operations.cc, tensor_queue.cc, mpi_controller.cc *)
(* (SetTopology) and bluefog/torch/handle_manager.cc.                       *)
(***************************************************************************)
EXTENDS GlobalState

backgroundVars == <<bpc, localVars, execVars, countVars, fuseVars>>

\* The thread is about to make a call, or polls a flag inside one.  A process
\* whose background thread has aborted makes no further step.
At(r, pc) == bpc[r] # "aborted" /\ mpc[r] = pc
Calls(r, c) == At(r, "run") /\ program[r] # <<>> /\ Head(program[r]).call = c

\* The current call returns.
Return(r) == /\ program' = [program EXCEPT ![r] = Tail(@)]
             /\ mpc' = [mpc EXCEPT ![r] = "run"]
Goto(r, pc) == mpc' = [mpc EXCEPT ![r] = pc] /\ UNCHANGED program

-----------------------------------------------------------------------------
(* Enqueue *)

\* AllocateHandle; a refused call leaves its handle behind.
Allocate(r, st) ==
    /\ status' = [status EXCEPT ![r] = Append(@, st)]
    /\ issued' = [issued EXCEPT ![r] = Append(@, Head(program[r]).op)]

\* The checks every Enqueue function makes first.
EnqueueRefused(r) == shut_down[r] \/ suspended[r]

\* SHUT_DOWN_ERROR or SUSPEND_ERROR: the operation is not queued.
EnqueueFail(r) ==
    /\ Calls(r, "enqueue")
    /\ EnqueueRefused(r)
    /\ Allocate(r, "rejected")
    /\ Return(r)
    /\ UNCHANGED <<flagVars, topoFlags, queueVars, backgroundVars, mpiVars>>

\* The checks pass; AddToTensorQueue comes later, under the queue's mutex.
EnqueueBegin(r) ==
    /\ Calls(r, "enqueue")
    /\ ~EnqueueRefused(r)
    /\ Allocate(r, "pending")
    /\ Goto(r, "add")
    /\ UNCHANGED <<flagVars, topoFlags, queueVars, backgroundVars, mpiVars>>

\* The name AddToTensorQueue looks for in the table before it adds the entry.
IsDuplicate(r, op) == TensorName(op) \in DOMAIN tensor_table[r]

\* emplace: an entry that is already there under the message name stays.
Emplace(t, e) == IF e.key \in DOMAIN t THEN t ELSE Put(t, e.key, e)

AddToTensorQueue(r) ==
    LET op == Head(program[r]).op
        e  == [key |-> Key(op), op |-> op, handle |-> Len(status[r])]
    IN  /\ At(r, "add")
        /\ IF IsDuplicate(r, op)
             THEN /\ status' = [status EXCEPT ![r][e.handle] = "rejected"]
                  /\ UNCHANGED queueVars
             ELSE /\ tensor_table' = [tensor_table EXCEPT ![r] = Emplace(@, e)]
                  /\ message_queue' = [message_queue EXCEPT
                                         ![r] = Append(@, RequestOf(r, op))]
                  /\ UNCHANGED status
        /\ Return(r)
        /\ UNCHANGED <<issued, flagVars, topoFlags, backgroundVars, mpiVars>>

\* synchronize: PollHandle until every handle of the rank has a result.
Synchronize(r) ==
    /\ Calls(r, "wait")
    /\ \A h \in DOMAIN status[r] : status[r][h] # "pending"
    /\ Return(r)
    /\ UNCHANGED <<status, issued, flagVars, topoFlags, queueVars, backgroundVars, mpiVars>>

-----------------------------------------------------------------------------
(* Setting the topology and the skip flag *)

\* A registered window: set_topology returns before it touches a flag.
SetTopologyRefused(r) ==
    /\ Calls(r, "set_topology")
    /\ win[r] # {}
    /\ Return(r)
    /\ UNCHANGED <<status, issued, flagVars, topoFlags, queueVars, backgroundVars, mpiVars>>

\* Ask the background thread to pause.
RequestPause(r) ==
    /\ setting_topology' = [setting_topology EXCEPT ![r] = TRUE]
    /\ Goto(r, "ready")
    /\ UNCHANGED <<status, issued, flagVars, setting_topology_done,
                   ready_to_setting_topology, queueVars, backgroundVars, mpiVars>>

\* What the caller does when it has finished: let the background thread go on.
EndPause(r) ==
    /\ setting_topology' = [setting_topology EXCEPT ![r] = FALSE]
    /\ setting_topology_done' = [setting_topology_done EXCEPT ![r] = TRUE]
    /\ UNCHANGED ready_to_setting_topology
    /\ Goto(r, "close")

SetTopologyBegin(r) ==
    /\ Calls(r, "set_topology")
    /\ win[r] = {}
    /\ RequestPause(r)

\* variant: the caller does not wait for the background thread
PausedAtOnce(r, c) == At(r, "ready") /\ Head(program[r]).call = c

\* The call under way, when the background thread has paused.
Paused(r, c) ==
    /\ At(r, "ready")
    /\ Head(program[r]).call = c
    /\ ready_to_setting_topology[r]

\* "Cannot set the topology because there are unfinished MPI ops."
SetTopologyUnfinished(r) ==
    /\ Paused(r, "set_topology")
    /\ message_queue[r] # <<>>
    /\ Return(r)
    /\ UNCHANGED <<status, issued, flagVars, topoFlags, queueVars, backgroundVars, mpiVars>>

\* The thread enters MPI_Dist_graph_create, a collective call.
SetTopologyEnter(r) ==
    /\ Paused(r, "set_topology")
    /\ message_queue[r] = <<>>
    /\ Goto(r, "building")
    /\ UNCHANGED <<status, issued, flagVars, topoFlags, queueVars, backgroundVars, mpiVars>>

\* It leaves it when every rank has entered the same call.
GraphReady(r) ==
    \A s \in Rank : \/ epoch[s] > epoch[r]
                    \/ epoch[s] = epoch[r] /\ mpc[s] = "building"

SetTopologyLeave(r) ==
    /\ At(r, "building")
    /\ GraphReady(r)
    /\ epoch' = [epoch EXCEPT ![r] = @ + 1]
    /\ sources' = [sources EXCEPT ![r] = Head(program[r]).sources]
    /\ EndPause(r)
    /\ UNCHANGED <<status, issued, flagVars, queueVars, backgroundVars,
                   gather, bcast, hist, win>>

\* variant: setting_topology_done is not reset
ClosePauseKeepDone(r) ==
    /\ At(r, "close")
    /\ ~ready_to_setting_topology[r]
    /\ Return(r)
    /\ UNCHANGED <<status, issued, flagVars, topoFlags, queueVars, backgroundVars,
                   mpiVars>>

\* The background thread has seen setting_topology_done.
ClosePause(r) ==
    /\ At(r, "close")
    /\ ~ready_to_setting_topology[r]
    /\ setting_topology_done' = [setting_topology_done EXCEPT ![r] = FALSE]
    /\ Return(r)
    /\ UNCHANGED <<status, issued, flagVars, setting_topology, ready_to_setting_topology,
                   queueVars, backgroundVars, mpiVars>>

\* No change, or the stage is turned on again: no pause.
SkipNegotiateNow(r) ==
    /\ Calls(r, "skip")
    /\ ~Head(program[r]).value \/ skip[r]
    /\ skip' = [skip EXCEPT ![r] = Head(program[r]).value]
    /\ Return(r)
    /\ UNCHANGED <<status, issued, shut_down, suspended, topoFlags, queueVars,
                   backgroundVars, mpiVars>>

SkipNegotiateBegin(r) ==
    /\ Calls(r, "skip")
    /\ Head(program[r]).value /\ ~skip[r]
    /\ RequestPause(r)

SkipNegotiateApply(r) ==
    /\ Paused(r, "skip")
    /\ skip' = [skip EXCEPT ![r] = TRUE]
    /\ EndPause(r)
    /\ UNCHANGED <<status, issued, shut_down, suspended, queueVars, backgroundVars, mpiVars>>

-----------------------------------------------------------------------------
(* Suspend, resume and shutdown *)

SuspendOrResume(r) ==
    /\ Calls(r, "suspend") \/ Calls(r, "resume")
    /\ suspended' = [suspended EXCEPT ![r] = (Head(program[r]).call = "suspend")]
    /\ Return(r)
    /\ UNCHANGED <<status, issued, shut_down, skip, topoFlags, queueVars, backgroundVars,
                   mpiVars>>

Shutdown(r) ==
    /\ Calls(r, "shutdown")
    /\ shut_down' = [shut_down EXCEPT ![r] = TRUE]
    /\ Goto(r, "join")
    /\ UNCHANGED <<status, issued, suspended, skip, topoFlags, queueVars, backgroundVars,
                   mpiVars>>

\* background_thread.join()
Join(r) ==
    /\ At(r, "join")
    /\ bpc[r] = "down"
    /\ Return(r)
    /\ UNCHANGED <<status, issued, flagVars, topoFlags, queueVars, backgroundVars, mpiVars>>

-----------------------------------------------------------------------------
UserStep(r) ==
    \/ EnqueueFail(r) \/ EnqueueBegin(r) \/ AddToTensorQueue(r) \/ Synchronize(r)
    \/ SetTopologyRefused(r) \/ SetTopologyBegin(r) \/ SetTopologyUnfinished(r)
    \/ SetTopologyEnter(r) \/ SetTopologyLeave(r) \/ ClosePause(r)
    \/ SkipNegotiateNow(r) \/ SkipNegotiateBegin(r) \/ SkipNegotiateApply(r)
    \/ SuspendOrResume(r) \/ Shutdown(r) \/ Join(r)
=============================================================================
