---------------------------- MODULE GlobalState ----------------------------
(***************************************************************************)
(* The state of a bluefog job: BluefogGlobalState and the TensorQueue of    *)
(* every rank, the locals of its two threads, the tables of the coordinator *)
(* and what is in flight in MPI.  UserThread, Coordinator and               *)
(* BackgroundThread hold the actions of the threads, Bluefog composes them. *)
(* Source: bluefog/common/global_state.h, tensor_queue.h, common.h and the  *)
(* locals of operations.cc.                                                 *)
(***************************************************************************)
EXTENDS Message, FiniteSets

CONSTANTS
    LocalSize,      \* ranks per machine
    Threshold,      \* tensor_fusion_threshold, in bytes
    Sources0,       \* the in-neighbors of every rank before set_topology
    Programs        \* what the user threads may do

(***************************************************************************)
(* A program is a sequence of calls of the API.  "wait" synchronizes with   *)
(* every handle of the rank.                                                *)
(***************************************************************************)
Call == [call : {"enqueue"}, op : Op]
   \cup [call : {"wait", "shutdown", "suspend", "resume"}]
   \cup [call : {"set_topology"}, sources : SUBSET Rank]
   \cup [call : {"skip"}, value : BOOLEAN]

ASSUME LocalSizeAssumption == LocalSize \in Nat \ {0}
ASSUME ThresholdAssumption == Threshold \in Nat
ASSUME Sources0Assumption  == Sources0 \in [Rank -> SUBSET Rank]
ASSUME ProgramsAssumption  == \A p \in Programs : p \in [Rank -> Seq(Call)]

VARIABLES
    (* the user thread of every rank *)
    program,        \* the calls still to be made, the current one first
    mpc,            \* where the thread is inside the current call
    status,         \* the HandleManager: the status of every handle so far
    issued,         \* history: the operation of every handle
    (* flags both threads of a rank use *)
    shut_down, suspended, skip,
    setting_topology, setting_topology_done, ready_to_setting_topology,
    (* the TensorQueue of every rank *)
    tensor_table,   \* entries by message name
    message_queue,  \* requests not popped yet
    (* the background thread of every rank *)
    bpc,
    should_shut_down, should_change_topo,
    index,          \* position of the convert loop
    buffer,         \* message_queue_buffer, as popped
    kept,           \* message_queue_buffer, after the direct ones are erased
    entries,        \* the entries to be executed directly
    running,        \* the entries of the operation under way
    todo,           \* the responses still to be executed in this cycle
    (* the coordinator *)
    message_table,  \* requests received so far, by message name
    from, inbox,    \* the rank whose requests are counted, and what is left
    ready_to_reduce, responses, response_list,
    fused_size,     \* bytes of the last, possibly fused, response
    (* MPI *)
    gather, bcast,  \* the messages of the current cycle, per rank
    hist,           \* the collectives every rank has entered, in order
    win,            \* named_win_map: the registered windows
    sources, epoch  \* graph_comm: its in-neighbors and how often it was built

userVars  == <<program, mpc, status, issued>>
flagVars  == <<shut_down, suspended, skip>>
topoFlags == <<setting_topology, setting_topology_done, ready_to_setting_topology>>
queueVars == <<tensor_table, message_queue>>
localVars == <<should_shut_down, should_change_topo, index, buffer, kept>>
execVars  == <<entries, running, todo>>
countVars == <<message_table, from, inbox, ready_to_reduce>>
fuseVars  == <<responses, response_list, fused_size>>
mpiVars   == <<gather, bcast, hist, win, sources, epoch>>
vars == <<userVars, flagVars, topoFlags, queueVars, bpc, localVars, execVars,
          countVars, fuseVars, mpiVars>>

Status == {"pending", "ok", "error", "shutdown", "rejected"}

\* TensorTableEntry: handle stands for the callback.
Entry == [key : KeySet, op : Op, handle : Nat \ {0}]

RequestList  == [requests : Seq(NegotiatedRequest), shutdown : BOOLEAN, change_topo : BOOLEAN]
ResponseList == [responses : Seq(Response), shutdown : BOOLEAN, change_topo : BOOLEAN]
Collective   == [ops : Seq(Op), epoch : Nat]

MPC == {"run", "add", "ready", "building", "close", "join"}
BPC == {"top", "pop", "convert", "remove", "direct", "directing",
        "count", "construct", "fuse", "send", "recv", "respond", "responding",
        "park", "unpark", "exit", "finalize", "down", "aborted"}

\* unordered_map::emplace of a new key, and erase.
Put(t, k, v) == [x \in DOMAIN t \cup {k} |-> IF x = k THEN v ELSE t[x]]
Erase(t, k) == [x \in DOMAIN t \ {k} |-> t[x]]

\* The callbacks of the entries of batch mark their handles done.
Callback(r, batch, st) ==
    status' = [status EXCEPT ![r] = [h \in DOMAIN @ |->
        IF \E i \in DOMAIN batch : batch[i].handle = h THEN st ELSE @[h]]]

-----------------------------------------------------------------------------
(* Types *)

UserOK ==
    /\ program \in [Rank -> Seq(Call)]
    /\ mpc \in [Rank -> MPC]
    /\ status \in [Rank -> Seq(Status)]
    /\ issued \in [Rank -> Seq(Op)]

FlagOK ==
    /\ shut_down \in [Rank -> BOOLEAN]
    /\ suspended \in [Rank -> BOOLEAN]
    /\ skip \in [Rank -> BOOLEAN]

TopoOK ==
    /\ setting_topology \in [Rank -> BOOLEAN]
    /\ setting_topology_done \in [Rank -> BOOLEAN]
    /\ ready_to_setting_topology \in [Rank -> BOOLEAN]

QueueOK ==
    /\ DOMAIN tensor_table = Rank
    /\ \A r \in Rank : /\ DOMAIN tensor_table[r] \subseteq KeySet
                       /\ \A k \in DOMAIN tensor_table[r] : tensor_table[r][k] \in Entry
    /\ message_queue \in [Rank -> Seq(Request)]

LocalOK ==
    /\ bpc \in [Rank -> BPC]
    /\ should_shut_down \in [Rank -> BOOLEAN]
    /\ should_change_topo \in [Rank -> BOOLEAN]
    /\ index \in [Rank -> Nat \ {0}]
    /\ buffer \in [Rank -> Seq(Request)]
    /\ kept \in [Rank -> Seq(NegotiatedRequest)]

ExecOK ==
    /\ entries \in [Rank -> Seq(Entry)]
    /\ running \in [Rank -> Seq(Entry)]
    /\ todo \in [Rank -> Seq(Response)]

CountOK ==
    /\ DOMAIN message_table \subseteq KeySet
    /\ \A k \in DOMAIN message_table : message_table[k] \in Seq(NegotiatedRequest)
    /\ from \in Rank
    /\ inbox \in Seq(NegotiatedRequest)
    /\ ready_to_reduce \in Seq(KeySet)

FuseOK ==
    /\ responses \in Seq(Response)
    /\ response_list \in Seq(Response)
    /\ fused_size \in Nat

MpiOK ==
    /\ gather \in [Rank -> Seq(RequestList)]
    /\ bcast \in [Rank -> Seq(ResponseList)]
    /\ hist \in [Rank -> Seq(Collective)]
    /\ win \in [Rank -> SUBSET AnyName]
    /\ sources \in [Rank -> SUBSET Rank]
    /\ epoch \in [Rank -> Nat]

(***************************************************************************)
(* Every variable of the job holds values of its type: handles have a       *)
(* status, the tables map message names to entries and requests, only       *)
(* requests that take part in the negotiation reach the coordinator, and    *)
(* every response names a tensor.                                           *)
(***************************************************************************)
TypeOK == UserOK /\ FlagOK /\ TopoOK /\ QueueOK /\ LocalOK /\ ExecOK
          /\ CountOK /\ FuseOK /\ MpiOK
=============================================================================
