------------------------------- MODULE Window -------------------------------
(***************************************************************************)
(* One-sided communication: the window functions of torch/mpi_ops.py with  *)
(* what they run in torch/mpi_win_ops.cc and common/mpi_controller.cc, on  *)
(* every rank of a job. The user thread runs a script of calls (a call     *)
(* that raises an exception is caught, and the script goes on); the        *)
(* background thread takes the operations in the order they were enqueued. *)
(*                                                                         *)
(* A tensor is one number, and weights are out of Scale. The window's own  *)
(* tensor is what is put and accumulated. Scripts have one operation of a  *)
(* kind outstanding on a window (module Bluefog has the tensor queue and   *)
(* the negotiation of win_create and win_free).                            *)
(***************************************************************************)
EXTENDS WinMutex, TopologyUtil
LOCAL INSTANCE SequencesExt

CONSTANTS Topo, TopoWeighted,  \* the virtual topology, which no call changes
          Jobs                 \* the scripts to look at: for every rank, its calls

ASSUME TopoAssumption ==
    /\ \E n \in Rank : n \in Nat /\ Rank = 0 .. n
    /\ TopoWeighted \in BOOLEAN /\ DOMAIN Topo = Rank

\* A call is a record of op, name and all arguments: has tells which optional ones
\* are given, weights is neighbor_weights, dst_weights or src_weights, flag is
\* zero_init, reset or for_self, value the tensor of win_create and shape its shape
\* and type.
\* Call i of a script enters a with block that call k leaves.
BlockEnds(script, i, k) ==
    LET Leaves(m) == script[m].op = "exit" /\ script[m].name = script[i].name
    IN Leaves(k) /\ \A m \in i .. k - 1 : ~Leaves(m)

ASSUME JobsAssumption ==
    \A j \in Jobs : \A r \in Rank :
        /\ j[r] \in Seq({j[r][i] : i \in DOMAIN j[r]})
        /\ \A i \in DOMAIN j[r] :
              /\ {j[r][i].flag, j[r][i].mutex, j[r][i].blocking} \subseteq BOOLEAN
              /\ j[r][i].op = "create" => j[r][i].name \in Name
              /\ j[r][i].op = "enter" => \E k \in i .. Len(j[r]) : BlockEnds(j[r], i, k)

VARIABLES
    job, pos,      \* the scripts, and the call a rank is at
    pc,            \* where the user thread is in that call
    handle,        \* the handle it waits for
    win_map,       \* _win_map: names
    win_handle_map, results, last_handle,   \* _win_handle_map, HandleManager
    storage,       \* WinTorchStorageManager: tensors_map_ and device_map_
    windows,       \* named_win_map
    tensor, buffer,  \* self_tensor_map_, tensors_map_
    version, p,    \* version_mem_ and p_mem_
    with_p,        \* global_with_associated_p_state
    suspended,     \* global_background_thread_suspend
    queue,         \* operations of a rank; the first is the one in progress
    bg,            \* where the background thread is in it, and the ranks still to do
    crashed,       \* the ranks whose process was terminated
    fresh,         \* a buffer was written (put or get) and not averaged since
    failed         \* the windows whose win_create or win_free failed, until all are freed

\* What the user thread alone changes.
python == <<job, pos, pc, handle, win_map, win_handle_map, suspended, failed>>
library == <<results, last_handle, storage, windows, with_p, queue, bg, crashed>>
memory == <<tensor, buffer, version, p, fresh>>
vars == <<python, library, memory, mutexVars>>

in_neighbor_ranks(r) == Predecessors(Topo, r) \ {r}
out_neighbor_ranks(r) == Successors(Topo, r) \ {r}

Times(x, w) == (x * w) \div Scale
NoOperation == [at |-> "idle", ranks |-> <<>>]

Init ==
    /\ job \in Jobs
    /\ pos = [r \in Rank |-> 1]
    /\ pc = [r \in Rank |-> "run"]
    /\ handle = [r \in Rank |-> 0]
    /\ win_map = [r \in Rank |-> {}]
    /\ win_handle_map = win_map
    /\ results = [r \in Rank |-> <<>>]
    /\ last_handle = handle
    /\ storage = [r \in Rank |-> [tensors |-> {}, devices |-> {}]]
    /\ windows = win_map
    /\ tensor = [r \in Rank |-> [n \in Name |-> 0]]
    /\ buffer = [r \in Rank |-> [n \in Name |-> [s \in Rank |-> 0]]]
    /\ version = buffer
    /\ p = buffer
    /\ with_p = [r \in Rank |-> FALSE]
    /\ suspended = with_p
    /\ failed = win_map
    /\ queue = results
    /\ bg = [r \in Rank |-> NoOperation]
    /\ crashed = {}
    /\ fresh = [r \in Rank |-> [n \in Name |-> [s \in Rank |-> FALSE]]]
    /\ MutexInit

Ended(r) == pos[r] > Len(job[r])
Call(r) == job[r][pos[r]]
User(r) == <<r, "user">>
Background(r) == <<r, "background">>

InCall(r, where) == r \notin crashed /\ ~Ended(r) /\ pc[r] = where /\ Outside(User(r))
Calls(r, op) == InCall(r, "run") /\ Call(r).op = op
Return(r) == pos' = [pos EXCEPT ![r] = @ + 1] /\ pc' = [pc EXCEPT ![r] = "run"]
GoTo(r, where) == pc' = [pc EXCEPT ![r] = where] /\ UNCHANGED pos

\* AllocateHandle and EnqueueTensorWindow..., which refuses while the rank is suspended:
\* the handle stays pending for ever.
Pending(known, h) == [g \in DOMAIN known \cup {h} |-> IF g = h THEN "pending" ELSE known[g]]
Enqueue(r) ==
    LET h == last_handle[r] + 1
    IN /\ last_handle' = [last_handle EXCEPT ![r] = h]
       /\ results' = [results EXCEPT ![r] = Pending(@, h)]
       /\ queue' = IF suspended[r] THEN queue
                   ELSE [queue EXCEPT ![r] = Append(@, [call |-> Call(r), handle |-> h,
                                                       with_p |-> with_p[r]])]

\* DoWinWait: the handle is done, and released.
Done(r) == handle[r] \in DOMAIN results[r] /\ results[r][handle[r]] # "pending"
ReleaseHandle(r) ==
    results' = [results EXCEPT ![r] = [h \in DOMAIN @ \ {handle[r]} |-> @[h]]]

-----------------------------------------------------------------------------
(* Windows come and go *)

\* The call on these windows waits for its operation, or raises if that was refused.
Block(r, names) ==
    /\ Enqueue(r)
    /\ IF suspended[r]
       THEN Return(r) /\ failed' = [failed EXCEPT ![r] = @ \cup names] /\ UNCHANGED handle
       ELSE /\ GoTo(r, "blocked")
            /\ handle' = [handle EXCEPT ![r] = last_handle'[r]]
            /\ UNCHANGED failed

\* RegisterWinName: a buffer for every in-neighbor, a copy of the tensor or zero. The
\* storage keeps them whatever becomes of the operation.
WinCreate(r) ==
    /\ Calls(r, "create")
    /\ LET c == Call(r)
       IN IF c.name \in storage[r].tensors
          THEN Return(r) /\ UNCHANGED <<handle, failed, library, memory>>
          ELSE /\ storage' = [storage EXCEPT ![r] = [tensors |-> @.tensors \cup {c.name},
                                                     devices |-> @.devices \cup {c.name}]]
               /\ tensor' = [tensor EXCEPT ![r][c.name] = c.value]
               /\ buffer' = [buffer EXCEPT ![r][c.name] = [s \in Rank |->
                     IF s \in in_neighbor_ranks(r) /\ ~c.flag THEN c.value ELSE 0]]
               /\ Block(r, {c.name})
               /\ UNCHANGED <<windows, with_p, bg, crashed, version, p, fresh>>
    /\ UNCHANGED <<job, win_map, win_handle_map, suspended, mutexVars>>

\* _win_map and the storage forget the name before the operation is enqueued: pop raises
\* KeyError if it is not there. Without a name, device_map_ is kept.
\* A variant: the storage keeps the tensors.
WinFreeInPython(r) ==
    /\ Calls(r, "free")
    /\ LET c == Call(r)
           all == "name" \notin c.has
       IN IF ~all /\ c.name \notin win_map[r]
          THEN Return(r) /\ UNCHANGED <<handle, win_map, failed, library>>
          ELSE /\ win_map' = [win_map EXCEPT ![r] = IF all THEN {} ELSE @ \ {c.name}]
               /\ Block(r, IF all THEN win_map[r] ELSE {c.name})
               /\ UNCHANGED <<storage, windows, with_p, bg, crashed>>
    /\ UNCHANGED <<job, win_handle_map, suspended, memory, mutexVars>>
WinFree(r) ==
    /\ Calls(r, "free")
    /\ LET c == Call(r)
           all == "name" \notin c.has
       IN IF ~all /\ c.name \notin win_map[r]
          THEN Return(r) /\ UNCHANGED <<handle, win_map, failed, library>>
          ELSE /\ win_map' = [win_map EXCEPT ![r] = IF all THEN {} ELSE @ \ {c.name}]
               /\ storage' = [storage EXCEPT ![r] =
                     IF all THEN [tensors |-> {}, devices |-> @.devices]
                     ELSE [tensors |-> @.tensors \ {c.name}, devices |-> @.devices \ {c.name}]]
               /\ Block(r, IF all THEN win_map[r] ELSE {c.name})
               /\ UNCHANGED <<windows, with_p, bg, crashed>>
    /\ UNCHANGED <<job, win_handle_map, suspended, memory, mutexVars>>

\* DoWinWait at the end of DoWinCreate and DoWinFree. An error is raised, and then a
\* created window is not in _win_map.
WinCreated(r) ==
    /\ InCall(r, "blocked")
    /\ Done(r)
    /\ win_map' = IF Call(r).op = "create" /\ results[r][handle[r]] = "ok"
                  THEN [win_map EXCEPT ![r] = @ \cup {Call(r).name}] ELSE win_map
    /\ failed' = [failed EXCEPT ![r] =
          CASE results[r][handle[r]] # "ok" -> @ \cup {Call(r).name}
            [] Call(r).op = "free" /\ "name" \notin Call(r).has -> {}
            [] OTHER -> @]
    /\ ReleaseHandle(r)
    /\ Return(r)
    /\ UNCHANGED <<job, handle, win_handle_map, suspended, last_handle, storage, windows, with_p,
                   queue, bg, crashed, memory, mutexVars>>

\* The collective part, which all ranks reach in the same order: MPI_Win_create and
\* MPI_Win_free. The memory of mutexes, versions and p is new.
Everyone(op) ==
    /\ crashed = {}
    /\ \A r \in Rank : /\ bg[r].at = "idle"
                       /\ queue[r] # <<>>
                       /\ Head(queue[r]).call.op = op
                       /\ Head(queue[r]).call.name = Head(queue[0]).call.name
                       /\ Head(queue[r]).call.has = Head(queue[0]).call.has
Finish(oks) ==
    /\ results' = [r \in Rank |-> [results[r] EXCEPT ![Head(queue[r]).handle] =
                                      IF r \in oks THEN "ok" ELSE "error"]]
    /\ queue' = [r \in Rank |-> Tail(queue[r])]

\* Tensors of different shapes or types are answered with an error (ConstructResponse),
\* and no window is made; nor is one on a rank that has the name already.
SameShape == \A r \in Rank : Head(queue[r]).call.shape = Head(queue[0]).call.shape
CreateWindows ==
    /\ Everyone("create")
    /\ LET n == Head(queue[0]).call.name
           new == {r \in Rank : SameShape /\ n \notin windows[r]}
       IN /\ windows' = [r \in Rank |-> IF r \in new THEN windows[r] \cup {n} ELSE windows[r]]
          /\ Finish(new)
          /\ mutex' = [s \in Slot |-> IF s[1] = n /\ s[2] \in new THEN 0 ELSE mutex[s]]
          /\ version' = [r \in Rank |-> [version[r] EXCEPT ![n] =
                            IF r \in new THEN [s \in Rank |-> 0] ELSE @]]
          /\ p' = [r \in Rank |-> [p[r] EXCEPT ![n] =
                            IF r \in new THEN [s \in Rank |-> IF s = r THEN Scale ELSE 0] ELSE @]]
          /\ fresh' = [r \in Rank |-> [fresh[r] EXCEPT ![n] =
                            IF r \in new THEN [s \in Rank |-> FALSE] ELSE @]]
    /\ UNCHANGED <<python, last_handle, storage, with_p, bg, crashed, tensor, buffer, spin, held>>

FreeWindows ==
    /\ Everyone("free")
    /\ LET c == Head(queue[0]).call
           gone == IF "name" \in c.has THEN {c.name} ELSE Name
       IN /\ windows' = [r \in Rank |-> windows[r] \ gone]
          /\ Finish({r \in Rank : "name" \notin c.has \/ c.name \in windows[r]})
    /\ UNCHANGED <<python, last_handle, storage, with_p, bg, crashed, memory, mutexVars>>

-----------------------------------------------------------------------------
(* win_put, win_accumulate and win_get: the calls *)

Peers(c, r) == IF c.op = "get" THEN in_neighbor_ranks(r) ELSE out_neighbor_ranks(r)
\* By default every neighbor with weight 1.
Weights(c, r) == IF "weights" \in c.has THEN c.weights ELSE [s \in Peers(c, r) |-> Scale]
SelfWeight(c) == IF "self_weight" \in c.has THEN c.self_weight ELSE Scale

\* A rank that is no neighbor raises ValueError. win_get of a window whose device is
\* not known allocates a handle, and returns 0 in its place. A refused operation raises.
WinCommunicate(r) ==
    /\ \E op \in {"put", "accumulate", "get"} : Calls(r, op)
    /\ LET c == Call(r)
           refused == ~(DOMAIN Weights(c, r) \subseteq Peers(c, r))
           lost == c.op = "get" /\ c.name \notin storage[r].devices
           h == IF lost THEN 0 ELSE last_handle'[r]
       IN IF refused
          THEN Return(r) /\ UNCHANGED <<handle, win_handle_map, results, last_handle, queue>>
          ELSE /\ IF lost
                  THEN /\ last_handle' = [last_handle EXCEPT ![r] = @ + 1]
                       /\ results' = [results EXCEPT ![r] = Pending(@, last_handle'[r])]
                       /\ UNCHANGED queue
                  ELSE Enqueue(r)
               /\ IF suspended[r] /\ ~lost
                  THEN Return(r) /\ UNCHANGED <<handle, win_handle_map>>
                  ELSE /\ win_handle_map' = [win_handle_map EXCEPT ![r] = @ \cup {h}]
                       /\ IF c.blocking
                          THEN handle' = [handle EXCEPT ![r] = h] /\ GoTo(r, "wait")
                          ELSE Return(r) /\ UNCHANGED handle
    /\ UNCHANGED <<job, win_map, suspended, failed, storage, windows, with_p, bg, crashed, memory,
                   mutexVars>>

\* win_wait of the oldest handle. An unknown one is False at once, and the library
\* raises for one it does not know.
WinWait(r) ==
    /\ Calls(r, "wait")
    /\ IF win_handle_map[r] = {}
       THEN Return(r) /\ UNCHANGED handle
       ELSE /\ handle' = [handle EXCEPT ![r] = CHOOSE h \in win_handle_map[r] :
                                                  \A g \in win_handle_map[r] : h <= g]
            /\ GoTo(r, "wait")
    /\ UNCHANGED <<job, win_map, win_handle_map, suspended, failed, library, memory, mutexVars>>

WinWaited(r) ==
    /\ InCall(r, "wait")
    /\ \/ /\ handle[r] \notin DOMAIN results[r]
          /\ UNCHANGED <<results, win_handle_map>>
       \/ /\ Done(r)
          /\ ReleaseHandle(r)
          /\ win_handle_map' = [win_handle_map EXCEPT ![r] = @ \ {handle[r]}]
    /\ Return(r)
    /\ UNCHANGED <<job, handle, win_map, suspended, failed, last_handle, storage, windows, with_p,
                   queue, bg, crashed, memory, mutexVars>>

-----------------------------------------------------------------------------
(* MPIController::WinPut, WinAccumulate and WinGet, on the background thread *)

\* GetSortedDstWeights: the next ranks first. The order of src_weights, an
\* unordered_map, is left to StartOperation.
Distance(r, s) == IF s < r THEN s - r + Cardinality(Rank) ELSE s - r
Orders(r, c) ==
    LET to == DOMAIN Weights(c, r)
        all == {q \in [1 .. Cardinality(to) -> to] : \A s \in to : \E i \in DOMAIN q : q[i] = s}
    IN IF c.op = "get" THEN all
       ELSE {q \in all : \A i \in 1 .. Len(q) - 1 : Distance(r, q[i]) < Distance(r, q[i + 1])}

Operation(r) == Head(queue[r])
Running(r, where) == r \notin crashed /\ bg[r].at = where /\ Outside(Background(r))
\* The place after the last rank is the callback.
NextRank(r, ranks) ==
    bg' = [bg EXCEPT ![r] = [at |-> IF ranks = <<>> THEN "callback" ELSE "lock", ranks |-> ranks]]
BgAt(r, where) == bg' = [bg EXCEPT ![r].at = where]

\* A name that is not in named_win_map throws on this thread, which ends the process.
StartOperation(r) ==
    /\ Running(r, "idle")
    /\ queue[r] # <<>>
    /\ Operation(r).call.op \in {"put", "accumulate", "get"}
    /\ IF Operation(r).call.name \notin windows[r]
       THEN crashed' = crashed \cup {r} /\ UNCHANGED bg
       ELSE (\E q \in Orders(r, Operation(r).call) : NextRank(r, q)) /\ UNCHANGED crashed
    /\ UNCHANGED <<python, results, last_handle, storage, windows, with_p, queue, memory, mutexVars>>

\* require_mutex. A variant: the mutex is given back whether or not it was asked for.
ReleaseAlways(require_mutex, t, slots) == BeginRelease(t, slots)
ReleaseIf(require_mutex, t, slots) ==
    IF require_mutex THEN BeginRelease(t, slots) ELSE UNCHANGED mutexVars

SlotAt(r) == <<Operation(r).call.name, Head(bg[r].ranks), r>>

\* A variant: the mutex is not asked for.
LockTargetNever(r) ==
    /\ Running(r, "lock")
    /\ BgAt(r, "transfer")
    /\ UNCHANGED <<python, results, last_handle, storage, windows, with_p, queue, crashed, memory,
                   mutexVars>>
LockTarget(r) ==
    /\ Running(r, "lock")
    /\ IF Operation(r).call.mutex
       THEN BeginAcquire(Background(r), <<SlotAt(r)>>)
       ELSE UNCHANGED mutexVars
    /\ BgAt(r, "transfer")
    /\ UNCHANGED <<python, results, last_handle, storage, windows, with_p, queue, crashed, memory>>

\* MPI_Put and MPI_Accumulate into the target's buffer, MPI_Get from the target's tensor.
Transfer(r) ==
    /\ Running(r, "transfer")
    /\ LET c == Operation(r).call
           n == c.name
           to == Head(bg[r].ranks)
           sent == Times(tensor[r][n], Weights(c, r)[to])
       IN CASE c.op = "put" -> buffer' = [buffer EXCEPT ![to][n][r] = sent]
                               /\ fresh' = [fresh EXCEPT ![to][n][r] = TRUE]
            [] c.op = "accumulate" -> buffer' = [buffer EXCEPT ![to][n][r] = @ + sent]
                                      /\ UNCHANGED fresh
            [] OTHER -> buffer' = [buffer EXCEPT ![r][n][to] = tensor[to][n]]
                        /\ fresh' = [fresh EXCEPT ![r][n][to] = TRUE]
    /\ BgAt(r, "version")
    /\ UNCHANGED <<python, results, last_handle, storage, windows, with_p, queue, crashed,
                   tensor, version, p, mutexVars>>

\* WinVersionPutUpdate at the target, WinVersionGetUpdate here. An accumulate counts none.
UpdateVersion(r) ==
    /\ Running(r, "version")
    /\ LET c == Operation(r).call
           to == Head(bg[r].ranks)
       IN version' = CASE c.op = "put" -> [version EXCEPT ![to][c.name][r] = @ + 1]
                       [] c.op = "get" -> [version EXCEPT ![r][c.name][to] = @ + 1]
                       [] OTHER -> version
    /\ BgAt(r, "p")
    /\ UNCHANGED <<python, results, last_handle, storage, windows, with_p, queue, crashed,
                   tensor, buffer, p, fresh, mutexVars>>

\* win_ops_with_associated_p, which WinGet does not look at. The mutex is given back.
TransferP(r) ==
    /\ Running(r, "p")
    /\ LET c == Operation(r).call
           to == Head(bg[r].ranks)
           sent == Times(p[r][c.name][r], Weights(c, r)[to])
       IN p' = IF ~Operation(r).with_p \/ c.op = "get" THEN p
               ELSE [p EXCEPT ![to][c.name][r] = IF c.op = "put" THEN sent ELSE @ + sent]
    /\ ReleaseIf(Operation(r).call.mutex, Background(r), <<SlotAt(r)>>)
    /\ NextRank(r, Tail(bg[r].ranks))
    /\ UNCHANGED <<python, results, last_handle, storage, windows, with_p, queue, crashed,
                   tensor, buffer, version, fresh>>

\* The callback: the tensor (and p) is multiplied by self_weight after a put or an
\* accumulate; the fetched buffers by the src_weights. It is fatal to look these up when
\* the storage has forgotten them, and p while the rank is suspended.
Callback(r) ==
    /\ Running(r, "callback")
    /\ LET e == Operation(r)
           c == e.call
           n == c.name
           fatal == IF c.op = "get" THEN n \notin storage[r].tensors /\ DOMAIN Weights(c, r) # {}
                    ELSE e.with_p /\ suspended[r]
       IN IF fatal
          THEN crashed' = crashed \cup {r} /\ UNCHANGED <<results, queue, bg, tensor, buffer, p>>
          ELSE /\ results' = [results EXCEPT ![r][e.handle] = "ok"]
               /\ queue' = [queue EXCEPT ![r] = Tail(@)]
               /\ bg' = [bg EXCEPT ![r] = NoOperation]
               /\ IF c.op = "get"
                  THEN /\ buffer' = [buffer EXCEPT ![r][n] = [s \in Rank |->
                             IF s \in DOMAIN Weights(c, r) THEN Times(@[s], Weights(c, r)[s])
                             ELSE @[s]]]
                       /\ UNCHANGED <<tensor, p>>
                  ELSE /\ tensor' = [tensor EXCEPT ![r][n] = Times(@, SelfWeight(c))]
                       /\ p' = IF e.with_p THEN [p EXCEPT ![r][n][r] = Times(@, SelfWeight(c))]
                               ELSE p
                       /\ UNCHANGED buffer
               /\ UNCHANGED crashed
    /\ UNCHANGED <<python, last_handle, storage, windows, with_p, version, fresh, mutexVars>>

-----------------------------------------------------------------------------
(* win_update, win_update_then_collect: DoWinSync, on the user thread *)

UpdateArgs(r) ==
    LET c == Call(r)
        in == in_neighbor_ranks(r)
        given == {"self_weight", "weights"} \cap c.has
        recv == GetRecvWeights(Topo, r)
        each(w) == [s \in in |-> w]
    IN IF c.op = "collect"
       THEN [ok |-> TRUE, self |-> Scale, weights |-> each(Scale), average |-> TRUE, reset |-> TRUE]
       ELSE IF given # {}
       THEN [ok |-> Cardinality(given) = 2 /\ DOMAIN c.weights \subseteq in,
             self |-> c.self_weight, weights |-> c.weights, average |-> TRUE, reset |-> c.flag]
       ELSE IF TopoWeighted
       THEN [ok |-> TRUE, self |-> recv.self, weights |-> recv.neighbors, average |-> TRUE,
             reset |-> c.flag]
       ELSE [ok |-> TRUE, self |-> Scale \div (Cardinality(in) + 1),
             weights |-> each(Scale \div (Cardinality(in) + 1)), average |-> FALSE, reset |-> c.flag]

\* The slots of a call in some order: neighbor_weights is an unordered_map.
OwnSlots(r, n, ranks) ==
    {[i \in DOMAIN q |-> <<n, r, q[i]>>] :
        q \in {f \in [1 .. Cardinality(ranks) -> ranks] : \A s \in ranks : \E i \in DOMAIN f : f[i] = s}}

Updates(r, where) ==
    InCall(r, where) /\ Call(r).op \in {"update", "collect"}
UpdateStep(r) == UNCHANGED <<job, handle, win_map, win_handle_map, suspended, failed, library>>

\* KeyError, ValueError, or the mutexes of the own buffers that the weights name. DoWinSync
\* does not look whether a suspended rank was refused them, here and in the next steps.
WinUpdate(r) ==
    /\ Updates(r, "run")
    /\ LET c == Call(r)
           args == UpdateArgs(r)
       IN IF c.name \notin win_map[r] \/ ~args.ok
          THEN Return(r) /\ UNCHANGED mutexVars
          ELSE /\ GoTo(r, "sync")
               /\ IF c.mutex /\ ~suspended[r]
                  THEN \E q \in OwnSlots(r, c.name, DOMAIN args.weights) : BeginAcquire(User(r), q)
                  ELSE UNCHANGED mutexVars
    /\ UpdateStep(r)
    /\ UNCHANGED memory

\* WinSync: VersionWinClear, for all ranks.
WindowSync(r) ==
    /\ Updates(r, "sync")
    /\ version' = IF suspended[r] THEN version
                  ELSE [version EXCEPT ![r][Call(r).name] = [s \in Rank |-> 0]]
    /\ GoTo(r, "average")
    /\ UpdateStep(r)
    /\ UNCHANGED <<tensor, buffer, p, fresh, mutexVars>>

Weighed(own, others, args) ==
    LET part == [s \in DOMAIN args.weights |-> Times(others[s], args.weights[s])]
    IN Times(own, args.self) + SumOver(part)
Total(r, own, others) == own + SumOver([s \in in_neighbor_ranks(r) |-> others[s]])
Mean(r, own, others) == Total(r, own, others) \div (Cardinality(in_neighbor_ranks(r)) + 1)

\* AvgWithNeighbor or SumWithNeighbor, on the tensor or on a clone of it, and on p: p of a
\* suspended rank raises when the tensors are added, before they are divided.
Average(r) ==
    /\ Updates(r, "average")
    /\ LET c == Call(r)
           n == c.name
           args == UpdateArgs(r)
           raises == with_p[r] /\ suspended[r]
           new(own, others) == IF args.average THEN Weighed(own, others, args)
                               ELSE IF raises THEN Total(r, own, others)
                               ELSE Mean(r, own, others)
       IN /\ tensor' = IF c.clone THEN tensor
                       ELSE [tensor EXCEPT ![r][n] = new(@, buffer[r][n])]
          /\ p' = IF with_p[r] /\ ~raises THEN [p EXCEPT ![r][n][r] = new(@, p[r][n])] ELSE p
          /\ IF raises THEN Return(r) ELSE GoTo(r, "reset")
          /\ fresh' = [fresh EXCEPT ![r][n] = [s \in Rank |->
                           @[s] /\ args.average /\ s \notin DOMAIN args.weights]]
    /\ UpdateStep(r)
    /\ UNCHANGED <<buffer, version, mutexVars>>

Zeroed(others, ranks) == [s \in Rank |-> IF s \in ranks THEN 0 ELSE others[s]]
\* A variant: only the tensors are reset.
ResetPNot(r, n, args) == p
ResetP(r, n, args) ==
    IF args.reset /\ with_p[r] THEN [p EXCEPT ![r][n] = Zeroed(@, DOMAIN args.weights)] ELSE p

\* ResetNeighborTensor, and the mutexes are given back.
Reset(r) ==
    /\ Updates(r, "reset")
    /\ LET c == Call(r)
           n == c.name
           args == UpdateArgs(r)
       IN /\ buffer' = IF args.reset THEN [buffer EXCEPT ![r][n] = Zeroed(@, DOMAIN args.weights)]
                       ELSE buffer
          /\ p' = ResetP(r, n, args)
          /\ \E q \in OwnSlots(r, n, DOMAIN args.weights) : ReleaseIf(c.mutex /\ ~suspended[r], User(r), q)
    /\ Return(r)
    /\ UpdateStep(r)
    /\ UNCHANGED <<tensor, version, fresh>>

-----------------------------------------------------------------------------
(* win_mutex and the associated p *)

MutexSlots(c, r) ==
    LET out == SetToSortSeq(out_neighbor_ranks(r), <)
        ranks == IF "ranks" \in c.has THEN c.ranks ELSE out
    IN [i \in DOMAIN ranks |-> IF c.flag THEN <<c.name, r, ranks[i]>> ELSE <<c.name, ranks[i], r>>]

\* The call after the with block that begins at this one.
AfterBlock(r) == 1 + CHOOSE k \in pos[r] .. Len(job[r]) : BlockEnds(job[r], pos[r], k)

\* An unknown window or a suspended rank raises: the block is not entered, and at its end
\* nothing is given back.
HasMutex(r, n) == n \in storage[r].devices /\ n \in windows[r] /\ ~suspended[r]
EnterMutex(r) ==
    /\ Calls(r, "enter")
    /\ LET c == Call(r)
       IN IF HasMutex(r, c.name)
          THEN BeginAcquire(User(r), MutexSlots(c, r)) /\ Return(r)
          ELSE /\ pos' = [pos EXCEPT ![r] = AfterBlock(r)]
               /\ UNCHANGED <<pc, mutexVars>>
    /\ UpdateStep(r)
    /\ UNCHANGED memory

ExitMutex(r) ==
    /\ Calls(r, "exit")
    /\ IF HasMutex(r, Call(r).name) THEN BeginRelease(User(r), MutexSlots(Call(r), r))
       ELSE UNCHANGED mutexVars
    /\ Return(r)
    /\ UpdateStep(r)
    /\ UNCHANGED memory

SetAssociatedP(r) ==
    /\ Calls(r, "associated_p")
    /\ with_p' = [with_p EXCEPT ![r] = Call(r).flag]
    /\ Return(r)
    /\ UNCHANGED <<job, handle, win_map, win_handle_map, suspended, failed, results, last_handle,
                   storage, windows, queue, bg, crashed, memory, mutexVars>>

\* bluefog_suspend and bluefog_resume. The background thread only becomes slower.
SetSuspended(r) ==
    /\ \E op \in {"suspend", "resume"} : Calls(r, op)
    /\ suspended' = [suspended EXCEPT ![r] = Call(r).op = "suspend"]
    /\ Return(r)
    /\ UNCHANGED <<job, handle, win_map, win_handle_map, failed, library, memory, mutexVars>>

get_win_version(r, n) == [s \in in_neighbor_ranks(r) |-> version[r][n][s]]

-----------------------------------------------------------------------------
UserThread(r) ==
    \/ WinCreate(r) \/ WinFree(r) \/ WinCreated(r)
    \/ WinCommunicate(r) \/ WinWait(r) \/ WinWaited(r)
    \/ WinUpdate(r) \/ WindowSync(r) \/ Average(r) \/ Reset(r)
    \/ EnterMutex(r) \/ ExitMutex(r) \/ SetAssociatedP(r) \/ SetSuspended(r)

BackgroundThread(r) ==
    \/ StartOperation(r) \/ LockTarget(r) \/ Transfer(r) \/ UpdateVersion(r) \/ TransferP(r)
    \/ Callback(r)

Spin(t) ==
    /\ t[1] \notin crashed
    /\ FetchAndAdd(t) \/ Undo(t) \/ Drop(t)
    /\ UNCHANGED <<python, library, memory>>

\* The other ranks of a job cannot go on for ever without one.
Stopped == crashed # {} \/ \A r \in Rank : Ended(r)

Next ==
    \/ \E r \in Rank : UserThread(r) \/ BackgroundThread(r)
    \/ \E t \in Thread : Spin(t)
    \/ CreateWindows \/ FreeWindows
    \/ Stopped /\ UNCHANGED vars

\* The operating system runs every thread, and MPI completes a collective call that
\* all ranks have made.
Fairness ==
    /\ \A r \in Rank : WF_vars(UserThread(r)) /\ WF_vars(BackgroundThread(r))
    /\ \A t \in Thread : WF_vars(Spin(t))
    /\ WF_vars(CreateWindows \/ FreeWindows)

Spec == Init /\ [][Next]_vars /\ Fairness

-----------------------------------------------------------------------------
(* Properties *)

\* Positions are in the script, tensors, p, versions and mutexes never negative.
TypeOK ==
    /\ \A r \in Rank : pos[r] \in 1 .. Len(job[r]) + 1
    /\ pc \in [Rank -> {"run", "blocked", "wait", "sync", "average", "reset"}]
    /\ \A r \in Rank : DOMAIN results[r] \subseteq 1 .. last_handle[r]
    /\ \A r \in Rank : win_handle_map[r] \subseteq 0 .. last_handle[r]
    /\ \A r \in Rank : win_map[r] \cup windows[r] \cup failed[r] \subseteq Name
    /\ suspended \in [Rank -> BOOLEAN]
    /\ tensor \in [Rank -> [Name -> Nat]]
    /\ buffer \in [Rank -> [Name -> [Rank -> Nat]]]
    /\ version \in [Rank -> [Name -> [Rank -> Nat]]]
    /\ p \in [Rank -> [Name -> [Rank -> Nat]]]
    /\ \A r \in Rank : bg[r].at \in {"idle", "lock", "transfer", "version", "p", "callback"}
    /\ \A t \in Thread : spin[t].at \in {"out", "fetch", "undo", "drop"}
    /\ mutex \in [Slot -> Nat]
    /\ crashed \subseteq Rank

AllCalls == UNION {{job[r][i] : i \in DOMAIN job[r]} : r \in Rank}
OnWindow(n) == {c \in AllCalls : c.name = n /\ c.op # "exit"}

\* No rank is suspended: win_update of a suspended rank averages with no mutex, leaves the
\* versions alone and may raise half-way.
Undisturbed == \A c \in AllCalls : c.op # "suspend"

\* No operation is under way.
Quiet == \A r \in Rank : bg[r].at = "idle" /\ pc[r] # "reset"

\* In a job that accumulates shares which add up to 1 and collects, and asks for the mutex
\* each time, the sum of all tensors and buffers stays what it was: nothing sent is lost
\* between the reading of a buffer and its reset (DoWinSync, mpi_win_ops.cc:345-426), and
\* nothing counts twice (the callback of DoWinAccumulate scales what is kept).
Conserving(n) ==
    /\ Undisturbed
    /\ \A r \in Rank : \A i \in DOMAIN job[r] :
        LET c == job[r][i]
        IN c.name = n =>
             \/ c.op \in {"create", "associated_p", "enter", "exit", "free"}
             \/ c.op = "collect" /\ c.mutex
             \/ /\ c.op = "accumulate" /\ c.mutex /\ c.blocking
                /\ SelfWeight(c) + SumOver(Weights(c, r)) = Scale
MassConserved ==
    \A n \in Name :
        /\ Conserving(n) /\ Quiet
        /\ \A r \in Rank : n \in win_map[r]
        => LET created(r) == CHOOSE c \in {job[r][i] : i \in DOMAIN job[r]} :
                                c.op = "create" /\ c.name = n
               before(r) == created(r).value
                            * (IF created(r).flag THEN 1 ELSE 1 + Cardinality(in_neighbor_ranks(r)))
               now(r) == tensor[r][n] + SumOver(buffer[r][n])
           IN SumOver([r \in Rank |-> now(r)]) = SumOver([r \in Rank |-> before(r)])

\* p goes through what a tensor that starts as 1 goes through, as the correction of push-sum
\* needs: both are sent, kept and collected in the same proportions, although they move in
\* separate steps of two threads (mpi_controller.cc:953-1121, mpi_win_ops.cc:160-260).
Tracking(n) ==
    /\ Undisturbed
    /\ \A r \in Rank : job[r] # <<>> /\ job[r][1].op = "associated_p" /\ job[r][1].flag
    /\ \A c \in OnWindow(n) :
          \/ c.op \in {"associated_p", "free"}
          \/ c.op = "create" /\ c.value = Scale /\ c.flag
          \/ c.op \in {"put", "accumulate"} /\ c.mutex /\ c.blocking
          \/ c.op \in {"update", "collect"} /\ c.mutex /\ ~c.clone
PTracksTensor ==
    \A n \in Name : Tracking(n) /\ Quiet =>
        \A r \in Rank : n \in win_map[r] =>
            /\ p[r][n][r] = tensor[r][n]
            /\ \A s \in in_neighbor_ranks(r) : p[r][n][s] = buffer[r][n][s]

\* A version of 0 means that the tensor in the buffer has been read, another one that it has
\* not (get_win_version, mpi_ops.py:1288-1302), when puts and updates ask for the mutex,
\* updates take all neighbors, and nobody holds the mutex of the buffer.
Versioned(n) ==
    /\ Undisturbed
    /\ \A c \in OnWindow(n) :
        \/ c.op \notin {"put", "get", "update", "collect"}
        \/ c.op = "collect" /\ c.mutex
        \/ c.op = "update" /\ c.mutex /\ "weights" \notin c.has
        \/ c.op \in {"put", "get"} /\ c.mutex /\ c.blocking
VersionsMeanFresh ==
    \A n \in Name, r \in Rank :
        n \in windows[r] /\ Versioned(n) /\ Quiet =>
            \A s \in in_neighbor_ranks(r) :
                Holders(<<n, r, s>>) = {} => ((get_win_version(r, n)[s] > 0) <=> fresh[r][n][s])

\* Outside win_create and win_free, Python, the storage and the background thread know the
\* same windows (mpi_ops.py:939, mpi_win_ops.cc:428) except those whose win_create was refused
\* (operations.cc:1651), answered with an error (operations.cc:327) or whose win_free was
\* refused (operations.cc:1675). What Python knows the others do, even then, and win_free of
\* all windows makes the three agree again.
RegistriesAgree ==
    \A r \in Rank : pc[r] # "blocked" =>
        /\ win_map[r] \subseteq storage[r].tensors \cap windows[r]
        /\ (storage[r].tensors \cup windows[r]) \ win_map[r] \subseteq failed[r]

\* What is kept about windows in several places (Python, the storage, named_win_map) and
\* what the integers of their mutexes say of the threads fits together.
WindowsConsistent == TypeOK /\ RegistriesAgree /\ MutualExclusion /\ MutexCounts

\* The steps of both threads on the integers are those of WinMutex, for which mutual
\* exclusion is proved: in particular they give back only what they have taken.
UsesMutex == MutexSpec

\* Every call returns, unless two threads keep taking back their attempts at a mutex that is
\* free, or a process ends. Threads hold mutexes while they wait for others, and the
\* background thread of a rank waits on the same mutexes as its user thread.
Competing == \E s \in Slot :
    /\ Holders(s) = {}
    /\ Cardinality({t \in Thread : spin[t].at \in {"fetch", "undo"} /\ Head(spin[t].todo) = s}) > 1
CallsEnd == <>(\A r \in Rank : Ended(r)) \/ <>(crashed # {}) \/ []<>Competing
=============================================================================
