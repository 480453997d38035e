# A verification project for Bluefog

Bluefog trains models on many processes ("ranks"). Every rank runs a *user
thread* (Python) and a *background thread* (C++); the background threads agree
on an order of MPI operations by a negotiation that rank 0 coordinates, and
execute them. On top of that a Python layer offers collective operations over a
virtual topology, one-sided windows with a mutex, and distributed optimizers;
`bfrun` starts the job. This directory holds TLA+ modules that model these
parts, the TLC configurations that check them on small instances, and TLAPS
proofs for all instances.

Paths below are relative to `src/bluefog/`; `operations.cc`, `tensor_queue.cc`,
`mpi_controller.cc`, `mpi_context.cc`, `message.h`, `common.h`, `global_state.h`,
`basics.py` and `topology_util.py` are in `common/`, `mpi_ops.py`,
`mpi_ops.cc`, `mpi_win_ops.cc` and `optimizers.py` in `torch/`.

## 1. The system

| Component | State | Operations | Talks to |
|---|---|---|---|
| User-thread API (`operations.cc`) | flags in `BluefogGlobalState`, two plain globals (`global_skip_negotiate_stage`, `global_background_thread_suspend`) | `EnqueueTensor*`, `bluefog_set_topology`, `SetSkipNegotiateStageState`, suspend/resume, shutdown, barrier, window sync/mutex/version calls | tensor queue (mutex), background thread (polled flags), MPI directly (graph creation, barrier, mutex) |
| Handle manager (`torch/handle_manager.cc`) | `results_`: handle to status | allocate, mark done, poll, release | callbacks of the background thread |
| Tensor queue (`tensor_queue.cc`) | `tensor_table_` (by message name), `message_queue_` | add, pop, entries of a response, entry of a request, finalize | both threads |
| Background thread (`operations.cc`) | locals of `RunLoopOnce` | one cycle: flags, pop, direct operations, negotiation, responses, pause | user thread, coordinator, MPI |
| Coordinator (`operations.cc`) | `message_table` | count requests, build and fuse responses, broadcast | all background threads |
| MPI controller and context | communicators, neighbor lists, `named_win_map`, window memory, versions, mutexes, associated p | the collective and one-sided operations | MPI |
| Python basics and operations (`basics.py`, `mpi_ops.py`, `mpi_ops.cc`) | cached topologies and weight flags, `_handle_map` | init, set_topology, collectives with their weights, poll/synchronize, barrier | user-thread API |
| Windows (`mpi_ops.py`, `mpi_win_ops.cc`) | `_win_map`, `_win_handle_map`, `WinTorchStorageManager` | create, free, put, accumulate, get, update, mutex, versions | user-thread API, background thread |
| Optimizers (`optimizers.py`, `torch/utility.py`) | per-parameter delay counters, handles, names | hooks, `synchronize`, `step`, `zero_grad` | operations, windows |
| Topology generators (`topology_util.py`) | none | static graphs, weights, dynamic send/receive lists | caller |
| Launcher (`run/`) | driver and task tables, deadline | resolve hosts, check ssh, register, notify, probe, report, signal, exec mpirun | TCP between hosts, ssh |
| NCCL controller (`nccl_controller.cc`, `nccl_win.cc`) | communicators, streams, passive window thread | GPU versions of the MPI controller | NCCL, MPI |
| Timeline, thread pool, logging | record queue, activity per tensor; work queue | start/end activity; execute | all |
| TensorFlow bindings | | a second front end | user-thread API |

What is hard here:

* *Two threads per rank* share flags and the tensor queue. The pause used to
  replace the topology is a hand-made protocol of three polled booleans.
* *All ranks must enter the same collective calls in the same order*, although
  they submit tensors in different orders, some never submit them, and one may
  ask for a shutdown or a new topology at any time. Rank 0 decides for all with
  what it knows: the requests, and the table entries of *its own* rank.
* *Leaving*: a shutdown has to reach every rank in one and the same cycle, and
  everything outstanding has to be called back.
* *Checks before actions*: shut-down and duplicate checks are made apart from
  what they protect.
* *Limits*: a fused operation has to fit the fusion buffer of every rank.
* *Caches*: Python keeps its own copy of the topology, of the windows and of the
  handles, changed before or after what it mirrors.
* *Passive targets*: a window is written by other ranks while its owner reads,
  averages and resets it; only a spin lock that callers may leave out helps.
* *Hooks*: an optimizer starts operations from callbacks of the backward pass,
  counted per parameter, and waits for them elsewhere.
* *An unreliable network* under the launcher: exchanges are lost and repeated,
  processes die, a deadline may pass at any point.

What makes each component right:

* negotiation: `CollectivesMatch`, `RequestAccounting`, `OutcomesAgree`,
  `ErrorsJustified`, `ReadyInTable`; fusion: `FusionSound`;
* tensor queue and handles: `HandleAccounting`, `HandlesComplete`;
* pause: `Handshake`, `ChangeOnlyWhenParked`, `CallsReturn`;
* shutdown: `ShutdownTogether`, `CallsReturn`; execution: `NoAbort`, `ReceivesServed`;
* Python operations: `CacheMatchesCommunicator`, `WeightsHonoured`,
  `HandlesConsistent`, `CallsPairUp`, `ScriptsEnd`;
* topology: `DynamicListsMatch`, `WeightsKeepTheMean`, `PeriodConnects`;
* windows: `ImplementsLock`, `UsesMutex`, `MassConserved`, `PTracksTensor`,
  `VersionsMeanFresh`, `WindowsConsistent`, `CallsEnd`;
* optimizers: `NoGradientLost`, `ReplicasAgree`, `CountersConsistent`,
  `InFlightUntouched`, `ScriptsEnd`;
* launcher: `RoutedIfPaired`, `HandshakeInOrder`, `FailuresExplained`, `LaunchEnds`.

`PROJECT.json` lists every component with what is modelled of it, and every
hazard with its line and the properties that cover it.

## 2. Modules

    Message  <-  GlobalState  <-  UserThread, Coordinator, BackgroundThread
                                       \        |        /
                                             Bluefog  <-  MCBluefog (TLC)
                                                      <-  TypeProofs  <-  NegotiationProofs (TLAPS)

    TopologyUtil  <-  Topology  <-  MCTopology;  TopologyProofs (TLAPS)
                  <-  TorchOps  <-  MCTorchOps;  TorchOpsProofs (TLAPS)
                  <-  Window    <-  MCWindow
    AtomicLock  (INSTANCE)  WinMutex  <-  Window
                                      <-  MutexProofs (TLAPS)
    Window, MutexProofs  <-  WindowProofs (TLAPS)
    Optimizer  <-  MCOptimizer;  OptimizerProofs (TLAPS)
    Launcher   <-  MCLauncher;  LauncherProofs (TLAPS)

### The negotiation

* **Message** (constant level). What an Enqueue call carries (`Op`), the
  `Request` made of it, the coordinator's checks, `ConstructResponse` and the
  fusion condition. A message name is a pair of the prefix that window
  operations add ("win_put.") and the name, because the code's duplicate check
  turns on the difference between the two.
* **GlobalState**. The variables: per rank the program counter and remaining
  calls of the user thread, the flags, the tensor queue, the locals of the
  background thread; the coordinator's table and lists; what is inside MPI.
  `status` is the handle manager, `issued` and `hist` are histories (the
  operation of each handle; the collective calls each rank has entered).
* **UserThread**. One action per call; a call that polls a flag is split where
  it waits (`mpc`): the Enqueue functions between the check of `shut_down` and
  `AddToTensorQueue`, `bluefog_set_topology` and `SetSkipNegotiateStageState`
  at each of their two waits and inside the collective graph creation, shutdown
  at `join()`.
* **Coordinator**. `NegotiateOfRequestOfMaster` up to the broadcast, one step
  per request counted and per response built or fused.
* **BackgroundThread**. `RunLoopOnce` and what follows the loop; `bpc` is the
  position in the cycle. An operation enters a collective call
  (`PerformDirect`, `PerformResponse`) and leaves it (`Complete`) in two steps.
* **Bluefog**. The job: `Init`, `Next`, fairness and all properties.

Variables keep the code's names (`tensor_table`, `message_queue`,
`setting_topology`, `ready_to_reduce`, ...). `skip` is
`global_skip_negotiate_stage`, `suspended` is `global_background_thread_suspend`,
`buffer` and `kept` are `message_queue_buffer` before and after `remove_if`,
`win` is the key set of `named_win_map`, `sources` the in-neighbors of the graph
communicator and `epoch` the number of times it was built.

Abstractions:

* Tensors are type, data type, device, shape and size in bytes; values are not
  modelled. Formatting of error messages, logging and the timeline are left out.
* MPI is external. The gather and the broadcast of a cycle are queues of one
  list per rank (`MPI_Gather` and `MPI_Gatherv` are one message). A collective
  call can be left when the ranks whose data it needs have entered their call of
  the same number; sends are buffered, so a root or a sender may leave early.
  Calls are paired by number, not by content: that they have the same content is
  what `CollectivesMatch` checks.
* An exception or failed assertion in the background thread (nothing there
  catches one) moves it to `aborted`, and the process takes no more steps.
* `global_skip_negotiate_stage` and `global_background_thread_suspend` are plain
  booleans shared by two threads. A read yields the last value written; every
  place that reads the flag reads it again, which includes the outcome of a
  compiler that reads it once for several places.
* Each rank has one user thread, with a program out of `Programs`. The program
  uses the C interface. An exception an API call raises is caught.
* The initial state is the one after `bluefog_init` on every rank.

### Topologies

* **TopologyUtil** (constant level). A graph is its weight matrix, with integer
  weights out of `Scale`; every graph of `topology_util.py`, `GetRecvWeights`,
  `GetSendWeights`, and the generators of dynamic lists as functions of rank and
  index (a generator yields its item for `index` 0, 1, ...).
* **Topology**. All ranks draw from their generator at the same index. `Period`
  is the least common multiple of the moduli that the generator takes.

### The Python interface

* **TorchOps**. `basics.py` and the collective operations of `mpi_ops.py`, with
  the argument checks, default weights, name and handle allocation of
  `mpi_ops.cc`. Each rank runs a script of calls; a call that raises is caught
  and the script goes on. A result is the function that gives every rank's
  coefficient out of `Scale`. The library is seen from above: operations with
  the same name on all ranks (with the negotiation skipped, the oldest ones)
  are performed together; `Bluefog` is the detailed view of that step.
* **Optimizer**. The five wrapper classes and their factories. A tensor is the
  *set of contributions* that went into it: `<<r, 0>>` is the initial value of
  rank r, `<<r, n>>` the gradient of its n-th backward pass; averaging and
  applying a gradient are unions. What matters is whose work is in a result, not
  with which factor. PyTorch (hooks before accumulation, in the order of the
  pass) is external; a nonblocking operation reads its tensor when it is
  performed, not when it is called; push-sum hands it a copy (`Copied`). Whether a
  torch optimizer has state when `broadcast_optimizer_state` asks is a free choice.

### Windows

* **WinMutex**. `MPIWinMutexAcquireImpl` and `ReleaseImpl`: an integer per
  window, owner and writer, taken by whoever adds one to 0; who finds another
  value takes its increment back and tries again. Each MPI call is one step.
* **AtomicLock**. What the mutex promises: a lock is taken and given back in one
  step, and only a free lock is taken.
* **Window**. Both threads of every rank over `WinMutex`: the user thread
  creates, frees, enqueues puts, accumulates and gets, updates (sync, average
  and reset in separate steps), enters and leaves `win_mutex`; the background
  thread goes through the targets of an operation one by one, with lock,
  transfer, version and associated p as separate steps. A tensor is one number,
  weights are out of `Scale`. A rank may suspend itself (`suspended`): what is
  then enqueued, taken or synchronised is refused, and each caller does with the
  refusal what it does in the code (`Block`, `WinCommunicate`, `WinUpdate`,
  `Average`, `EnterMutex`). `win_create` of tensors that differ is answered with
  an error (`SameShape`). Two histories: `fresh`, written and not averaged since,
  and `failed`, the windows whose creation or freeing failed.

### The launcher

* **Launcher**. The main thread of `bfrun` with its driver service, and a task
  process per host (`_task_fn`) with its task service. Every RPC is a TCP
  exchange whose request or answer can be lost. If the connection breaks (`Lose`)
  the call is made again, so that a handler may run more than once; if nothing
  comes any more (`LoseSilently`) the caller stays in the read of `_send_one`,
  which has no timeout (`Hung`). Networks are records (`Setups`): which host
  names are this machine, and for every pair of machines and every interface
  which address the target sees, or none. A task process may die at any step,
  and the deadline may pass at any time.

## 3. Runs

Every property of a passing run has a mutant in `PROJECT.json`: a definition of
the code replaced by a plausible slip (operators marked "variant" in the
modules), under which TLC finds the property violated.

| Run | Checks | Shows |
|---|---|---|
| `core` | `TypeOK`, `CollectivesMatch`, `RequestAccounting`, `HandleAccounting`, `ErrorsJustified`, `ReadyInTable`, `OutcomesAgree`, `NoAbort`, `FusionSound` | two ranks: tensors in any order, different shapes or types, one missing on a rank, early shutdown; all pairs of variants of an operation and of its types; three tensors of which two fit the fusion buffer, on ranks with equal neighborhoods, with a larger one on rank 0 and with a larger one on rank 1, and with lists that change on rank 1 only. The coordinator's checks are sound and refuse nothing that matches; what is fused fits and agrees on rank 0 and on every rank like it |
| `calls` | `Handshake`, `ChangeOnlyWhenParked`, `CallsReturn`, `HandlesComplete` | with fair threads everything ends, also when a rank never submits; set_topology, repeated at different paces and refused by a window; windows created, used, freed in three ways; a duplicate name; suspend; negotiation off and on |
| `three` | `ReceivesServed`, `ShutdownTogether` | three ranks: the dynamic topology check; a shutdown that finds the ranks at different points |
| `faulty` | `CollectivesMatch` | jobs that abort or block (section 6): up to the fault the collective calls match |
| `topology` | `DynamicListsMatch`, `WeightsKeepTheMean`, `PeriodConnects` | all graphs on 2 to 9 ranks, machine generators on 2 to 5 machines of 3 to 6 ranks, over whole periods: lists that ranks draw independently pair up, weights keep the mean, a period connects all |
| `torchops` | `CacheMatchesCommunicator`, `WeightsHonoured`, `HandlesConsistent`, `CallsPairUp`, `ScriptsEnd` | four ranks on two machines: static, weighted, dynamic, hierarchical and pairwise averages, with weights for all or some neighbors, before and after topology changes that succeed, are skipped or fail; nonblocking operations waited for in any order and twice; refused operations; both ways of `barrier()`; shutdown with operations outstanding |
| `window` | `MassConserved`, `PTracksTensor`, `VersionsMeanFresh`, `WindowsConsistent`, `ImplementsLock`, `UsesMutex`, `CallsEnd` | three ranks, two threads each: push-sum with associated p, put and average, versions, `win_mutex` blocks, `win_create` and `win_free` that are refused or answered with an error, calls of a suspended rank, calls that end the process |
| `optimizer` | `NoGradientLost`, `ReplicasAgree`, `CountersConsistent`, `InFlightUntouched`, `ScriptsEnd` | two ranks, every class in both documented usages (accumulation, local updates), evaluation passes, explicit `synchronize`, `force_barrier` as it is and as the user may set it, parameters only some ranks reach, misuses |
| `launcher` | `RoutedIfPaired`, `HandshakeInOrder`, `FailuresExplained`, `LaunchEnds` | up to three hosts; NAT, missing routes, an interface that answers elsewhere; exchanges lost with and without notice, a dying task, the deadline. Everything ends but a process whose own answer was lost without notice |

Properties that are conjunctions of named parts: `HandlesConsistent`, `CountersConsistent`,
`WindowsConsistent` and `HandshakeInOrder` join a module's type invariant with
`HandleMapsAgree`; `CommunicationEveryJ`; `RegistriesAgree`, `MutualExclusion`
and `MutexCounts`; `AskedWhenRegistered`, `ServedThePrevious` and
`RegistryAgrees`.

Runs in which TLC finds what the code's documentation says violated. Each is a
finding in `PROJECT.json`, with the line it quotes (section 5):

| Run | Violates | Because |
|---|---|---|
| `atc_accumulation` | `NoGradientLost` | the adapt-then-combine hook applies the gradient of the last pass only |
| `win_mutex_example` | `CallsEnd` | the example of `win_mutex` takes the mutexes of the other side and then waits for its own |
| `resolve_order` | `InterfacesRouted` | addresses are paired with host names in order of completion |

**Deadlock** is checked except in `faulty`, whose jobs may stop (a process
aborts, a call blocks). Elsewhere the only states without another successor are
the ends, which a stuttering disjunct of `Next` marks (`Terminating`, `Stopped`,
`Finish`).

**Bounds.** Programs and scripts are short sequences of calls; TLC explores
every interleaving, so two calls in flight per rank already bring every step of
a cycle between any two steps of another rank.

* Negotiation: 2 ranks (3 in `three`, where a rank that is neither coordinator
  nor the other party matters), 3 names, 2 data types, tensors of 8 bytes and a
  fusion buffer of 64 (32 in `core`, where its limit is the question), one
  machine. Names, shapes and sizes only matter by being equal or not, and by the
  limit. No counter needs a cap: programs are finite and message queues between
  ranks hold one list.
* `topology`: `Scale` is 2520, divisible by every degree and row sum that occurs
  on up to 9 ranks, so that no division rounds. Periods are complete, so the
  index needs no bound.
* `torchops`: 4 ranks are the smallest job with two machines of two ranks, and
  in which a ring differs from the complete graph. `Scale` is 240.
* `window`: 3 ranks, so that a buffer's owner, its writer and a third party
  exist and an owner has two buffers to lock in turn. `Scale` is 8, tensors are
  multiples for which no share rounds.
* `optimizer`: 2 ranks, 2 parameters, `num_steps_per_communication` 1 and 2, two
  rounds of each usage, so that counters are reset once.
* `launcher`: up to `MaxHosts` = 3 hosts (a ring in which next and previous
  differ), `Retries` 2 in place of 3, `NextRetries` 3 in place of 10,
  `SSH_RETRIES` 2; up to 2 losses or 1 crash. Two losses use up the retries of
  one client.

**Fairness.** Only weak fairness of threads is assumed, never of single actions:

* `Bluefog!FairSpec`: each user thread, each background thread and the
  coordinator's part of rank 0. They are kernel threads that poll and sleep,
  never hold a lock across a wait that another needs (the queue's mutex is held
  across the graph creation, while the background thread is parked and does not
  take it), and MPI makes progress.
* `TorchOps`, `Optimizer`: each Python process, and the library, which performs
  an operation that all ranks have started.
* `Window`: each thread, in the calls and in the loops of the mutex, and MPI's
  collective creation and freeing. Weak fairness does not exclude that two
  threads take back their attempts at a free mutex in turn for ever; `CallsEnd`
  names this exception (`Competing`).
* `Launcher`: the main thread, each task, each client, and the clock. Losses
  and crashes are never forced.

## 4. Proofs

Twenty-eight theorems in eight modules, about 22000 obligations, for every value of
the constants. What is assumed of the constants is named in the modules
(`ASSUME ...Assumption`), says what the arguments of a program are and what the
code asserts of them, and is evaluated by TLC in the runs. The safety part of a
specification is all that is used; fairness is not.

| Module | Theorem | States |
|---|---|---|
| TypeProofs | `TypeCorrect` | `Spec => []TypeOK` |
| | `ConstructAssertionHolds` | `Spec => []ReadyInTable` |
| | `PauseCorrect` | `Spec => []Handshake` |
| | `TopologyChangesWhenParked` | `Spec => ChangeOnlyWhenParked` |
| NegotiationProofs | `ShutdownAgreed` | `Spec /\ []Negotiating => []ShutdownTogether` |
| | `ShutdownAgreedSkipFree` | `Spec => []ShutdownTogether` if no program skips the negotiation |
| | `RequestsAccounted` | `Spec /\ []Negotiating /\ []NoOverlap => []RequestAccounting` |
| | `RequestsAccountedTensors` | `Spec => []RequestAccounting` if the programs work on tensors and do not skip |
| | `HandlesAccounted` | `Spec /\ []NoOverlap /\ []NoAbort => []HandleAccounting` |
| | `HandlesAccountedTensors` | the same without `NoOverlap` if the programs work on tensors |
| | `NoFault` | `Spec => [](NoAbort /\ HandleAccounting)` for sound programs |
| | `CallsMatch` | `Spec => []CollectivesMatch` for sound programs |
| TorchOpsProofs | `CacheCorrect` | `Spec => []CacheMatchesCommunicator` |
| | `HandlesCorrect` | `Spec => []HandlesConsistent` |
| TopologyProofs | `ListsAlwaysMatch` | `Spec => []DynamicListsMatch` |
| MutexProofs | `MutexIsExclusive` | `MutexSpec => [](MutexCounts /\ MutualExclusion)` |
| | `MutexImplementsLock` | `MutexSpec => ImplementsLock` |
| WindowProofs | `RegistriesCorrect` | `Spec => []RegistriesAgree` |
| | `VersionsCorrect` | `Spec /\ UsesMutex => []VersionsMeanFresh` |
| | `MutexUsed` | `Spec => UsesMutex` if no script has a `win_mutex` block |
| | `VersionsWithoutBlocks` | `Spec => []VersionsMeanFresh`, likewise |
| LauncherProofs | `HandshakeProved` | `Spec => []HandshakeInOrder` |
| | `RoutedProved` | `Spec => []RoutedIfPaired` |
| | `FailuresProved` | `Spec => FailuresExplained` |
| OptimizerProofs | `InFlightTensorsUntouched` | `Spec => InFlightUntouched` for orderly scripts |
| | `ReplicasStayTogether` | `Spec => [](ReplicatedJob => ReplicasAgree)` |
| | `CountersStayConsistent` | `Spec => []CountersConsistent` |
| | `GradientsAreKept` | `Spec => [](ApplyingJob /\ NobodyWarned => NoGradientLost)` |

**The negotiation**, for every number of ranks, every set of programs, names and
data types, every threshold and every topology (`SizeAssumption`,
`DTypeAssumption`, `LocalSizeAssumption`, `ThresholdAssumption`,
`Sources0Assumption`, `ProgramsAssumption`):

* **TypeProofs** (1538 obligations). `TypeOK` is not inductive; `IndInv` adds that a user
  thread inside a call has that call at the head of its program (`CallInv`), that
  a background thread inside a collective call has entries under way
  (`RunningInv`), that a fused response extends a response whose entry is in the
  coordinator's table (`FuseInv`), and `ReadyInTable` itself: a name becomes ready
  when its count *reaches* the number of ranks, the count never falls before it is
  answered, so the name is listed once and its requests stay in the table until
  `ConstructResponse` erases them.
  `Handshake` is inductive with the types of the six variables it speaks of
  (`PauseInv`). The argument: `ready_to_setting_topology` is set and reset by the
  steps that enter and leave "park", `setting_topology_done` by those that enter
  and leave "close", and the background thread leaves "park" only when `done` is
  set, that is, when the user thread is at "close" and not in the graph creation.
  The steps that change the communicator or turn the negotiation off start at
  "building" or need `ready_to_setting_topology`.
* **NegotiationProofs** (7414), in five parts that build on each other.
  - *Shutdown.* Each cycle is one round trip to rank 0. `ShutdownInv` says who can
    be where in it (`PlaceInv`), that at most one list is under way between a
    worker and the coordinator and the worker waits meanwhile (`GatherInv`,
    `BcastInv`, `CountedInv`), and that a worker which knows of the shutdown has
    told so: its list, then the coordinator's own flag, then the answer carries
    it. The flag can then be set after the exchange only if the answer told
    everybody (`FlagInv`), and only such a rank leaves (`LeftInv`). A rank that
    skips the negotiation leaves on its own flag, and the property is false of
    it: hence the hypothesis `Negotiating`, which `ShutdownAgreedSkipFree`
    derives from the programs.
  - *Accounting.* `AccountInv` counts, for a rank and a name, the requests and
    responses in the ten places where they can be; every step moves one from one
    place to the next. Two of the moves need more. A request is answered once
    because the requests of a rank stay in its own buffers (`OriginInv`) and a
    thread's buffers are empty outside the stages that use them (`StageInv`). A
    response stands for one request of *every* rank: it is built when there are
    as many requests as ranks (`IsReady`), by the count no rank has two, so each
    has one (`OneEach`, the pigeonhole principle). The two hypotheses are needed.
    With the negotiation switched off between the loops that convert and remove
    the local messages (`Negotiating`), a message is removed and never executed;
    and `emplace` drops an entry whose key is taken, which `AddToTensorQueue`
    does not notice for window operations because it checks another name
    (`NoOverlap`; section 6). Programs on tensors that do not skip have both.
  - *Handles.* `HandleInv` says the same of callbacks: a pending handle is with
    exactly one of the enqueue call, the table, the direct entries and the
    operation under way. It rests on the entries of a rank having different
    handles (`DistinctInv`), on nothing running outside the two stages that run
    something (`IdleInv`), and on what `status` records being final (`AnswerInv`). An
    exception in the background thread drops the entries it had taken: hence
    `NoAbort`.
  - *No fault.* `SoundProgram` is what the documentation asks of a program that
    works on tensors: no window operations, no `set_skip_negotiate_stage`, no
    suspend, a synchronize before shutdown, and a hierarchical
    neighbor_allreduce only with neighbors and more than one rank per machine.
    Without any of these a job can meet an exception (section 6). `WaitInv` then
    shows that at shutdown nothing is outstanding, `TensorInv` that only such
    operations travel, and the accounting that every response finds its entry,
    on the executing rank and in the coordinator's fusion loop. Most programs of
    `core` are of this kind.
  - *The same calls.* For sound programs the calls match. A rank may be ahead of
    another within one response list only: `PairInv` says, for every pair, that
    the responses the one that is ahead still has to execute are the last ones of
    the other, that it has made for each of those it has passed (errors excepted,
    which lead to no call) the very call that is due on the other, and that the two
    tables agree on the rest (`Follows`). That they agree comes from the
    coordinator: a request in its table says what the entry of its rank says
    (`LinkInv`, with the accounting: the entry cannot be replaced while its
    request travels), and requests that pass the checks of `ConstructResponse` stand
    for operations MPI cannot tell apart (`AgreedOp`); fusion keeps this
    (`DraftInv`). All use the same graph because it is replaced by all ranks
    together, with the background threads parked (`EpochInv`, `Handshake`).

**The Python interface**, for every number of ranks, layout on machines and set of
scripts (`JobsAssumption`: a script is a sequence of calls, and the graphs it
passes are on the ranks):

* **TorchOpsProofs** (583). `CacheInv`: the topology and the communicator are
  replaced in one step, when all ranks have entered `set_topology`, so that they
  agree inside the call as well. `HandleInv` relates, rank by rank, five
  structures: handles are numbered and none comes back (`Numbered`), what the
  library has to do is pending in both maps and in its queue once
  (`Outstanding`), and the maps differ by refused operations only (`Settled`).
* **TopologyProofs** (687). `JobsAssumption` is what the generators assert or
  need: at least two machines (also for the ring, which has no partner on one),
  as many ranks on each, more than two for the lists inside a machine, and for
  the one-peer generator an out-neighbor besides the rank itself. The distances
  are powers of two below the number of machines, so that a step forward and a
  step back modulo that number are inverse and never lead to oneself
  (`DistanceInRange`); a rank is a machine and a place on it (`DivisionExists`);
  inside a machine the ranks other than the one that sends outside are met by
  skipping one, on the sending and on the receiving side alike
  (`InnerOuterMatches`); a sorted list of neighbors has at each index exactly one
  rank (`Ranking`). The library's induction theorems cannot be instantiated here,
  so induction over numbers is done on *sets* of numbers: a nonempty set of
  naturals has a least element (`Least`, `NatSetInduction`).

**Windows**, for every finite set of ranks, every set of windows and scripts:

* **MutexProofs** (357; `MutexAssumption`). Exclusion alone is not inductive.
  `MutexInv` adds that the integer *equals* the number of holders plus the number
  of attempts not taken back (`MutexCounts`: whoever finds 0 is alone), and that
  what a thread is giving back it holds, each item once (`Dropping`: without it
  the integer would fall below its count). Each step of `MutexSpec` is then one
  `Acquire` or `Release` of `AtomicLock`, or none.
* **WindowProofs** (3804; `TopoAssumption`: ranks are 0 .. n; `JobsAssumption`:
  scripts are sequences of calls, and a with block that is entered is left).
  - `RegistriesCorrect` rests on `WinInv`: a call that creates or frees waits for
    the one entry of its kind, which is in the queue until its handle is done
    (`WaitsFor`), so that the collective step finds all ranks in the same call
    and the three registries differ by exactly its name until then
    (`Registering`), or by names that failed. `win_free()` without a name goes
    over what Python knows and still empties the other two; that is why
    `failed` is emptied then, and only then.
  - `VersionsCorrect` rests on `VersionInv`, which adds who has which mutex when
    (`HoldInv`) and, for a buffer, what is under way: version and history agree
    except between the transfer and the counting of a put or get
    (`PutPending`, `GetPending`) and between the clearing and the reading of an
    update (`Averaging`), and these never overlap, because the mutex keeps them apart
    (`Excluded`, from `MutualExclusion`). In scripts that are `Undisturbed` no rank
    is ever suspended (`CalmInv`), so no update goes without its mutex.
  - `MutexUsed` rests on `LeaveInv`: a thread has and takes only what its current
    operation asked for, it releases a list that names each of these once, and
    between operations has nothing or is giving it back. So every release is of
    what was taken, and when all ranks create a window all mutexes are at 0
    and new memory forgets none. Its hypothesis `WithoutBlocks` is that the
    scripts have no `win_mutex` blocks and that `SlotLists` is all lists of
    mutexes. With blocks the fact depends on the script: one that frees and
    creates a window inside a block on it ends the block by giving back a mutex
    of the new memory, which it does not hold.

The mutex is thus shown in three steps: both threads of `Window` use it as
`MutexSpec` allows (`UsesMutex`, proved without blocks, model-checked with
them); `MutexSpec` implements `AtomicLock` and excludes; exclusion makes the
versions right.

**The launcher**, for every number of hosts, every network, and any number of
losses, crashes and retries (`LauncherAssumption`; the names used for "no interface"
are no interfaces; `RetriesAssumption`: the default of 3 attempts is the smallest
number of attempts anything makes, the others being 10 and 3):

* **LauncherProofs** (3143). `IndInv` has a part per conjunct of the property.
  `PhaseInv` and `RegisteredInv`: a call is under way only at a step that makes
  one, and nobody is told before all are registered. `ServedInv`: a task that
  signals has reported, and one that was signalled has a predecessor that will
  not need it, *unless* an answer was lost and the signal is repeated.
  `RegistryInv`: an index is listed more often than once only if an answer was
  lost. `RouteInv`: what was found, reported and intersected is routed between the
  machines on which the tasks run, and these are fixed before the first is started.
  - `FailuresProved`, an action property, rests on `HealthInv`: while the launch is
    `Live` (usable hosts, no deadline, no crash) and the losses are no excuse,
    everyone is `Healthy`. A client has made no more attempts than exchanges were
    lost, and still has an address that answers or has found one
    (`ReachesDriver`); a task misses no interface that leads to the next one and
    reports them all (`FindsNext`), so that the intersection is not empty; and
    the service that a caller needs is up: the driver's because main is not ready
    before every report was answered, a task's because main has not told it yet,
    or because its predecessor has not signalled it (`NotRefused`). Without a
    loss no call is repeated; with one, nobody may have left yet, which is the
    second disjunct of the property and what makes the invariant inductive.

**The optimizers**, for every finite number of ranks and parameters, every topology,
`num_steps_per_communication` and set of scripts (`RankAssumption`,
`ParamAssumption`, `PeersAssumption`; `SetupsAssumption`: a class and a
communication that some factory combines; `LocalAssumption`: what the local-update
usage is):

* **OptimizerProofs** (4225). `TypeInv` has what a thread inside a call is doing
  and the bounds of the counts, `HandleInv` that outside `synchronize()` a parameter
  has a handle exactly when its count is used up. `Orderly` scripts do not exchange
  parameters between a pass and its step and skip `synchronize()` in a step only
  right after calling it; all scripts of the runs do so, the misuses included
  (`OrderlyJobs`, evaluated by TLC).
  - `CountersStayConsistent` needs no hypothesis: `LocalInv` ties the delay counter
    and the number of communications to the place in the round and to the number of
    steps divided by J; `EveryInv` does so for averaged gradients, once per step.
  - `InFlightTensorsUntouched`: a parameter with a handle is left alone, and
    push-sum's copy is still equal to it (`CopyInv`).
  - `ReplicasStayTogether` (the gradient class; orderly scripts that begin with
    `broadcast_parameters`): the operations on a parameter take place on all ranks
    together (`RoundsInv`), a rank that is a step ahead has exactly the result the
    other is about to apply (`StepsAligned`).
  - `GradientsAreKept`: from the pass to the step a gradient is in the tensor, in
    the result of the operation under way or in the windows (`GradInv`,
    `CollectedInv`, `StoredInv`). `AppliesAll`: a gradient is applied before it is
    cleared, and with adapt-then-combine there is a step after every pass (the
    finding of section 5 is what happens otherwise); `Heard`: for push-sum, somebody
    has the rank as neighbor; `NobodyWarned`: the optimizer has not printed its
    warning about a pass too many.

**Only model-checked:**

* liveness (`CallsReturn`, `HandlesComplete`, `ScriptsEnd`, `CallsEnd`,
  `LaunchEnds`) and anything with ENABLED: outside the prover's reach;
* properties that sum or count over sequences and functions by folds, for which
  the induction on sets of numbers would have to be repeated for every fold:
  `MassConserved`, `PTracksTensor`, `WeightsKeepTheMean`, `PeriodConnects`,
  `WeightsHonoured`, and of `WindowsConsistent` the part that tensors are naturals;
* `UsesMutex` for scripts with `win_mutex` blocks; `CollectivesMatch`, `NoAbort`
  and the two accountings for programs outside the hypotheses above (windows, the
  negotiation switched off and on, suspend);
* `OutcomesAgree` and `ErrorsJustified`, which number the uses of a name;
  `FusionSound`, which sums over a batch and numbers the uses of a name;
  `ReceivesServed`, which is true of the programs of its run and not of all (a fused
  operation uses the lists of its first tensor; section 6);
  `CallsPairUp`.

## 5. Findings

1. *Accumulation with adapt-then-combine* (`optimizers.py:579`). The hook runs
   before a gradient is accumulated into `p.grad`, and when its count reaches
   zero calls the step function with the gradient of that pass alone; `step()`
   then only synchronizes. With `num_steps_per_communication=J` and one step
   after J passes, J-1 gradients never reach the parameters, though the
   docstring shows this use ("Local accumulation of gradient without update model").
2. *The example of `win_mutex`* (`mpi_ops.py:1347-1351`). `win_mutex(name)` takes
   the mutexes of the rank's buffers *at its out-neighbors*, and
   `win_update_then_collect` inside the block takes those of the rank's *own*
   buffers. Neighbors that do so at the same time wait for each other.
3. *Order of lookups* (`run/network_util.py:118`). Host names are resolved by
   threads; the results are taken in order of completion and zipped with the
   names in command-line order. A remote host may be taken for local, its task is
   started here, and the interfaces found are not those of the host.

## 6. Deviations met while modelling

The models copy the code in all of these. The deviations under "Documented
otherwise" occur in the passing runs, and a property names each of them as a case
of its own and says what the code does in it. The scripts of the passing runs avoid
most of the others; `faulty` runs those of the negotiation that abort or block.

Documented otherwise:

* *What fits rank 0* (`operations.cc:967`). The coordinator decides what all ranks
  fuse, and counts the space of a `neighbor_allreduce` with its own number of
  in-neighbors. A rank that has more needs more than the `tensor_fusion_threshold`
  bytes its buffer has, and receives past the end. A star graph whose center is not
  rank 0, or a grid, whose corner rank 0 is, are enough. `env_variable.rst:31`: tensors
  are fused if that "doesnot exceed the threshold of fusion".
* *The lists of rank 0* (`operations.cc:988`). Two dynamic operations are fused if
  their lists are equal on rank 0; every rank then uses the lists of its first tensor
  for both, and the topology check looks at the first only. The comment at line 993:
  "These tensors will fuse together well". `FusionSound` is what remains true of both:
  rank 0's decision is right for rank 0, an overflow needs a rank with more
  in-neighbors than rank 0, different lists a rank whose lists change where those of
  rank 0 do not; type, data type and hierarchy agree everywhere. `core` has jobs in
  which either happens.
* *Weights for some of the neighbors* (`mpi_ops.py:471`). If the weights of a
  static `neighbor_allreduce` are all 1/(n+1) for the n neighbors they name,
  Python tells the library to average, and the library averages over all
  in-neighbors (`mpi_ops.cc:510-527`). The docstring (512) promises "the weighted
  average defined by these weights and the self_weight". The case `PartialAverage` of
  `WeightsHonoured`, job `PartialWeights`.
* *The same graph with weights* (`basics.py:324`). `set_topology` returns for a
  graph equal to the cached one before it looks at `is_weighted`. The docstring (302):
  "If set to true, the win_update and neighbor_allreduce will execute the weighted
  average instead". The case `Reweighted` of `WeightsHonoured`, job `SetTwice`.
* *Local updates with averaged gradients* (`optimizers.py:234`). `synchronize()` of
  this class starts an allreduce for every parameter without a handle, so all
  gradients are averaged at every step, whatever `num_steps_per_communication` is.
  The docstring (1414): "Allreducing happens at the last iteration".
  `CommunicationEveryJ` has it as a case of its own; the other classes keep to the
  last iteration.

Negotiation:

* The duplicate check looks up the *window's* name in a table keyed by message
  name: a second `win_put` on a window is accepted and its callback lost
  (`tensor_queue.cc:27`; `common.h:180` defines the error for this case).
* The request of a broadcast does not carry the root that
  `CheckRequestRootRank` compares (`operations.cc:1439`).
* `bluefog_set_topology` gives up on unfinished operations with the pause open;
  the other ranks wait in the graph creation (`operations.cc:1283`).
* The check of `shut_down` and the insertion into the queue are not one step: an
  entry added after the queue was finalized is never called back
  (`operations.cc:1464`).
* The fusion buffer is refused once `shut_down` is set, and that throws in the
  background thread, while responses of the last cycle are still executed
  (`mpi_controller.cc:1402`). For a dynamic operation with the topology check it throws
  after the check (`FusedShutdownPrograms` has both). The check and the exchange
  that follows are one step of `Complete`: a rank whose partner throws between them may
  be done here, and blocks in the code.
* Requests in the coordinator's table are stranded when the negotiation is turned off
  (`PendingSkipPrograms`).
* The wait for the pause does not look at `shut_down` (`AfterShutdownPrograms`).
* The fusion loop reads the tensor of a `win_free` entry, which has none
  (`FreeNextToAllreducePrograms`).

Python interface:

* Shutdown leaves the flags of weighted topologies.
* `isPowerOf` (`topology_util.py:94`) takes the exponent from a floating-point logarithm,
  which comes out one too small for some powers (243 with base 3): `ExponentialGraph`
  then misses an edge. The model's test is exact; no size of the run is affected.
* A name that one rank finds still in use and another does not puts the later uses of
  that name out of step, as does any refusal with the negotiation skipped: what is
  performed together is then not the same call. `CallsPairUp` promises that for
  operations without a name only, once something was refused.
* Handles of refused operations stay pending in the handle manager.
* A plain average is recognised by comparing weights in double precision that
  are then passed as `c_float`.

Optimizers:

* `DistributedPullGetOptimizer` raises TypeError: it passes an argument that the class
  does not take (1268).
* The push-sum hook stores what it sends under the short name (1101): the rank's
  own update survives only in what it sent. `NoGradientLost` therefore looks
  for push-sum gradients anywhere in the job.
* An explicit `synchronize` before a step of adapt-then-combine applies the result twice.

Windows:

* Two threads can take back their attempts at a free mutex in turn for ever.
* A put with `require_mutex` inside a `win_mutex` block for the same target, or a
  rank named twice in the list, waits for the thread's own mutex.
* `win_get` takes the mutex of (target, self) only; `win_accumulate` counts no
  version; clearing a version clears those of all neighbors; `clone=True`
  updates p but not the tensor.
* An operation on an unknown window ends the process; so does the callback of a
  get whose window was freed, and that of a put or accumulate with associated p
  if the rank was suspended meanwhile (`mpi_win_ops.cc:65`).
* `RegisterWinName` runs before the enqueue (`mpi_win_ops.cc:304`): when that is
  refused, or answered with an error, the name stays in the storage and a second
  `win_create` of it returns false; `win_free` of that name raises KeyError. A refused
  `win_free` leaves the window in `named_win_map` only, and the next `win_create`
  of the name fails. `win_free()` of all windows clears both.
* `DoWinSync` ignores the statuses of `WindowMutexAcquire` and `WindowSync`
  (`mpi_win_ops.cc:369`, `:372`): `win_update` of a suspended rank averages without
  the mutex and leaves the versions, and with associated p raises after the tensors
  were added. `MassConserved`, `PTracksTensor` and `VersionsMeanFresh` are about jobs
  that suspend no rank (`Undisturbed`).
* Without the mutex the callback of a put may scale the tensor while `win_update`
  averages it.
* `WinTorchStorageManager::ClearAll` keeps `device_map_`.

Launcher:

* The last notification, the last report and every signal let the service that
  handles them go away. When only the *answer* is lost, the repeated call is refused and
  the launch fails, although `network.py:155` relies on requests that can be
  repeated; `FailuresExplained` names this case.
* A repeated `register_task` lists the index twice under its host hash.
* `_send_one` sets no timeout on its socket, unlike `_probe_one`
  (`network.py:219`, `:191`): an answer that is lost without the connection breaking
  blocks its reader for ever, past the deadline. If it is the answer to the last
  notification, everybody else finishes and `bfrun` stays. `LaunchEnds` says that
  no other process is held up for ever, and that a failing task still ends the launcher.
* After a wakeup the deadline is checked before the condition; the deadline is
  an absolute time, sent to hosts with another clock.
* A middleman killed by a signal reports exit code 0; pipes leak between
  processes forked at the same time, against the comment at `horovod_driver.py:107`.
* `_filter_by_ip` returns nothing when no address matches, and the caller goes on.

## 7. Not modelled

* NCCL controller, thread pool (used by it only), CUDA and half precision: data
  path of the GPU runtime, compiled only with NCCL. The passive side of a NCCL
  window answers RETRY when its `try_lock` fails (`nccl_controller.cc:1166`); two
  ranks can refuse each other. It is not covered by any property.
* Timeline (only its Python warning flag is in `TorchOps`), logging: they write
  files and take no decision.
* TensorFlow bindings: a second front end to the same Enqueue functions.
* Wire format and pickling of messages: generated or one-to-one.
* Windows: `win_lock`, `win_fence`; `shutdown()` (it makes the same calls fail at the
  same places as `suspended`; `MPIContext::Finalize` also frees what is in
  `named_win_map`, and no window function works again); the order in which several windows are freed at
  once (one collective step in the model, in the code the iteration order of an
  unordered map).
* Launcher: parsing of arguments and host files, assembly of the mpirun command,
  scp, the command-running part of the task service, skew between clocks;
  `interactive_run.py` and `cache.py` (process control and files around ipyparallel).
* Optimizers: the arithmetic of the step functions; the ValueError for LBFGS and
  the broadcast of the torch optimizer's own state and options
  (`utility.py:94`, `:131-212`): no parameter or gradient depends on it here.
* Arithmetic on tensors, device memory, conversion of framework tensors.
* Several user threads on a rank; `CheckForStalledTensors` (logs only).

## 8. What is left of the plan

1. Proofs: `OutcomesAgree` and `ErrorsJustified` for sound programs, on top of
   `PairInv` with the number of uses of a name; `CallsMatch` with windows;
   `CallsPairUp` of `TorchOps` for ranks with the same script.
2. An abstract specification of the negotiation (the library step of `TorchOps`)
   and `Bluefog` shown to implement it.
3. **NcclWindow**: request, acknowledge, retry and done between the active and
   the passive side.
