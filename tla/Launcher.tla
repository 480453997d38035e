------------------------------- MODULE Launcher -------------------------------
(***************************************************************************)
(* bfrun: the launcher's main thread with its driver service, the task     *)
(* processes it starts on every host, and the handshake by which they      *)
(* find the network interfaces that mpirun is to use (bluefog/run/run.py,  *)
(* network_util.py, horovod_driver.py and horovodrun/).                    *)
(*                                                                         *)
(*   main:    resolve host names, check ssh, start the tasks, wait for     *)
(*            them to register, tell each one, wait for their reports,     *)
(*            intersect the interfaces, exec mpirun;                       *)
(*   task t:  connect to the driver, register, wait to be told, ask for    *)
(*            the next task's addresses, probe them, report, signal the    *)
(*            next task, wait for the previous task's signal.              *)
(*                                                                         *)
(* Every call is a TCP exchange that can lose its request or its answer.   *)
(* If the connection breaks it is made again, so that a handler may run    *)
(* more than once; if nothing comes any more, the caller reads for ever.   *)
(* The deadline is a point in time fixed by main and shared by every wait  *)
(* on a condition, but not by these reads.                                 *)
(***************************************************************************)
EXTENDS Integers, Sequences, FiniteSets, SequencesExt

CONSTANTS
    MaxHosts,     \* bound on the host names on the command line
    Interfaces,   \* interface names, the same on every machine
    Setups,       \* the environments considered, see "Machines and routes"
    Retries,      \* BasicClient's retries (3)
    NextRetries,  \* the retries of the client for the next task (10)
    SSH_RETRIES   \* attempts to ssh to a host

ASSUME LauncherAssumption ==
    /\ MaxHosts \in Nat
    /\ \A s \in Setups : s.hosts \in 1..MaxHosts
    /\ {Retries, NextRetries, SSH_RETRIES} \subseteq Nat \ {0}
    /\ \A s \in Setups : {s.losses, s.crashes} \subseteq Nat
    /\ \A s \in Setups : s.nic \in Interfaces \cup {"none"}
    /\ "unset" \notin Interfaces

\* No client makes fewer attempts than the ones made with the default (3, 10
\* and 3 in the code).
ASSUME RetriesAssumption == Retries <= NextRetries /\ Retries <= SSH_RETRIES

VARIABLES
    setup,      \* the environment: see Init
    main,       \* where the launcher's main thread is
    remote,     \* remote_host_names
    turn,       \* the task main is building a client for, or notifying
    all,        \* the keys of _all_task_addresses
    forDriver,  \* _task_addresses_for_driver
    forTasks,   \* _task_addresses_for_tasks
    indices,    \* how often _task_host_hash_indices lists a task
    common,     \* common_intfs
    pc,         \* where each task is in _task_fn
    told,       \* _initial_registration_complete of each task service
    checked,    \* _task_to_task_address_check_completed of each
    client,     \* the RPC client each process is using
    expired,    \* the deadline has passed
    lost,       \* exchanges lost so far
    crashes     \* task processes that died so far

driverVars == <<all, forDriver, forTasks, indices>>
taskVars == <<told, checked>>
faultVars == <<expired, lost, crashes>>
vars == <<setup, main, remote, turn, driverVars, common, pc, taskVars, client,
          faultVars>>

\* num_hosts; a task for every host name, and the driver.
N == setup.hosts
Tasks == 0..N-1
Driver == MaxHosts
Clients == Tasks \cup {Driver}
Next1(t) == (t + 1) % N
Previous(t) == (t + N - 1) % N

-----------------------------------------------------------------------------
(***************************************************************************)
(* Machines and routes.  setup.local is the set of host names that really  *)
(* are this machine; setup.route[a][b][i] is what happens to a connection  *)
(* from machine a to the address of interface i of machine b: it is        *)
(* "refused", it reaches some "other" service, or it is accepted and seen  *)
(* to come from an interface of a, or from "nat", an address not of a.     *)
(* setup.hosts is the number of host names given, setup.nic the            *)
(* --network-interface option or "none", setup.openmpi whether Open MPI is *)
(* installed; setup.losses and setup.crashes bound the exchanges that are  *)
(* lost and the task processes that die.                                   *)
(***************************************************************************)
Here == MaxHosts
MachineOf(t) == IF t \in setup.local THEN Here ELSE t

\* _launch_task_servers runs a task here exactly when its name is not in
\* remote_host_names, and over ssh otherwise.
RunsOn(t) == IF t \in remote THEN MachineOf(t) ELSE Here
Where(c) == IF c = Driver THEN Here ELSE RunsOn(c)

Route(a, b, i) == setup.route[a][b][i]

Seen == Interfaces \cup {"nat"}

\* A variant of _probe_one without the match_intf check.
MutProbeNoMatch(a, b, i, match_intf) == Route(a, b, i) \in Seen

\* _probe_one: the ping was answered by the expected service and, with
\* match_intf, from the interface of the same name.
ProbeAccepts(a, b, i, match_intf) ==
    /\ Route(a, b, i) \in Seen
    /\ match_intf => Route(a, b, i) = i

\* A client with addresses still to probe and found, and no call under way.
Probing(todo, found) == [todo |-> todo, found |-> found, phase |-> "none", tries |-> 0]

Idle == Probing({}, <<>>)

NoAddress == {}
Unset == {"unset"}

Init ==
    /\ setup \in Setups
    /\ main = "resolve"
    /\ remote = {}
    /\ turn = 0
    /\ all = {}
    /\ forDriver = [t \in Tasks |-> Unset]
    /\ forTasks = [t \in Tasks |-> Unset]
    /\ indices = [t \in Tasks |-> 0]
    /\ common = {}
    /\ pc = [t \in Tasks |-> "new"]
    /\ told = [t \in Tasks |-> FALSE]
    /\ checked = [t \in Tasks |-> FALSE]
    /\ client = [c \in Clients |-> Idle]
    /\ expired = FALSE
    /\ lost = 0
    /\ crashes = 0

-----------------------------------------------------------------------------
(***************************************************************************)
(* Processes: a service accepts connections from the start of its process  *)
(* to shutdown(), which lets the running handlers write their answers.     *)
(***************************************************************************)
MainEnded == {"mpirun", "failed", "killed"}
DriverStates == {"waitRegistration", "waitingRegistration", "clients", "notify",
                 "waitUpdates", "waitingUpdates", "intersect"}
TaskEnded == {"done", "raised", "killed"}

\* The driver service lives from before the tasks are launched until the
\* "finally" of driver_fn.
Up(s) == IF s = Driver THEN main \in DriverStates
                       ELSE pc[s] \notin TaskEnded \cup {"new"}

\* A process that was killed takes its unsent answers with it.
Killed(s) == IF s = Driver THEN main = "killed" ELSE pc[s] = "killed"

\* The service a client talks to.
Server(c) ==
    CASE c = Driver -> turn
      [] c # Driver /\ pc[c] \in {"probe", "signal"} -> Next1(c)
      [] OTHER -> Driver

RetriesOf(c) == IF Server(c) \in Tasks /\ c # Driver THEN NextRetries ELSE Retries

\* The step a client's process is at, and its move to a new one.
Step(c) == IF c = Driver THEN main ELSE pc[c]

At(c, step) ==
    IF c = Driver THEN main' = step /\ UNCHANGED pc
                  ELSE pc' = [pc EXCEPT ![c] = step] /\ UNCHANGED main

\* An exception leaves driver_fn, and with it main, or _task_fn.
Raises(c) == At(c, IF c = Driver THEN "failed" ELSE "raised")

\* A new BasicClient for these addresses; a call about to be made, after so
\* many attempts.
Connecting(intfs) == Probing(intfs, <<>>)
Calling(found, tries) == [todo |-> {}, found |-> found, phase |-> "call", tries |-> tries]

\* The addresses still to probe that would be accepted.  The others end their
\* threads with nothing, which _probe's join waits for and nobody sees.
Answering(c) ==
    {i \in client[c].todo :
        /\ Step(c) \in {"clients", "connect", "probe"}
        /\ Up(Server(c))
        /\ ProbeAccepts(Where(c), Where(Server(c)), i, Step(c) = "probe")}

-----------------------------------------------------------------------------
(***************************************************************************)
(* main(), before and after driver_fn.                                     *)
(***************************************************************************)

\* filter_local_addresses: the resolved addresses come in the order in which
\* the lookups finished, and are paired with the names in command-line order.
Remote(order) == {t \in Tasks : order[t] \notin setup.local}

Orders == {f \in [Tasks -> Tasks] : \A s, t \in Tasks : f[s] = f[t] => s = t}

Resolve ==
    /\ main = "resolve"
    /\ \E order \in Orders : remote' = Remote(order)
    /\ main' = IF remote' = {} THEN "ready" ELSE "ssh"
    /\ UNCHANGED <<setup, turn, driverVars, common, pc, taskVars, client,
                   faultVars>>

\* check_all_hosts_ssh_successful: every remote host answers, possibly after
\* retries; a host that fails SSH_RETRIES times ends the launcher.  With
\* --network-interface the handshake is left out.
CheckSsh ==
    /\ main = "ssh"
    /\ IF setup.nic = "none"
       THEN main' = "waitRegistration" /\ UNCHANGED common
       ELSE main' = "ready" /\ common' = {setup.nic}
    /\ UNCHANGED <<setup, remote, turn, driverVars, pc, taskVars, client,
                   faultVars>>

SshFails ==
    /\ main = "ssh"
    /\ lost + SSH_RETRIES <= setup.losses
    /\ lost' = lost + SSH_RETRIES
    /\ main' = "failed"
    /\ UNCHANGED <<setup, remote, turn, driverVars, common, pc, taskVars,
                   client, expired, crashes>>

\* The end of main: the process becomes mpirun.
Exec ==
    /\ main = "ready"
    /\ main' = IF setup.openmpi THEN "mpirun" ELSE "failed"
    /\ UNCHANGED <<setup, remote, turn, driverVars, common, pc, taskVars,
                   client, faultVars>>

-----------------------------------------------------------------------------
(***************************************************************************)
(* A wait on the driver's or a task's condition: the first test is made    *)
(* before any timeout, but after a wakeup the deadline is checked before   *)
(* the condition is read again.                                            *)
(***************************************************************************)
Arrive(c, from, cond, waiting, to) ==
    /\ Step(c) = from
    /\ At(c, IF cond THEN to ELSE waiting)

\* A variant of the loop without check_time_out_for.
MutWake(c, waiting, cond, to) == Step(c) = waiting /\ cond /\ At(c, to)

Wake(c, waiting, cond, to) ==
    /\ Step(c) = waiting
    /\ \/ expired /\ Raises(c)
       \/ ~expired /\ cond /\ At(c, to)

AllRegistered == Cardinality(all) >= N
AllUpdated == Cardinality({t \in Tasks : forTasks[t] # Unset}) >= N

\* wait_for_initial_registration of the driver, then the first of the clients
\* that main builds for the tasks from task_addresses_for_driver.
WaitForRegistration ==
    /\ \/ Arrive(Driver, "waitRegistration", AllRegistered,
                 "waitingRegistration", "clients")
       \/ Wake(Driver, "waitingRegistration", AllRegistered, "clients")
    /\ client' = IF main' = "clients"
                 THEN [client EXCEPT ![Driver] = Connecting(forDriver[0])]
                 ELSE client
    /\ UNCHANGED <<setup, remote, turn, driverVars, common, taskVars, faultVars>>

\* The list of clients: one that reached no address raises, as does one made
\* from the None that _filter_by_ip returned.  Then the tasks are notified.
ClientBuilt ==
    /\ main = "clients"
    /\ Answering(Driver) = {}
    /\ \/ /\ client[Driver].found = <<>>
          /\ Raises(Driver)
          /\ UNCHANGED <<turn, client>>
       \/ /\ client[Driver].found # <<>>
          /\ turn' = Next1(turn)
          /\ main' = IF turn' = 0 THEN "notify" ELSE "clients"
          /\ client' = [client EXCEPT ![Driver] =
                IF turn' = 0 THEN Calling(<<>>, 0) ELSE Connecting(forDriver[turn'])]
          /\ UNCHANGED pc
    /\ UNCHANGED <<setup, remote, driverVars, common, taskVars, faultVars>>

WaitForUpdates ==
    /\ \/ Arrive(Driver, "waitUpdates", AllUpdated, "waitingUpdates", "intersect")
       \/ Wake(Driver, "waitingUpdates", AllUpdated, "intersect")
    /\ UNCHANGED <<setup, remote, turn, driverVars, common, taskVars, client,
                   faultVars>>

\* The interfaces on which every task was reached by its predecessor.
CommonInterfaces == {i \in Interfaces : \A t \in Tasks : i \in forTasks[t]}

Intersect ==
    /\ main = "intersect"
    /\ common' = CommonInterfaces
    /\ main' = IF common' = {} THEN "failed" ELSE "ready"
    /\ UNCHANGED <<setup, remote, turn, driverVars, pc, taskVars, client,
                   faultVars>>

-----------------------------------------------------------------------------
(***************************************************************************)
(* _task_fn.                                                               *)
(***************************************************************************)

\* _launch_task_servers starts one thread per task while main goes on; the
\* new process brings its service up and probes the driver.
Launch(t) ==
    /\ pc[t] = "new" /\ main \in DriverStates
    /\ pc' = [pc EXCEPT ![t] = "connect"]
    /\ client' = [client EXCEPT ![t] = Connecting(Interfaces)]
    /\ UNCHANGED <<setup, main, remote, turn, driverVars, common, taskVars,
                   faultVars>>

\* The constructor of the driver client, and of the client for the next task.
Connected(t) ==
    /\ pc[t] \in {"connect", "probe"}
    /\ Answering(t) = {}
    /\ \/ /\ client[t].found = <<>>
          /\ Raises(t)
          /\ client' = [client EXCEPT ![t] = Idle]
       \/ /\ client[t].found # <<>>
          /\ At(t, IF pc[t] = "connect" THEN "register" ELSE "report")
          /\ client' = [client EXCEPT ![t] = Calling(@.found, 0)]
    /\ UNCHANGED <<setup, remote, turn, driverVars, common, taskVars, faultVars>>

\* task.wait_for_initial_registration, then all_task_addresses(next).
WaitToBeTold(t) ==
    /\ \/ Arrive(t, "registered", told[t], "waitTold", "ask")
       \/ Wake(t, "waitTold", told[t], "ask")
    /\ client' = IF pc'[t] = "ask" THEN [client EXCEPT ![t] = Calling(@.found, 0)] ELSE client
    /\ UNCHANGED <<setup, remote, turn, driverVars, common, taskVars, faultVars>>

\* A variant of a task that leaves once it has sent its own signal.
MutWaitForSignal(t) ==
    /\ Arrive(t, "signalled", TRUE, "waitSignal", "done")
    /\ UNCHANGED <<setup, remote, turn, driverVars, common, taskVars, client,
                   faultVars>>

\* wait_for_task_to_task_address_check_finish_signal, then task.shutdown().
WaitForSignal(t) ==
    /\ \/ Arrive(t, "signalled", checked[t], "waitSignal", "done")
       \/ Wake(t, "waitSignal", checked[t], "done")
    /\ UNCHANGED <<setup, remote, turn, driverVars, common, taskVars, client,
                   faultVars>>

\* _exec_command: the thread of a task that ended with an exit code other
\* than 0 ends the whole launcher, if there still is one.
ExitLauncher(t) ==
    /\ pc[t] \in {"raised", "killed"}
    /\ main \notin MainEnded \cup {"resolve", "ssh"}
    /\ main' = "killed"
    /\ UNCHANGED <<setup, remote, turn, driverVars, common, pc, taskVars, client,
                   faultVars>>

-----------------------------------------------------------------------------
(***************************************************************************)
(* BasicClient: _probe, _send_one, and the services' _handle.              *)
(***************************************************************************)

\* The thread of _probe for one address that answers, with all its attempts:
\* it is answered, or lost every time.  Addresses are found in any order.
Probe(c) ==
    /\ \E i \in Answering(c) :
         /\ \/ /\ client' = [client EXCEPT ![c] = Probing(@.todo \ {i}, Append(@.found, i))]
               /\ UNCHANGED lost
            \/ /\ lost + RetriesOf(c) <= setup.losses
               /\ client' = [client EXCEPT ![c] = Probing(@.todo \ {i}, @.found)]
               /\ lost' = lost + RetriesOf(c)
    /\ UNCHANGED <<setup, main, remote, turn, driverVars, common, pc, taskVars,
                   expired, crashes>>

\* _filter_by_ip: the interface whose address the request came from.
FilterByIp(t) == LET seen == Route(RunsOn(t), Here, Head(client[t].found))
                 IN  IF seen \in Interfaces THEN {seen} ELSE NoAddress

\* The list of indices kept for a host hash: every request appends its index.
HostHashIndices(t) == [indices EXCEPT ![t] = @ + 1]

\* Each kind of request a service handles.
HandleRegisterTask(t) ==
    /\ all' = all \cup {t}
    /\ forDriver' = [forDriver EXCEPT ![t] = FilterByIp(t)]
    /\ indices' = HostHashIndices(t)
    /\ UNCHANGED <<forTasks, taskVars>>

HandleTaskToTaskAddresses(t) ==
    /\ forTasks' = [forTasks EXCEPT ![Next1(t)] = ToSet(client[t].found)]
    /\ UNCHANGED <<all, forDriver, indices, taskVars>>

HandleSignal(t) ==
    /\ checked' = [checked EXCEPT ![Next1(t)] = TRUE]
    /\ UNCHANGED <<driverVars, told>>

HandleNotify ==
    /\ told' = [told EXCEPT ![turn] = TRUE]
    /\ UNCHANGED <<driverVars, checked>>

\* AllTaskAddressesRequest only reads, and raises for a task not registered.
Answerable(c) == Step(c) = "ask" => Next1(c) \in all

Handle(c) ==
    \/ Step(c) = "register" /\ HandleRegisterTask(c)
    \/ Step(c) = "ask" /\ UNCHANGED <<driverVars, taskVars>>
    \/ Step(c) = "report" /\ HandleTaskToTaskAddresses(c)
    \/ Step(c) = "signal" /\ HandleSignal(c)
    \/ Step(c) = "notify" /\ HandleNotify

\* The request reaches the service, whose handler runs and sends its answer.
Deliver(c) ==
    /\ client[c].phase = "call"
    /\ Up(Server(c))
    /\ Answerable(c)
    /\ Handle(c)
    /\ client' = [client EXCEPT ![c].phase = "answered"]
    /\ UNCHANGED <<setup, main, remote, turn, common, pc, faultVars>>

\* Where a process goes once its call is answered.
AfterCall(t) ==
    CASE pc[t] = "register" -> "registered"
      [] pc[t] = "ask"      -> "probe"
      [] pc[t] = "report"   -> "signal"
      [] pc[t] = "signal"   -> "signalled"

\* The answer arrives.
Return(c) ==
    /\ client[c].phase = "answered"
    /\ \/ /\ c # Driver
          /\ At(c, AfterCall(c))
          /\ client' = [client EXCEPT ![c] =
                CASE pc[c] = "ask"    -> Connecting(Interfaces)
                  [] pc[c] = "report" -> Calling(@.found, 0)
                  [] pc[c] = "signal" -> Idle
                  [] OTHER            -> Probing({}, @.found)]
          /\ UNCHANGED turn
       \/ /\ c = Driver
          /\ turn' = Next1(turn)
          /\ main' = IF turn' = 0 THEN "waitUpdates" ELSE "notify"
          /\ client' = [client EXCEPT ![c] = IF turn' = 0 THEN Idle ELSE Calling(<<>>, 0)]
          /\ UNCHANGED pc
    /\ UNCHANGED <<setup, remote, driverVars, common, taskVars, faultVars>>

\* A variant without retries.
MutRetry(c) ==
    /\ client' = [client EXCEPT ![c] = Idle]
    /\ Raises(c)

\* An attempt of _send_one failed: try again, or raise after the last one.
Retry(c) ==
    \/ /\ client[c].tries + 1 < RetriesOf(c)
       /\ client' = [client EXCEPT ![c] = Calling(@.found, @.tries + 1)]
       /\ UNCHANGED <<main, pc>>
    \/ /\ client[c].tries + 1 >= RetriesOf(c)
       /\ client' = [client EXCEPT ![c] = Idle]
       /\ Raises(c)

\* The service is down, its handler raised, or it died before answering.
Refused(c) ==
    /\ \/ client[c].phase = "call" /\ ~(Up(Server(c)) /\ Answerable(c))
       \/ client[c].phase = "answered" /\ Killed(Server(c))
    /\ Retry(c)
    /\ UNCHANGED <<setup, remote, turn, driverVars, common, taskVars, faultVars>>

\* The connection breaks and takes the request with it, or the answer to a handled
\* request: connect, write or read raises an exception.
Lose(c) ==
    /\ client[c].phase \in {"call", "answered"}
    /\ lost < setup.losses
    /\ lost' = lost + 1
    /\ Retry(c)
    /\ UNCHANGED <<setup, remote, turn, driverVars, common, taskVars, expired,
                   crashes>>

\* The answer is lost, or the server's host with the request it has received, and the
\* client is not told.  The socket of _send_one has no timeout, unlike that of
\* _probe_one: the read does not return.
LoseSilently(c) ==
    /\ client[c].phase \in {"call", "answered"}
    /\ lost < setup.losses
    /\ lost' = lost + 1
    /\ client' = [client EXCEPT ![c].phase = "silent"]
    /\ UNCHANGED <<setup, main, remote, turn, driverVars, common, pc, taskVars, expired,
                   crashes>>

-----------------------------------------------------------------------------
(***************************************************************************)
(* The environment.                                                        *)
(***************************************************************************)
Running(c) == IF c = Driver THEN main \notin MainEnded
                            ELSE pc[c] \notin TaskEnded \cup {"new"}

\* The deadline of Timeout passes.
Expire ==
    /\ ~expired
    /\ main \in DriverStates \/ \E t \in Tasks : Running(t)
    /\ expired' = TRUE
    /\ UNCHANGED <<setup, main, remote, turn, driverVars, common, pc, taskVars,
                   client, lost, crashes>>

\* A task's process dies: by itself, or because the launcher has ended.
Crash(t) ==
    /\ Running(t)
    /\ \/ main \in MainEnded /\ UNCHANGED crashes
       \/ main \notin MainEnded /\ crashes < setup.crashes /\ crashes' = crashes + 1
    /\ pc' = [pc EXCEPT ![t] = "killed"]
    /\ client' = [client EXCEPT ![t] = Idle]
    /\ UNCHANGED <<setup, main, remote, turn, driverVars, common, taskVars,
                   expired, lost>>

MainStep ==
    \/ Resolve \/ CheckSsh \/ Exec
    \/ WaitForRegistration \/ ClientBuilt \/ WaitForUpdates \/ Intersect

TaskStep(t) ==
    /\ t \in Tasks
    /\ \/ Launch(t) \/ Connected(t) \/ WaitToBeTold(t) \/ WaitForSignal(t)
       \/ ExitLauncher(t)

ClientStep(c) ==
    /\ c \in Clients /\ Running(c)
    /\ (Probe(c) \/ Deliver(c) \/ Return(c) \/ Refused(c))

\* A process that reads an answer that will not come.
Hung(c) == client[c].phase = "silent"

\* Everything is over: no process runs but those that hang in a read, and the
\* launcher does so only if no task has failed and told it.
Ended ==
    /\ \A t \in Tasks : pc[t] \in TaskEnded \cup {"new"} \/ Hung(t)
    /\ \/ main \in MainEnded
       \/ Hung(Driver) /\ \A t \in Tasks : pc[t] \notin {"raised", "killed"}

Finish == Ended /\ UNCHANGED vars

Next ==
    \/ MainStep
    \/ SshFails
    \/ \E t \in Tasks : TaskStep(t) \/ Crash(t)
    \/ \E c \in Clients : ClientStep(c) \/ (Running(c) /\ (Lose(c) \/ LoseSilently(c)))
    \/ Expire
    \/ Finish

\* Threads are scheduled, exchanges that are not lost go through, and the
\* clock reaches the deadline.  Losing messages or processes is never forced.
Fairness ==
    /\ WF_vars(MainStep)
    /\ WF_vars(Expire)
    /\ \A t \in 0..MaxHosts-1 : WF_vars(TaskStep(t))
    /\ \A c \in 0..MaxHosts : WF_vars(ClientStep(c))

Spec == Init /\ [][Next]_vars /\ Fairness

-----------------------------------------------------------------------------
(***************************************************************************)
(* Properties.                                                             *)
(***************************************************************************)

\* The steps of main and of a task, and the states of an RPC client.
MainSteps == DriverStates \cup MainEnded \cup {"resolve", "ssh", "ready"}
TaskSteps == TaskEnded \cup {"new", "connect", "register", "registered", "waitTold",
                             "ask", "probe", "report", "signal", "signalled", "waitSignal"}
ClientRecords == [todo : SUBSET Interfaces, found : Seq(Interfaces),
                  phase : {"none", "call", "answered", "silent"},
                  tries : 0..NextRetries + Retries]

\* Every variable keeps its type.
TypeOK ==
    /\ setup \in Setups
    /\ main \in MainSteps
    /\ remote \subseteq Tasks
    /\ turn \in Tasks
    /\ all \subseteq Tasks
    /\ forDriver \in [Tasks -> (SUBSET Interfaces) \cup {Unset}]
    /\ forTasks \in [Tasks -> (SUBSET Interfaces) \cup {Unset}]
    /\ indices \in [Tasks -> Nat]
    /\ common \subseteq Interfaces
    /\ pc \in [Tasks -> TaskSteps]
    /\ told \in [Tasks -> BOOLEAN] /\ checked \in [Tasks -> BOOLEAN]
    /\ client \in [Clients -> ClientRecords]
    /\ expired \in BOOLEAN
    /\ lost \in 0..setup.losses /\ crashes \in 0..setup.crashes

\* Every name was classified as its address demands: the lookups finished in
\* an order that pairs local addresses with local names.
PairedRight == remote = Tasks \ setup.local

\* The interfaces that driver_fn gives to mpirun connect every host to the
\* next one in the ring, with the same interface at both ends: "only keeps
\* the routed interfaces" (driver_fn, horovod_driver.py).
InterfacesRouted ==
    (main = "mpirun" /\ remote # {} /\ setup.nic = "none") =>
        /\ common # {}
        /\ \A t \in Tasks, i \in common :
              Route(MachineOf(t), MachineOf(Next1(t)), i) = i

\* They do whenever the host names were classified correctly, whatever was
\* lost or repeated during the handshake.
RoutedIfPaired == PairedRight => InterfacesRouted

\* A task asks for, probes and reports on the next task only after main has
\* the addresses of all tasks, so that no request finds its task missing
\* from _all_task_addresses.
AskedWhenRegistered ==
    \A t \in Tasks :
        (told[t] \/ pc[t] \in {"ask", "probe", "report", "signal", "done"}) => all = Tasks

\* A task that ended well was probed and signalled by its predecessor, and
\* what that task found is in the driver's table: nobody's service goes away
\* while the previous task may still need it.
ServedThePrevious ==
    \A t \in Tasks :
        pc[t] = "done" =>
            /\ forTasks[t] \notin {Unset, {}}
            /\ Step(Previous(t)) \notin {"connect", "register", "ask", "probe", "report"}
            /\ Step(Previous(t)) = "signal" =>
                  client[Previous(t)].phase = "answered" \/ lost > 0

\* The driver's tables speak of the same tasks; an index is listed more than
\* once under its host hash only because an answer was lost and register_task
\* was sent again.
RegistryAgrees ==
    /\ \A t \in Tasks : (t \in all) = (forDriver[t] # Unset) /\ (t \in all) = (indices[t] > 0)
    /\ \A t \in Tasks : indices[t] <= 1 + lost

\* The processes carry out the handshake of driver_fn and _task_fn in its order,
\* whatever was lost or repeated.
HandshakeInOrder == TypeOK /\ AskedWhenRegistered /\ ServedThePrevious /\ RegistryAgrees

\* The hosts can do what the handshake needs of them: every task reaches the
\* driver and is reached by it at the address it called from, and some
\* interface leads from every host to the next.
Usable ==
    /\ setup.openmpi
    /\ \A t \in Tasks, i \in Interfaces :
          LET seen == Route(RunsOn(t), Here, i)
          IN  seen \in Seen =>
                 seen \in Interfaces /\ Route(Here, RunsOn(t), seen) \in Seen
    /\ \A t \in Tasks : \E i \in Interfaces : Route(RunsOn(t), Here, i) \in Seen
    /\ \E i \in Interfaces : \A t \in Tasks : Route(RunsOn(t), RunsOn(Next1(t)), i) = i

\* Some service has been shut down because its part is over.
SomeoneDone == main = "ready" \/ \E t \in Tasks : pc[t] = "done"

\* On usable hosts, before the deadline and while all processes live, a launch
\* fails only if as many exchanges were lost as a client makes attempts, or if
\* one was lost and a service is already gone.  The second case is real: the
\* last notification, the last report and every signal let the service that
\* handles them go away, so that when only the answer is lost the repeated
\* call is refused and ends the launch, even one that has its interfaces.
FailuresExplained ==
    [][(main' \in {"failed", "killed"} /\ main \notin MainEnded
            /\ Usable /\ ~expired /\ crashes = 0) =>
        lost' >= Retries \/ (lost > 0 /\ SomeoneDone)]_vars

\* Launching ends: main reaches mpirun or fails, and every task process ends
\* by itself even when nothing terminates it.  An answer that is lost without a
\* trace stops the process that reads it for ever, past the deadline (_send_one sets
\* no timeout), but no other: those that wait for what it would have done give up at
\* the deadline, and the failure of a task also ends a launcher that hangs.
LaunchEnds == <>Ended
=============================================================================
