--------------------------- MODULE LauncherProofs ---------------------------
(***************************************************************************)
(* The handshake of bfrun and the interfaces it chooses, proved for every  *)
(* number of hosts, every network, and any number of lost exchanges and    *)
(* dead processes; then, why a launch fails.                               *)
(***************************************************************************)
EXTENDS Launcher, SequenceTheorems, FiniteSetTheorems, TLAPS

\* A call is under way only at a step that makes one.
PhaseInv ==
    /\ \A t \in Tasks :
          client[t].phase # "none" => pc[t] \in {"register", "ask", "report", "signal"}
    /\ client[Driver].phase # "none" => main \in {"notify"} \cup MainEnded

\* main waits for all registrations before it tells anyone, and a task is
\* told before it asks.
RegisteredInv ==
    /\ main \in {"clients", "notify", "waitUpdates", "waitingUpdates", "intersect"}
          => all = Tasks
    /\ \A t \in Tasks :
          told[t] \/ pc[t] \in {"ask", "probe", "report", "signal", "signalled",
                                "waitSignal", "done"} => all = Tasks

\* The driver's table has what a task that reported has found.
Reported(t) == forTasks[t] \notin {Unset, {}}

\* A task that has sent its signal has reported before, and one that was
\* signalled has a predecessor that will not need it any more, unless it has
\* to repeat the signal.
Reports(t) ==
    /\ pc[t] = "report" => client[t].found # <<>>
    /\ (pc[t] = "report" /\ client[t].phase = "answered")
          \/ pc[t] \in {"signal", "signalled", "waitSignal", "done"}
          => Reported(Next1(t))

Signals(p, t) ==
    checked[t] =>
        /\ Reported(t)
        /\ pc[p] \in {"signal", "signalled", "waitSignal"} \cup TaskEnded
        /\ pc[p] = "signal" =>
              client[p].phase = "answered" \/ lost > 0 \/ pc[t] = "killed"

ServedInv ==
    /\ \A t \in Tasks : Reports(t)
    /\ \A p \in Tasks : Signals(p, Next1(p))
    /\ \A t \in Tasks : pc[t] = "done" => checked[t]

\* A task that is about to repeat register_task has lost an answer, or the
\* driver is gone.
RegistryInv ==
    /\ RegistryAgrees
    /\ \A t \in Tasks :
          /\ pc[t] \in {"new", "connect"} => indices[t] = 0
          /\ pc[t] = "register" /\ client[t].phase = "call" /\ main # "killed"
                => indices[t] <= lost

\* What was found, reported and intersected is routed between the machines on
\* which the tasks run; they are not chosen any more once a task was started.
Routed(t, I) == \A i \in I : Route(RunsOn(t), RunsOn(Next1(t)), i) = i

RouteInv ==
    /\ main \in {"resolve", "ssh"} => \A t \in Tasks : pc[t] = "new" /\ forTasks[t] = Unset
    /\ \A t \in Tasks :
          /\ pc[t] \in {"probe", "report"} => Routed(t, ToSet(client[t].found))
          /\ forTasks[Next1(t)] # Unset => Routed(t, forTasks[Next1(t)])
    /\ main \in {"ready", "mpirun"} /\ remote # {} /\ setup.nic = "none" =>
          common # {} /\ \A t \in Tasks : Routed(t, common)

IndInv ==
    TypeOK /\ PhaseInv /\ RegisteredInv /\ ServedInv /\ RegistryInv /\ RouteInv

-----------------------------------------------------------------------------
(* The ring of tasks *)

\* The successor and the predecessor of a task.
LEMMA Ring ==
    ASSUME TypeOK
    PROVE  /\ N \in Nat \ {0} /\ N <= MaxHosts /\ MaxHosts \in Nat
           /\ Driver \notin Tasks /\ 0 \in Tasks
           /\ \A t \in Tasks : /\ Next1(t) = IF t = N - 1 THEN 0 ELSE t + 1
                               /\ Previous(t) = IF t = 0 THEN N - 1 ELSE t - 1
<1>1. N \in Nat \ {0} /\ N <= MaxHosts /\ MaxHosts \in Nat
  BY LauncherAssumption DEF TypeOK, N
<1>2. Driver \notin Tasks /\ 0 \in Tasks
  BY <1>1 DEF Driver, Tasks
<1>3. ASSUME NEW t \in Tasks
      PROVE  Next1(t) = IF t = N - 1 THEN 0 ELSE t + 1
  <2>1. CASE t = N - 1
    BY <1>1, <2>1 DEF Next1
  <2>2. CASE t # N - 1
    <3>1. t + 1 \in 0..N-1
      BY <1>1, <2>2 DEF Tasks
    <3> QED
      BY <1>1, <2>2, <3>1 DEF Next1
  <2> QED
    BY <2>1, <2>2
<1>4. ASSUME NEW t \in Tasks
      PROVE  Previous(t) = IF t = 0 THEN N - 1 ELSE t - 1
  <2>1. CASE t = 0
    BY <1>1, <2>1 DEF Previous
  <2>2. CASE t # 0
    <3>1. t - 1 \in 0..N-1 /\ t + N - 1 = (t - 1) + N
      BY <1>1, <2>2 DEF Tasks
    <3>2. ((t - 1) + N) % N = t - 1
      BY <1>1, <3>1
    <3> QED
      BY <1>1, <2>2, <3>1, <3>2 DEF Previous
  <2> QED
    BY <2>1, <2>2
<1> QED
  BY <1>1, <1>2, <1>3, <1>4

\* Each is the inverse of the other.
LEMMA RingInverse ==
    ASSUME TypeOK
    PROVE  \A s, t \in Tasks : /\ Next1(t) \in Tasks /\ Previous(t) \in Tasks
                               /\ (s = Previous(t)) = (t = Next1(s))
BY Ring DEF Tasks

\* The environment does not change, and the ring with it.
LEMMA RingSame ==
    ASSUME UNCHANGED setup
    PROVE  /\ N' = N /\ Tasks' = Tasks /\ Clients' = Clients
           /\ \A t : Next1(t)' = Next1(t) /\ Previous(t)' = Previous(t)
BY DEF N, Tasks, Clients, Next1, Previous



\* The records that the actions make of a client.
LEMMA ClientUpdates ==
    /\ \A I \in SUBSET Interfaces, f \in Seq(Interfaces) : Probing(I, f) \in ClientRecords
    /\ \A I \in SUBSET Interfaces : Connecting(I) \in ClientRecords
    /\ Idle \in ClientRecords
    /\ \A f \in Seq(Interfaces), n \in 0 .. NextRetries + Retries :
          Calling(f, n) \in ClientRecords
    /\ \A f \in Seq(Interfaces) : Calling(f, 0) \in ClientRecords
    /\ Calling(<<>>, 0) \in ClientRecords
    /\ \A cl \in ClientRecords : cl.found \in Seq(Interfaces)
<1>1. NextRetries \in Nat /\ Retries \in Nat /\ <<>> \in Seq(Interfaces)
  BY LauncherAssumption, EmptySeq
<1> QED
  BY <1>1 DEF ClientRecords, Calling, Probing, Connecting, Idle

\* What every step may use: the ring does not change.
LEMMA Context ==
    ASSUME TypeOK, UNCHANGED setup
    PROVE  /\ N' = N /\ Tasks' = Tasks /\ Clients' = Clients
           /\ \A t \in Tasks : /\ t \in Clients /\ t # Driver
                               /\ client[t] \in ClientRecords
                               /\ Next1(t) \in Tasks /\ Next1(t)' = Next1(t)
           /\ Driver \in Clients /\ client[Driver] \in ClientRecords
<1>1. Tasks \subseteq Clients /\ Driver \in Clients
  BY DEF Clients
<1> QED
  BY <1>1, Ring, RingInverse, RingSame DEF TypeOK

\* All tasks are registered when as many are as there are tasks.
LEMMA Registered ==
    ASSUME TypeOK, AllRegistered
    PROVE  all = Tasks
<1>1. N \in Nat \ {0} /\ all \subseteq Tasks
  BY Ring DEF TypeOK
<1>2. IsFiniteSet(Tasks) /\ Cardinality(Tasks) = N
  BY <1>1, FS_Interval DEF Tasks
<1>3. IsFiniteSet(all) /\ Cardinality(all) <= Cardinality(Tasks)
         /\ (Cardinality(Tasks) = Cardinality(all) => Tasks = all)
  BY <1>1, <1>2, FS_Subset
<1>4. Cardinality(all) \in Nat
  BY <1>3, FS_CardinalityType
<1> QED
  BY <1>1, <1>2, <1>3, <1>4 DEF AllRegistered

\* Where a task runs, and what is routed from it, is settled by Resolve.
LEMMA RoutedSame ==
    ASSUME TypeOK, UNCHANGED <<setup, remote>>
    PROVE  \A t \in Tasks : \A I : Routed(t, I)' = Routed(t, I)
BY Context DEF Routed, RunsOn, Route, MachineOf

-----------------------------------------------------------------------------
(* The steps of main *)

LEMMA ResolveStep ==
    ASSUME IndInv, Resolve
    PROVE  IndInv'
<1>1. UNCHANGED <<setup, turn, all, forDriver, forTasks, indices, common, pc, told,
                  checked, client, expired, lost, crashes>>
  BY DEF Resolve, driverVars, taskVars, faultVars
<1>2. /\ main = "resolve" /\ remote' \subseteq Tasks
      /\ main' = IF remote' = {} THEN "ready" ELSE "ssh"
  BY DEF Resolve, Remote
<1>3. TypeOK
  BY DEF IndInv
<1>4. TypeOK'
  BY <1>1, <1>2, <1>3, Context DEF TypeOK, MainSteps
<1>5. PhaseInv' /\ RegisteredInv'
  BY <1>1, <1>2, <1>3, Context DEF IndInv, PhaseInv, RegisteredInv, MainEnded
<1>6. ServedInv'
  BY <1>1, <1>3, Context DEF IndInv, ServedInv, Reports, Signals, Reported
<1>7. RegistryInv'
  BY <1>1, <1>2, <1>3, Context DEF IndInv, RegistryInv, RegistryAgrees
<1>8. RouteInv'
  BY <1>1, <1>2, <1>3, Context DEF IndInv, RouteInv
<1> QED
  BY <1>4, <1>5, <1>6, <1>7, <1>8 DEF IndInv

\* A step that moves main and what only main has keeps the invariant when what
\* main promises at its new step holds.
LEMMA MainMoves ==
    ASSUME IndInv,
           UNCHANGED <<setup, remote, all, forDriver, forTasks, indices, pc, told,
                       checked, expired, crashes>>,
           main' \in MainSteps \ {"resolve", "ssh"}, turn' \in Tasks,
           common' \subseteq Interfaces, lost' \in lost..setup.losses,
           main = "killed" => main' = "killed",
           NEW cl \in ClientRecords, client' = [client EXCEPT ![Driver] = cl],
           cl.phase # "none" => main' \in {"notify"} \cup MainEnded,
           main' \in {"clients", "notify", "waitUpdates", "waitingUpdates", "intersect"}
              => all = Tasks,
           main' \in {"ready", "mpirun"} /\ remote # {} /\ setup.nic = "none" =>
              common' # {} /\ \A t \in Tasks : Routed(t, common')
    PROVE  IndInv'
<1>1. TypeOK /\ lost \in Nat /\ lost' \in Nat /\ lost' >= lost
  BY LauncherAssumption DEF IndInv, TypeOK
<1>2. lost' \in 0..setup.losses
  BY <1>1
<1>3. \A t \in Tasks : client'[t] = client[t]
  BY <1>1, Context DEF TypeOK
<1>4. client'[Driver] = cl /\ (client \in [Clients -> ClientRecords])'
  BY <1>1, Context DEF TypeOK
<1>5. TypeOK'
  BY <1>1, <1>2, <1>4, Context DEF TypeOK
<1>6. PhaseInv' /\ RegisteredInv'
  BY <1>1, <1>3, <1>4, Context DEF IndInv, PhaseInv, RegisteredInv
<1>7. ServedInv'
  BY <1>1, <1>3, Context DEF IndInv, ServedInv, Reports, Signals, Reported
<1>8. RegistryInv'
  <2>1. \A t \in Tasks : indices[t] \in Nat
    BY <1>1 DEF TypeOK
  <2> QED
    BY <1>1, <1>3, <2>1, Context DEF IndInv, RegistryInv, RegistryAgrees
<1>9. RouteInv'
  BY <1>1, <1>3, Context, RoutedSame DEF IndInv, RouteInv
<1> QED
  BY <1>5, <1>6, <1>7, <1>8, <1>9 DEF IndInv

\* A step of main that leaves its client alone.
LEMMA MainMovesAlone ==
    ASSUME IndInv,
           UNCHANGED <<setup, remote, turn, all, forDriver, forTasks, indices, pc, told,
                       checked, client, expired, crashes>>,
           main' \in MainSteps \ {"resolve", "ssh"},
           common' \subseteq Interfaces, lost' \in lost..setup.losses,
           main = "killed" => main' = "killed",
           main = "notify" => main' \in MainEnded, main \notin MainEnded \ {"killed"},
           main' \in {"clients", "notify", "waitUpdates", "waitingUpdates", "intersect"}
              => all = Tasks,
           main' \in {"ready", "mpirun"} /\ remote # {} /\ setup.nic = "none" =>
              common' # {} /\ \A t \in Tasks : Routed(t, common')
    PROVE  IndInv'
<1>1. TypeOK /\ turn' \in Tasks
  BY DEF IndInv, TypeOK
<1>2. client[Driver] \in ClientRecords /\ client' = [client EXCEPT ![Driver] = client[Driver]]
  BY <1>1, Context DEF TypeOK
<1>3. client[Driver].phase # "none" => main' \in {"notify"} \cup MainEnded
  BY DEF IndInv, PhaseInv, MainEnded
<1> QED
  BY <1>1, <1>2, <1>3, MainMoves

LEMMA CheckSshStep ==
    ASSUME IndInv, CheckSsh \/ SshFails
    PROVE  IndInv'
<1>1. UNCHANGED <<setup, remote, turn, all, forDriver, forTasks, indices, pc, told,
                  checked, client, expired, crashes>>
  BY DEF CheckSsh, SshFails, driverVars, taskVars, faultVars
<1>2. TypeOK /\ lost \in Nat /\ lost <= setup.losses /\ setup.losses \in Nat
  BY LauncherAssumption DEF IndInv, TypeOK
<1>3. lost' \in lost..setup.losses
  BY <1>2, LauncherAssumption DEF CheckSsh, SshFails, faultVars
<1>4. common' \subseteq Interfaces
  BY <1>2, LauncherAssumption DEF CheckSsh, SshFails, TypeOK
<1> QED
  BY <1>1, <1>3, <1>4, MainMovesAlone DEF CheckSsh, SshFails, MainSteps, MainEnded, DriverStates

LEMMA ExecStep ==
    ASSUME IndInv, Exec
    PROVE  IndInv'
<1>1. UNCHANGED <<setup, remote, turn, all, forDriver, forTasks, indices, pc, told,
                  checked, client, common, expired, lost, crashes>>
  BY DEF Exec, driverVars, taskVars, faultVars
<1>2. TypeOK /\ lost' \in lost..setup.losses /\ common' \subseteq Interfaces
  BY <1>1, LauncherAssumption DEF IndInv, TypeOK
<1>3. remote # {} /\ setup.nic = "none" =>
         common' # {} /\ \A t \in Tasks : Routed(t, common')
  BY <1>1 DEF IndInv, RouteInv, Exec
<1> QED
  BY <1>1, <1>2, <1>3, MainMovesAlone DEF Exec, MainSteps, MainEnded, DriverStates

LEMMA WaitForRegistrationStep ==
    ASSUME IndInv, WaitForRegistration
    PROVE  IndInv'
<1>1. UNCHANGED <<setup, remote, turn, all, forDriver, forTasks, indices, pc, told,
                  checked, common, expired, lost, crashes>>
  BY DEF WaitForRegistration, Arrive, Wake, Raises, At, driverVars, taskVars, faultVars
<1>2. TypeOK /\ lost' \in lost..setup.losses /\ common' \subseteq Interfaces /\ turn' \in Tasks
  BY <1>1, LauncherAssumption DEF IndInv, TypeOK
<1>3. /\ main \in {"waitRegistration", "waitingRegistration"}
      /\ main' \in {"waitingRegistration", "clients", "failed"}
      /\ main' = "clients" => AllRegistered
  BY DEF WaitForRegistration, Arrive, Wake, Raises, At, Step
<1>4. main' = "clients" => all = Tasks
  BY <1>2, <1>3, Registered
<1>5. CASE main' = "clients"
  <2>1. 0 \in Tasks /\ forDriver[0] # Unset
    BY <1>2, <1>4, <1>5, Ring DEF IndInv, RegistryInv, RegistryAgrees
  <2>2. Connecting(forDriver[0]) \in ClientRecords
    BY <1>2, <2>1, ClientUpdates DEF TypeOK
  <2>3. /\ client' = [client EXCEPT ![Driver] = Connecting(forDriver[0])]
        /\ Connecting(forDriver[0]).phase = "none"
    BY <1>5 DEF WaitForRegistration, Connecting, Probing
  <2> QED
    BY <1>1, <1>2, <1>3, <1>4, <1>5, <2>2, <2>3, MainMoves DEF MainSteps, DriverStates
<1>6. CASE main' # "clients"
  <2>1. client' = client
    BY <1>6 DEF WaitForRegistration
  <2> QED
    BY <1>1, <1>2, <1>3, <1>6, <2>1, MainMovesAlone DEF MainSteps, DriverStates, MainEnded
<1> QED
  BY <1>5, <1>6

LEMMA ClientBuiltStep ==
    ASSUME IndInv, ClientBuilt
    PROVE  IndInv'
<1>1. UNCHANGED <<setup, remote, all, forDriver, forTasks, indices, pc, told,
                  checked, common, expired, lost, crashes>>
  BY DEF ClientBuilt, Raises, At, driverVars, taskVars, faultVars
<1>2. /\ TypeOK /\ lost' \in lost..setup.losses /\ common' \subseteq Interfaces
      /\ main = "clients"
  BY <1>1, LauncherAssumption DEF IndInv, TypeOK, ClientBuilt
<1>3. all = Tasks
  BY <1>2 DEF IndInv, RegisteredInv
<1>4. CASE main' = "failed" /\ UNCHANGED <<turn, client>>
  BY <1>1, <1>2, <1>4, MainMovesAlone DEF MainSteps, DriverStates, MainEnded
<1>5. CASE /\ turn' = Next1(turn)
           /\ main' = IF turn' = 0 THEN "notify" ELSE "clients"
           /\ client' = [client EXCEPT ![Driver] =
                 IF turn' = 0 THEN Calling(<<>>, 0) ELSE Connecting(forDriver[turn'])]
  <2> DEFINE cl == IF turn' = 0 THEN Calling(<<>>, 0) ELSE Connecting(forDriver[turn'])
  <2>1. turn' \in Tasks
    BY <1>2, <1>5, RingInverse DEF TypeOK
  <2>2. forDriver[turn'] \in SUBSET Interfaces
    BY <1>2, <1>3, <2>1 DEF IndInv, RegistryInv, RegistryAgrees, TypeOK
  <2>3. cl \in ClientRecords
    BY <2>2, ClientUpdates
  <2>4. cl.phase # "none" => main' = "notify"
    BY <1>5 DEF Connecting, Probing
  <2> HIDE DEF cl
  <2>5. client' = [client EXCEPT ![Driver] = cl]
    BY <1>5 DEF cl
  <2> QED
    BY <1>1, <1>2, <1>3, <1>5, <2>1, <2>3, <2>4, <2>5, MainMoves DEF MainSteps, DriverStates
<1> QED
  BY <1>4, <1>5 DEF ClientBuilt, Raises, At

LEMMA WaitForUpdatesStep ==
    ASSUME IndInv, WaitForUpdates
    PROVE  IndInv'
<1>1. UNCHANGED <<setup, remote, turn, all, forDriver, forTasks, indices, pc, told,
                  checked, client, common, expired, lost, crashes>>
  BY DEF WaitForUpdates, Arrive, Wake, Raises, At, driverVars, taskVars, faultVars
<1>2. /\ main \in {"waitUpdates", "waitingUpdates"}
      /\ main' \in {"waitingUpdates", "intersect", "failed"}
  BY DEF WaitForUpdates, Arrive, Wake, Raises, At, Step
<1>3. TypeOK /\ lost' \in lost..setup.losses /\ common' \subseteq Interfaces
  BY <1>1, LauncherAssumption DEF IndInv, TypeOK
<1>4. all = Tasks
  BY <1>2 DEF IndInv, RegisteredInv
<1> QED
  BY <1>1, <1>2, <1>3, <1>4, MainMovesAlone DEF MainSteps, DriverStates, MainEnded

LEMMA IntersectStep ==
    ASSUME IndInv, Intersect
    PROVE  IndInv'
<1>1. UNCHANGED <<setup, remote, turn, all, forDriver, forTasks, indices, pc, told,
                  checked, client, expired, lost, crashes>>
  BY DEF Intersect, driverVars, taskVars, faultVars
<1>2. /\ main = "intersect" /\ common' = CommonInterfaces
      /\ main' = IF common' = {} THEN "failed" ELSE "ready"
  BY DEF Intersect
<1>3. TypeOK /\ lost' \in lost..setup.losses /\ common' \subseteq Interfaces
  BY <1>1, <1>2, LauncherAssumption DEF IndInv, TypeOK, CommonInterfaces
<1>4. ASSUME NEW t \in Tasks PROVE Routed(t, common')
  <2>1. \A i \in common' : i \in Interfaces /\ i \in forTasks[Next1(t)]
    BY <1>2, <1>3, RingInverse DEF CommonInterfaces
  <2>2. common' # {} => forTasks[Next1(t)] # Unset
    BY <2>1, LauncherAssumption DEF Unset
  <2>3. common' # {} => Routed(t, forTasks[Next1(t)])
    BY <2>2 DEF IndInv, RouteInv
  <2> QED
    BY <2>1, <2>3 DEF Routed
<1> QED
  BY <1>1, <1>2, <1>3, <1>4, MainMovesAlone DEF MainSteps, DriverStates, MainEnded

LEMMA ExitLauncherStep ==
    ASSUME IndInv, NEW t \in Tasks, ExitLauncher(t)
    PROVE  IndInv'
<1>1. UNCHANGED <<setup, remote, turn, all, forDriver, forTasks, indices, pc, told,
                  checked, client, common, expired, lost, crashes>>
  BY DEF ExitLauncher, driverVars, taskVars, faultVars
<1>2. TypeOK /\ lost' \in lost..setup.losses /\ common' \subseteq Interfaces
  BY <1>1, LauncherAssumption DEF IndInv, TypeOK
<1> QED
  BY <1>1, <1>2, MainMovesAlone DEF ExitLauncher, MainSteps, DriverStates, MainEnded

-----------------------------------------------------------------------------
(* The steps of a task *)

\* A step that moves a task and its client keeps the invariant when what the
\* task promises at its new step holds.
LEMMA TaskMoves ==
    ASSUME IndInv, NEW t \in Tasks, NEW s \in TaskSteps, NEW cl \in ClientRecords,
           pc' = [pc EXCEPT ![t] = s], client' = [client EXCEPT ![t] = cl],
           UNCHANGED <<setup, main, remote, turn, all, forDriver, forTasks, indices,
                       common, told, checked, expired>>,
           lost' \in lost..setup.losses, crashes' \in 0..setup.crashes,
           pc[t] \notin TaskEnded, main \notin {"resolve", "ssh"},
           cl.phase # "none" => s \in {"register", "ask", "report", "signal"},
           s \in {"ask", "probe", "report", "signal", "signalled", "waitSignal", "done"}
              => all = Tasks,
           Reports(t)', Signals(t, Next1(t))', s = "done" => checked[t],
           s \in {"new", "connect"} => indices[t] = 0,
           s = "register" /\ cl.phase = "call" /\ main # "killed" => indices[t] <= lost',
           s \in {"probe", "report"} => Routed(t, ToSet(cl.found))
    PROVE  IndInv'
<1>1. TypeOK /\ lost \in Nat /\ lost' \in Nat /\ lost' >= lost /\ lost' \in 0..setup.losses
  BY LauncherAssumption DEF IndInv, TypeOK
<1>2. /\ client'[t] = cl /\ pc'[t] = s
      /\ \A u \in Tasks \ {t} : client'[u] = client[u] /\ pc'[u] = pc[u]
      /\ client'[Driver] = client[Driver]
  BY <1>1, Context DEF TypeOK
<1>3. TypeOK'
  <2>1. (client \in [Clients -> ClientRecords])' /\ (pc \in [Tasks -> TaskSteps])'
    BY <1>1, Context DEF TypeOK
  <2> QED
    BY <1>1, <2>1, Context DEF TypeOK
<1>4. PhaseInv' /\ RegisteredInv'
  BY <1>1, <1>2, Context DEF IndInv, PhaseInv, RegisteredInv
<1>5. ServedInv'
  <2>1. ASSUME NEW u \in Tasks \ {t} PROVE Reports(u)' /\ Signals(u, Next1(u))'
    BY <1>1, <1>2, Context DEF IndInv, ServedInv, Reports, Signals, Reported, TaskEnded
  <2>2. \A u \in Tasks : (pc[u] = "done" => checked[u])'
    BY <1>2 DEF IndInv, ServedInv
  <2> QED
    BY <1>1, <2>1, <2>2, Context DEF ServedInv
<1>6. RegistryInv'
  <2>1. \A u \in Tasks : indices[u] \in Nat
    BY <1>1 DEF TypeOK
  <2> QED
    BY <1>1, <1>2, <2>1, Context DEF IndInv, RegistryInv, RegistryAgrees
<1>7. RouteInv'
  BY <1>1, <1>2, Context, RoutedSame DEF IndInv, RouteInv
<1> QED
  BY <1>3, <1>4, <1>5, <1>6, <1>7 DEF IndInv

\* What holds of a task that is under way.
LEMMA TaskUnderWay ==
    ASSUME IndInv, NEW t \in Tasks, UNCHANGED <<setup, lost, crashes>>
    PROVE  /\ TypeOK /\ t # Driver /\ t \in Clients /\ client[t] \in ClientRecords
           /\ lost' \in lost..setup.losses /\ crashes' \in 0..setup.crashes
           /\ pc[t] # "new" => main \notin {"resolve", "ssh"}
           /\ Reports(t) /\ Signals(t, Next1(t)) /\ Next1(t)' = Next1(t)
BY LauncherAssumption, Context DEF IndInv, TypeOK, RouteInv, ServedInv

LEMMA LaunchStep ==
    ASSUME IndInv, NEW t \in Tasks, Launch(t)
    PROVE  IndInv'
<1>1. UNCHANGED <<setup, main, remote, turn, all, forDriver, forTasks, indices, common,
                  told, checked, expired, lost, crashes>>
  BY DEF Launch, driverVars, taskVars, faultVars
<1>2. /\ pc[t] = "new" /\ main \notin {"resolve", "ssh"}
      /\ pc' = [pc EXCEPT ![t] = "connect"]
      /\ client' = [client EXCEPT ![t] = Connecting(Interfaces)]
      /\ Connecting(Interfaces) \in ClientRecords
      /\ Connecting(Interfaces).phase = "none"
  BY ClientUpdates DEF Launch, DriverStates, Connecting, Probing
<1>3. TypeOK /\ pc'[t] = "connect" /\ indices[t] = 0
  BY <1>2 DEF IndInv, TypeOK, RegistryInv
<1>4. Reports(t)' /\ Signals(t, Next1(t))'
  BY <1>1, <1>2, <1>3, TaskUnderWay DEF Reports, Signals, TaskEnded
<1> QED
  BY <1>1, <1>2, <1>3, <1>4, TaskUnderWay, TaskMoves DEF TaskSteps, TaskEnded

LEMMA ConnectedStep ==
    ASSUME IndInv, NEW t \in Tasks, Connected(t)
    PROVE  IndInv'
<1>1. UNCHANGED <<setup, main, remote, turn, all, forDriver, forTasks, indices, common,
                  told, checked, expired, lost, crashes>>
  BY TaskUnderWay, Context DEF IndInv, Connected, Raises, At, driverVars, taskVars, faultVars
<1>2. TypeOK /\ pc[t] \in {"connect", "probe"} /\ t # Driver
  BY <1>1, TaskUnderWay DEF Connected
<1>3. CASE /\ pc' = [pc EXCEPT ![t] = "raised"]
           /\ client' = [client EXCEPT ![t] = Idle]
  <2>1. pc'[t] = "raised" /\ Idle \in ClientRecords /\ Idle.phase = "none"
    BY <1>2, <1>3, ClientUpdates DEF TypeOK, Idle, Probing
  <2>2. Reports(t)' /\ Signals(t, Next1(t))'
    BY <1>1, <1>2, <2>1, TaskUnderWay DEF Reports, Signals, TaskEnded
  <2> QED
    BY <1>1, <1>2, <1>3, <2>1, <2>2, TaskUnderWay, TaskMoves DEF TaskSteps, TaskEnded
<1>4. CASE /\ client[t].found # <<>>
           /\ pc' = [pc EXCEPT ![t] = IF pc[t] = "connect" THEN "register" ELSE "report"]
           /\ client' = [client EXCEPT ![t] = Calling(@.found, 0)]
  <2> DEFINE cl == Calling(client[t].found, 0)
             s == IF pc[t] = "connect" THEN "register" ELSE "report"
  <2>1. cl \in ClientRecords /\ cl.phase = "call" /\ cl.found = client[t].found
    BY <1>1, ClientUpdates, TaskUnderWay DEF Calling
  <2> HIDE DEF cl
  <2>2. client' = [client EXCEPT ![t] = cl] /\ pc'[t] = s /\ client'[t] = cl
    BY <1>1, <1>2, <1>4, TaskUnderWay DEF TypeOK, cl
  <2>3. Reports(t)' /\ Signals(t, Next1(t))'
    BY <1>1, <1>2, <1>4, <2>1, <2>2, TaskUnderWay DEF Reports, Signals, TaskEnded
  <2>4. s = "report" => all = Tasks /\ Routed(t, ToSet(cl.found))
    BY <1>2, <2>1 DEF IndInv, RegisteredInv, RouteInv
  <2>5. s = "register" => indices[t] <= lost'
    BY <1>1, <1>2, LauncherAssumption DEF IndInv, RegistryInv, TypeOK
  <2> QED
    BY <1>1, <1>2, <1>4, <2>1, <2>2, <2>3, <2>4, <2>5, TaskUnderWay, TaskMoves
    DEF TaskSteps, TaskEnded
<1> QED
  BY <1>2, <1>3, <1>4 DEF Connected, Raises, At

LEMMA WaitToBeToldStep ==
    ASSUME IndInv, NEW t \in Tasks, WaitToBeTold(t)
    PROVE  IndInv'
<1>1. UNCHANGED <<setup, main, remote, turn, all, forDriver, forTasks, indices, common,
                  told, checked, expired, lost, crashes>>
  BY TaskUnderWay, Context DEF IndInv, WaitToBeTold, Arrive, Wake, Raises, At,
     driverVars, taskVars, faultVars
<1>2. TypeOK /\ t # Driver /\ client[t] \in ClientRecords /\ t \in Clients
  BY <1>1, TaskUnderWay
<1>3. PICK s \in {"waitTold", "ask", "raised"} :
         /\ pc[t] \in {"registered", "waitTold"} /\ pc' = [pc EXCEPT ![t] = s]
         /\ s = "ask" => told[t]
  BY <1>2 DEF WaitToBeTold, Arrive, Wake, Raises, At, Step
<1>4. pc'[t] = s /\ (s = "ask" => all = Tasks)
  BY <1>2, <1>3 DEF TypeOK, IndInv, RegisteredInv
<1> DEFINE cl == IF s = "ask" THEN Calling(client[t].found, 0) ELSE client[t]
<1>5. cl \in ClientRecords /\ (s # "ask" => cl.phase = "none")
  BY <1>2, <1>3, ClientUpdates DEF IndInv, PhaseInv
<1> HIDE DEF cl
<1>6. client' = [client EXCEPT ![t] = cl]
  BY <1>2, <1>4 DEF WaitToBeTold, TypeOK, cl
<1>7. Reports(t)' /\ Signals(t, Next1(t))'
  BY <1>1, <1>3, <1>4, TaskUnderWay DEF Reports, Signals, TaskEnded
<1> QED
  BY <1>1, <1>3, <1>4, <1>5, <1>6, <1>7, TaskUnderWay, TaskMoves DEF TaskSteps, TaskEnded

LEMMA WaitForSignalStep ==
    ASSUME IndInv, NEW t \in Tasks, WaitForSignal(t)
    PROVE  IndInv'
<1>1. UNCHANGED <<setup, main, remote, turn, all, forDriver, forTasks, indices, common,
                  told, checked, client, expired, lost, crashes>>
  BY TaskUnderWay, Context DEF IndInv, WaitForSignal, Arrive, Wake, Raises, At,
     driverVars, taskVars, faultVars
<1>2. TypeOK /\ t # Driver /\ client[t] \in ClientRecords /\ t \in Clients
  BY <1>1, TaskUnderWay
<1>3. PICK s \in {"waitSignal", "done", "raised"} :
         /\ pc[t] \in {"signalled", "waitSignal"} /\ pc' = [pc EXCEPT ![t] = s]
         /\ s = "done" => checked[t]
  BY <1>2 DEF WaitForSignal, Arrive, Wake, Raises, At, Step
<1>4. /\ pc'[t] = s /\ all = Tasks /\ client[t].phase = "none"
      /\ client' = [client EXCEPT ![t] = client[t]]
  BY <1>1, <1>2, <1>3 DEF TypeOK, IndInv, RegisteredInv, PhaseInv
<1>5. Reports(t)' /\ Signals(t, Next1(t))'
  <2>1. Reports(t)'
    BY <1>1, <1>3, <1>4, TaskUnderWay DEF Reports, Reported
  <2>2. Signals(t, Next1(t))'
    <3>1. checked[Next1(t)] => Reported(Next1(t))
      BY <1>1, TaskUnderWay DEF Signals
    <3> QED
      BY <1>1, <1>3, <1>4, <3>1, TaskUnderWay DEF Signals, Reported, TaskEnded
  <2> QED
    BY <2>1, <2>2
<1> QED
  BY <1>1, <1>2, <1>3, <1>4, <1>5, TaskUnderWay, TaskMoves DEF TaskSteps, TaskEnded

LEMMA CrashStep ==
    ASSUME IndInv, NEW t \in Tasks, Crash(t)
    PROVE  IndInv'
<1>1. UNCHANGED <<setup, main, remote, turn, all, forDriver, forTasks, indices, common,
                  told, checked, expired, lost>>
  BY DEF Crash, driverVars, taskVars
<1>2. TypeOK /\ setup.crashes \in Nat /\ lost' \in lost..setup.losses
  BY <1>1, LauncherAssumption DEF IndInv, TypeOK
<1>3. /\ pc[t] \notin TaskEnded \cup {"new"} /\ crashes' \in 0..setup.crashes
      /\ pc' = [pc EXCEPT ![t] = "killed"] /\ client' = [client EXCEPT ![t] = Idle]
  BY <1>2, Ring DEF Crash, Running, TypeOK
<1>4. /\ pc'[t] = "killed" /\ Idle \in ClientRecords /\ Idle.phase = "none"
      /\ main \notin {"resolve", "ssh"}
  BY <1>2, <1>3, ClientUpdates DEF TypeOK, Idle, Probing, IndInv, RouteInv
<1>5. Reports(t)'
  BY <1>4 DEF Reports
<1>6. Signals(t, Next1(t))'
  <2>1. checked[Next1(t)] => Reported(Next1(t))
    BY DEF IndInv, ServedInv, Signals
  <2> QED
    BY <1>1, <1>2, <1>4, <2>1, Context DEF Signals, Reported, TaskEnded
<1> QED
  BY <1>1, <1>2, <1>3, <1>4, <1>5, <1>6, TaskMoves DEF TaskSteps, TaskEnded

-----------------------------------------------------------------------------
(* The steps of the clients *)

\* The interfaces that a client has found.
LEMMA ToSetFound ==
    ASSUME NEW f \in Seq(Interfaces)
    PROVE  /\ ToSet(<<>>) = {} /\ ToSet(f) \subseteq Interfaces
           /\ f # <<>> => ToSet(f) # {}
<1>1. DOMAIN f = 1..Len(f) /\ Len(f) \in Nat /\ \A j \in 1..Len(f) : f[j] \in Interfaces
  BY LenProperties, ElementOfSeq
<1>2. ToSet(<<>>) = {} /\ ToSet(f) \subseteq Interfaces
  BY <1>1 DEF ToSet
<1>3. f # <<>> => 1 \in DOMAIN f
  BY <1>1, EmptySeq
<1> QED
  BY <1>2, <1>3 DEF ToSet

LEMMA ToSetAppend ==
    ASSUME NEW f \in Seq(Interfaces), NEW i \in Interfaces
    PROVE  Append(f, i) \in Seq(Interfaces) /\ ToSet(Append(f, i)) = ToSet(f) \cup {i}
<1>1. /\ Append(f, i) \in Seq(Interfaces) /\ Len(Append(f, i)) = Len(f) + 1
      /\ \A j \in 1..Len(f) : Append(f, i)[j] = f[j]
      /\ Append(f, i)[Len(f) + 1] = i
  BY AppendProperties
<1>2. DOMAIN f = 1..Len(f) /\ DOMAIN Append(f, i) = 1..(Len(f) + 1) /\ Len(f) \in Nat
  BY <1>1, LenProperties
<1> QED
  BY <1>1, <1>2 DEF ToSet

LEMMA ProbeStep ==
    ASSUME IndInv, NEW c \in Clients, Running(c), Probe(c)
    PROVE  IndInv'
<1>1. UNCHANGED <<setup, main, remote, turn, all, forDriver, forTasks, indices, common,
                  pc, told, checked, expired, crashes>>
  BY DEF Probe, driverVars, taskVars
<1>2. /\ TypeOK /\ client[c] \in ClientRecords /\ client[c].found \in Seq(Interfaces)
      /\ client[c].todo \subseteq Interfaces /\ lost \in Nat /\ setup.losses \in Nat
      /\ lost <= setup.losses /\ crashes' \in 0..setup.crashes
      /\ turn' \in Tasks /\ common' \subseteq Interfaces
  BY <1>1, LauncherAssumption DEF IndInv, TypeOK, ClientRecords
<1>3. RetriesOf(c) \in Nat
  BY LauncherAssumption DEF RetriesOf
<1>4. PICK i \in Answering(c) :
         \/ /\ client' = [client EXCEPT ![c] = Probing(@.todo \ {i}, Append(@.found, i))]
            /\ lost' = lost
         \/ /\ client' = [client EXCEPT ![c] = Probing(@.todo \ {i}, @.found)]
            /\ lost' = lost + RetriesOf(c) /\ lost' <= setup.losses
  BY DEF Probe
<1> DEFINE f == IF client' = [client EXCEPT ![c] = Probing(@.todo \ {i}, Append(@.found, i))]
                THEN Append(client[c].found, i)
                ELSE client[c].found
<1>a. /\ i \in Interfaces /\ f \in Seq(Interfaces) /\ lost' \in lost..setup.losses
      /\ client' = [client EXCEPT ![c] = Probing(client[c].todo \ {i}, f)]
      /\ ToSet(f) \subseteq ToSet(client[c].found) \cup {i}
  <2>1. i \in Interfaces
    BY <1>2 DEF Answering
  <2>2. /\ Append(client[c].found, i) \in Seq(Interfaces)
        /\ ToSet(Append(client[c].found, i)) = ToSet(client[c].found) \cup {i}
    BY <1>2, <2>1, ToSetAppend
  <2> QED
    BY <1>2, <1>3, <1>4, <2>1, <2>2
<1> HIDE DEF f
<1> DEFINE cl == Probing(client[c].todo \ {i}, f)
<1>5. cl \in ClientRecords /\ cl.phase = "none" /\ cl.found = f
  BY <1>2, <1>a, ClientUpdates DEF Probing
<1> HIDE DEF cl
<1>6. client' = [client EXCEPT ![c] = cl] /\ Step(c) \in {"clients", "connect", "probe"}
  BY <1>a DEF cl, Answering
<1>7. CASE c = Driver
  <2>1. main = "clients" /\ all = Tasks
    BY <1>2, <1>6, <1>7 DEF Step, IndInv, RegisteredInv, TypeOK, MainSteps, DriverStates, MainEnded
  <2> QED
    BY <1>1, <1>2, <1>a, <1>5, <1>6, <1>7, <2>1, MainMoves DEF MainSteps, DriverStates
<1>8. CASE c \in Tasks
  <2>1. /\ pc[c] \in {"connect", "probe"} /\ pc' = [pc EXCEPT ![c] = pc[c]] /\ pc'[c] = pc[c]
        /\ client'[c] = cl
    BY <1>1, <1>2, <1>6, <1>8, Context DEF Step, TypeOK, TaskSteps, TaskEnded
  <2>2. Reports(c)' /\ Signals(c, Next1(c))'
    BY <1>1, <1>2, <1>8, <2>1, Context DEF IndInv, ServedInv, Reports, Signals, TaskEnded
  <2>3. ASSUME pc[c] = "probe" PROVE all = Tasks /\ Routed(c, ToSet(cl.found))
    <3>1. all = Tasks /\ Routed(c, ToSet(client[c].found))
      BY <1>8, <2>3 DEF IndInv, RegisteredInv, RouteInv
    <3>2. Route(RunsOn(c), RunsOn(Next1(c)), i) = i
      BY <1>1, <1>2, <1>8, <2>3, Context
      DEF Answering, ProbeAccepts, Step, Where, Server
    <3> QED
      BY <1>a, <1>5, <3>1, <3>2 DEF Routed
  <2>4. /\ main \notin {"resolve", "ssh"}
        /\ pc[c] = "connect" => indices[c] = 0
    BY <1>8, <2>1 DEF IndInv, RouteInv, RegistryInv
  <2> QED
    BY <1>1, <1>2, <1>a, <1>5, <1>6, <1>8, <2>1, <2>2, <2>3, <2>4, TaskMoves
    DEF TaskSteps, TaskEnded
<1> QED
  BY <1>7, <1>8 DEF Clients

LEMMA ReturnStep ==
    ASSUME IndInv, NEW c \in Clients, Running(c), Return(c)
    PROVE  IndInv'
<1>1. UNCHANGED <<setup, remote, all, forDriver, forTasks, indices, common, told,
                  checked, expired, lost, crashes>>
  BY DEF Return, driverVars, taskVars, faultVars
<1>2. /\ TypeOK /\ client[c] \in ClientRecords /\ client[c].found \in Seq(Interfaces)
      /\ lost' \in lost..setup.losses /\ crashes' \in 0..setup.crashes
      /\ common' \subseteq Interfaces /\ client[c].phase = "answered"
  <2>1. TypeOK /\ client[c].phase = "answered"
    BY DEF IndInv, Return
  <2>2. client[c] \in ClientRecords /\ client[c].found \in Seq(Interfaces)
    BY <2>1 DEF TypeOK, ClientRecords
  <2>3. /\ lost' \in lost..setup.losses /\ crashes' \in 0..setup.crashes
        /\ common' \subseteq Interfaces
    BY <1>1, <2>1, LauncherAssumption DEF TypeOK
  <2> QED
    BY <2>1, <2>2, <2>3
<1>3. CASE c = Driver
  <2>1. main = "notify" /\ all = Tasks
    BY <1>2, <1>3 DEF IndInv, PhaseInv, RegisteredInv, Running
  <2> DEFINE cl == IF turn' = 0 THEN Idle ELSE Calling(<<>>, 0)
  <2>2. /\ turn' = Next1(turn) /\ turn' \in Tasks /\ pc' = pc
        /\ main' = IF turn' = 0 THEN "waitUpdates" ELSE "notify"
        /\ client' = [client EXCEPT ![c] = cl]
    BY <1>2, <1>3, RingInverse DEF Return, TypeOK
  <2>3. cl \in ClientRecords /\ (main' # "notify" => cl.phase = "none")
    BY <2>2, ClientUpdates DEF Idle, Probing
  <2> HIDE DEF cl
  <2> QED
    BY <1>1, <1>2, <1>3, <2>1, <2>2, <2>3, MainMoves DEF MainSteps, DriverStates
<1>4. CASE c \in Tasks
  <2>1. /\ pc[c] \in {"register", "ask", "report", "signal"} /\ c # Driver
        /\ main \notin {"resolve", "ssh"}
        /\ pc[c] # "register" => all = Tasks
    BY <1>2, <1>4, Ring DEF IndInv, PhaseInv, RouteInv, RegisteredInv
  <2> DEFINE cl == CASE pc[c] = "ask"    -> Connecting(Interfaces)
                     [] pc[c] = "report" -> Calling(client[c].found, 0)
                     [] pc[c] = "signal" -> Idle
                     [] OTHER            -> Probing({}, client[c].found)
             s == AfterCall(c)
  <2>2. cl \in ClientRecords
    BY <1>2, <2>1, ClientUpdates
  <2>3. /\ pc[c] = "ask" => s = "probe" /\ cl.phase = "none" /\ cl.found = <<>>
        /\ pc[c] = "report" => s = "signal"
        /\ pc[c] = "signal" => s = "signalled" /\ cl.phase = "none"
        /\ pc[c] = "register" => s = "registered" /\ cl.phase = "none"
    BY DEF AfterCall, Connecting, Probing, Idle
  <2>4. client' = [client EXCEPT ![c] = cl] /\ pc' = [pc EXCEPT ![c] = s] /\ main' = main /\ turn' = turn
    BY <2>1 DEF Return, At
  <2> HIDE DEF cl, s
  <2>5. pc'[c] = s /\ client'[c] = cl
    BY <1>2, <1>4, <2>4 DEF TypeOK
  <2>6. Reports(c)'
    BY <1>1, <1>2, <1>4, <2>1, <2>3, <2>5, Context DEF IndInv, ServedInv, Reports, Reported
  <2>7. Signals(c, Next1(c))'
    BY <1>1, <1>2, <1>4, <2>1, <2>3, <2>5, Context
    DEF IndInv, ServedInv, Signals, Reported, TaskEnded
  <2>8. s = "probe" => Routed(c, ToSet(cl.found))
    BY <1>2, <2>1, <2>3, ToSetFound DEF Routed
  <2> QED
    BY <1>1, <1>2, <1>4, <2>1, <2>2, <2>3, <2>4, <2>5, <2>6, <2>7, <2>8, TaskMoves
    DEF TaskSteps, TaskEnded
<1> QED
  BY <1>3, <1>4 DEF Clients

\* A failed attempt of a call, for a reason that a repetition may need.
LEMMA RetryStep ==
    ASSUME IndInv, NEW c \in Clients, Running(c), Retry(c),
           client[c].phase # "none",
           UNCHANGED <<setup, remote, turn, all, forDriver, forTasks, indices, common,
                       told, checked, expired, crashes>>,
           lost' \in lost..setup.losses,
           lost' > lost \/ client[c].phase = "call" \/ Killed(Server(c))
    PROVE  IndInv'
<1>1. /\ TypeOK /\ client[c] \in ClientRecords /\ client[c].found \in Seq(Interfaces)
      /\ client[c].tries \in Nat /\ lost \in Nat /\ crashes' \in 0..setup.crashes
      /\ common' \subseteq Interfaces /\ turn' \in Tasks
  BY LauncherAssumption DEF IndInv, TypeOK, ClientRecords
<1>2. Idle \in ClientRecords /\ Idle.phase = "none"
  BY ClientUpdates DEF Idle, Probing
<1> DEFINE again == Calling(client[c].found, client[c].tries + 1)
<1>3. client[c].tries + 1 < RetriesOf(c) =>
         again \in ClientRecords /\ again.phase = "call" /\ again.found = client[c].found
  <2>1. /\ RetriesOf(c) \in Nat /\ RetriesOf(c) <= NextRetries + Retries
        /\ NextRetries \in Nat /\ Retries \in Nat
    BY LauncherAssumption DEF RetriesOf
  <2>2. client[c].tries + 1 < RetriesOf(c) => client[c].tries + 1 \in 0..NextRetries + Retries
    BY <1>1, <2>1
  <2> QED
    BY <1>1, <2>2, ClientUpdates DEF Calling
<1> HIDE DEF again
<1>4. CASE c = Driver
  <2>1. main = "notify" /\ all = Tasks
    BY <1>4 DEF IndInv, PhaseInv, RegisteredInv, Running
  <2>2. CASE /\ client[c].tries + 1 < RetriesOf(c) /\ client' = [client EXCEPT ![c] = again]
             /\ UNCHANGED <<main, pc>>
    BY <1>1, <1>3, <1>4, <2>1, <2>2, MainMoves DEF MainSteps, DriverStates
  <2>3. CASE client' = [client EXCEPT ![c] = Idle] /\ main' = "failed" /\ UNCHANGED pc
    BY <1>1, <1>2, <1>4, <2>1, <2>3, MainMoves DEF MainSteps, MainEnded
  <2> QED
    BY <1>4, <2>2, <2>3 DEF Retry, Raises, At, again
<1>5. CASE c \in Tasks
  <2>1. /\ pc[c] \in {"register", "ask", "report", "signal"} /\ c # Driver
        /\ main \notin {"resolve", "ssh"} /\ Next1(c) \in Tasks /\ Next1(c) # Driver
        /\ pc[c] # "register" => all = Tasks
        /\ pc[c] = "report" => Routed(c, ToSet(client[c].found))
    BY <1>1, <1>5, Context, Ring DEF IndInv, PhaseInv, RouteInv, RegisteredInv
  <2>2. CASE /\ client[c].tries + 1 < RetriesOf(c) /\ client' = [client EXCEPT ![c] = again]
             /\ UNCHANGED <<main, pc>>
    <3>1. /\ client'[c] = again /\ pc'[c] = pc[c] /\ pc' = [pc EXCEPT ![c] = pc[c]]
          /\ pc[c] \in TaskSteps
      BY <1>1, <1>5, <2>2 DEF TypeOK
    <3>2. Reports(c)'
      BY <1>1, <1>3, <1>5, <2>1, <2>2, <3>1, Context DEF IndInv, ServedInv, Reports, Reported
    <3>3. Signals(c, Next1(c))'
      <4>1. pc[c] = "signal" /\ Killed(Server(c)) => pc[Next1(c)] = "killed"
        BY <2>1 DEF Killed, Server
      <4> QED
        BY <1>1, <1>5, <2>1, <2>2, <3>1, <4>1, Context
        DEF IndInv, ServedInv, Signals, Reported
    <3>4. pc[c] = "register" /\ main # "killed" => indices[c] <= lost'
      <4>1. pc[c] = "register" /\ Killed(Server(c)) => main = "killed"
        BY <2>1 DEF Killed, Server
      <4>2. indices[c] \in Nat /\ indices[c] <= 1 + lost
        BY <1>1, <1>5 DEF IndInv, RegistryInv, RegistryAgrees, TypeOK
      <4> QED
        BY <1>1, <1>5, <4>1, <4>2 DEF IndInv, RegistryInv
    <3> QED
      BY <1>1, <1>3, <1>5, <2>1, <2>2, <3>1, <3>2, <3>3, <3>4, TaskMoves DEF TaskEnded
  <2>3. CASE /\ client' = [client EXCEPT ![c] = Idle] /\ UNCHANGED main
             /\ pc' = [pc EXCEPT ![c] = "raised"]
    <3>1. client'[c] = Idle /\ pc'[c] = "raised"
      BY <1>1, <1>5, <2>3 DEF TypeOK
    <3>2. Reports(c)' /\ Signals(c, Next1(c))'
      BY <1>1, <1>5, <2>1, <3>1, Context
      DEF IndInv, ServedInv, Reports, Signals, Reported, TaskEnded
    <3> QED
      BY <1>1, <1>2, <1>5, <2>1, <2>3, <3>1, <3>2, TaskMoves DEF TaskEnded, TaskSteps
  <2> QED
    BY <2>1, <2>2, <2>3 DEF Retry, Raises, At, again
<1> QED
  BY <1>4, <1>5 DEF Clients

LEMMA FailedCallStep ==
    ASSUME IndInv, NEW c \in Clients, Running(c), Refused(c) \/ Lose(c)
    PROVE  IndInv'
<1>1. UNCHANGED <<setup, remote, turn, all, forDriver, forTasks, indices, common,
                  told, checked, expired, crashes>>
  BY DEF Refused, Lose, driverVars, taskVars, faultVars
<1>2. lost \in Nat /\ setup.losses \in Nat /\ lost <= setup.losses
  BY LauncherAssumption DEF IndInv, TypeOK
<1>3. lost' \in lost..setup.losses
  BY <1>2 DEF Refused, Lose, faultVars
<1>4. /\ client[c].phase # "none" /\ Retry(c)
      /\ lost' > lost \/ client[c].phase = "call" \/ Killed(Server(c))
  BY <1>2 DEF Refused, Lose
<1> QED
  BY <1>1, <1>3, <1>4, RetryStep

\* An answer that will not come: only the phase of the client and the losses change.
LEMMA SilentFrame ==
    ASSUME IndInv, NEW c \in Clients, Running(c), LoseSilently(c)
    PROVE  /\ UNCHANGED <<setup, main, remote, turn, all, forDriver, forTasks, indices,
                          common, pc, told, checked, expired, crashes>>
           /\ TypeOK /\ lost \in Nat /\ lost' = lost + 1 /\ lost' \in lost..setup.losses
           /\ client[c].phase # "none"
           /\ \E cl \in ClientRecords :
                 /\ client' = [client EXCEPT ![c] = cl] /\ cl.phase = "silent"
                 /\ cl.found = client[c].found /\ cl.todo = client[c].todo
                 /\ cl.tries = client[c].tries
<1>1. TypeOK /\ client[c] \in ClientRecords /\ setup.losses \in Nat /\ lost \in Nat
  BY LauncherAssumption DEF IndInv, TypeOK
<1>2. /\ lost < setup.losses /\ lost' = lost + 1
      /\ client[c].phase # "none"
      /\ client' = [client EXCEPT ![c] = [client[c] EXCEPT !.phase = "silent"]]
  BY <1>1 DEF LoseSilently
<1>3. [client[c] EXCEPT !.phase = "silent"] \in ClientRecords
  BY <1>1 DEF ClientRecords
<1>4. UNCHANGED <<setup, main, remote, turn, all, forDriver, forTasks, indices,
                  common, pc, told, checked, expired, crashes>>
  BY DEF LoseSilently, driverVars, taskVars
<1>5. \E cl \in ClientRecords :
         /\ client' = [client EXCEPT ![c] = cl] /\ cl.phase = "silent"
         /\ cl.found = client[c].found /\ cl.todo = client[c].todo
         /\ cl.tries = client[c].tries
  <2> WITNESS [client[c] EXCEPT !.phase = "silent"] \in ClientRecords
  <2> QED
    BY <1>1, <1>2 DEF ClientRecords
<1>6. lost' \in lost..setup.losses
  BY <1>1, <1>2
<1> QED
  BY <1>1, <1>2, <1>4, <1>5, <1>6

LEMMA SilentStep ==
    ASSUME IndInv, NEW c \in Clients, Running(c), LoseSilently(c)
    PROVE  IndInv'
<1>1. /\ UNCHANGED <<setup, main, remote, turn, all, forDriver, forTasks, indices,
                     common, pc, told, checked, expired, crashes>>
      /\ TypeOK /\ lost \in Nat /\ lost' = lost + 1 /\ lost' \in lost..setup.losses
      /\ client[c].phase # "none" /\ crashes' \in 0..setup.crashes
      /\ common' \subseteq Interfaces /\ turn' \in Tasks
  BY SilentFrame DEF TypeOK
<1>2. PICK cl \in ClientRecords :
         /\ client' = [client EXCEPT ![c] = cl] /\ cl.phase = "silent"
         /\ cl.found = client[c].found
  BY SilentFrame
<1>3. CASE c = Driver
  <2>1. main = "notify" /\ all = Tasks
    BY <1>1, <1>3 DEF IndInv, PhaseInv, RegisteredInv, Running
  <2> QED
    BY <1>1, <1>2, <1>3, <2>1, MainMoves DEF MainSteps, DriverStates
<1>4. CASE c \in Tasks
  <2>1. /\ pc[c] \in {"register", "ask", "report", "signal"} /\ c # Driver
        /\ main \notin {"resolve", "ssh"} /\ Next1(c) \in Tasks /\ Next1(c) # Driver
        /\ pc[c] # "register" => all = Tasks
        /\ pc[c] = "report" => Routed(c, ToSet(client[c].found))
    BY <1>1, <1>4, Context, Ring DEF IndInv, PhaseInv, RouteInv, RegisteredInv
  <2>2. /\ client'[c] = cl /\ pc'[c] = pc[c] /\ pc' = [pc EXCEPT ![c] = pc[c]]
        /\ pc[c] \in TaskSteps
    BY <1>1, <1>2, <1>4 DEF TypeOK
  <2>3. Reports(c)'
    BY <1>1, <1>2, <1>4, <2>1, <2>2, Context DEF IndInv, ServedInv, Reports, Reported
  <2>4. Signals(c, Next1(c))'
    BY <1>1, <1>2, <1>4, <2>1, <2>2, Context DEF IndInv, ServedInv, Signals, Reported
  <2> QED
    BY <1>1, <1>2, <1>4, <2>1, <2>2, <2>3, <2>4, TaskMoves DEF TaskEnded
<1> QED
  BY <1>3, <1>4 DEF Clients

-----------------------------------------------------------------------------
(* The handlers of the services *)

\* What every handler leaves alone, and what its caller becomes.
LEMMA DeliverFrame ==
    ASSUME IndInv, NEW c \in Clients, Deliver(c)
    PROVE  /\ UNCHANGED <<setup, main, remote, turn, common, pc, expired, lost, crashes>>
           /\ TypeOK /\ (client \in [Clients -> ClientRecords])'
           /\ client[c].phase = "call" /\ Up(Server(c))
           /\ client'[c].phase = "answered" /\ client'[c].found = client[c].found
           /\ \A d \in Clients \ {c} : client'[d] = client[d]
           /\ \A d \in Clients : client'[d].found = client[d].found
           /\ \A d \in Clients : client'[d].phase # "none" => client[d].phase # "none"
<1>1. UNCHANGED <<setup, main, remote, turn, common, pc, expired, lost, crashes>>
  BY DEF Deliver, faultVars
<1>2. TypeOK /\ client[c] \in ClientRecords
  BY DEF IndInv, TypeOK
<1>3. /\ client' = [client EXCEPT ![c].phase = "answered"] /\ client[c].phase = "call"
      /\ Up(Server(c))
  BY DEF Deliver
<1>4. /\ client'[c].phase = "answered" /\ client'[c].found = client[c].found
      /\ \A d \in Clients \ {c} : client'[d] = client[d]
      /\ client' \in [Clients -> ClientRecords]
  BY <1>2, <1>3 DEF TypeOK, ClientRecords
<1>5. (client \in [Clients -> ClientRecords])'
  BY <1>1, <1>2, <1>4, Context DEF ClientRecords
<1> QED
  BY <1>1, <1>2, <1>3, <1>4, <1>5

LEMMA RegisterHandled ==
    ASSUME IndInv, NEW c \in Tasks, Deliver(c), pc[c] = "register", HandleRegisterTask(c)
    PROVE  IndInv'
<1>1. c \in Clients
  BY DEF Clients
<1>2. /\ all' = all \cup {c} /\ indices' = [indices EXCEPT ![c] = @ + 1]
      /\ forDriver' = [forDriver EXCEPT ![c] = FilterByIp(c)]
      /\ UNCHANGED <<forTasks, told, checked>>
  BY DEF HandleRegisterTask, HostHashIndices, taskVars
<1>3. FilterByIp(c) \in SUBSET Interfaces /\ FilterByIp(c) # Unset
  BY LauncherAssumption DEF FilterByIp, NoAddress, Unset
<1>4. TypeOK /\ c # Driver
  BY <1>1, DeliverFrame, Ring
<1>5. indices'[c] = indices[c] + 1 /\ \A t \in Tasks \ {c} : indices'[t] = indices[t]
  BY <1>2, <1>4 DEF TypeOK
<1>6. forDriver'[c] = FilterByIp(c) /\ \A t \in Tasks \ {c} : forDriver'[t] = forDriver[t]
  BY <1>2, <1>4 DEF TypeOK
<1>7. TypeOK'
  <2>1. /\ (indices \in [Tasks -> Nat])'
        /\ (forDriver \in [Tasks -> (SUBSET Interfaces) \cup {Unset}])'
    BY <1>1, <1>2, <1>3, <1>4, Context, DeliverFrame DEF TypeOK
  <2> QED
    BY <1>1, <1>2, <1>4, <2>1, Context, DeliverFrame DEF TypeOK
<1>8. PhaseInv' /\ RegisteredInv'
  BY <1>1, <1>2, <1>4, Context, DeliverFrame DEF IndInv, PhaseInv, RegisteredInv
<1>9. ServedInv'
  BY <1>1, <1>2, <1>4, Context, DeliverFrame
  DEF IndInv, ServedInv, Reports, Signals, Reported
<1>10. RegistryInv'
  <2>1. main # "killed" /\ indices[c] <= lost
    BY <1>1, <1>4, DeliverFrame DEF Up, Server, DriverStates, IndInv, RegistryInv
  <2>2. lost \in Nat /\ \A t \in Tasks : indices[t] \in Nat
    BY <1>4, LauncherAssumption DEF TypeOK
  <2>3. RegistryAgrees'
    BY <1>1, <1>2, <1>3, <1>4, <1>5, <1>6, <2>1, <2>2, Context, DeliverFrame
    DEF IndInv, RegistryInv, RegistryAgrees
  <2> QED
    BY <1>1, <1>4, <1>5, <2>3, Context, DeliverFrame DEF IndInv, RegistryInv
<1>11. RouteInv'
  BY <1>1, <1>2, <1>4, Context, RoutedSame, DeliverFrame DEF IndInv, RouteInv
<1> QED
  BY <1>7, <1>8, <1>9, <1>10, <1>11 DEF IndInv

\* The other handlers leave the registry alone.
LEMMA RegistryLeftAlone ==
    ASSUME IndInv, NEW c \in Clients, Deliver(c), UNCHANGED <<all, forDriver, indices>>,
           c \in Tasks => pc[c] # "register"
    PROVE  PhaseInv' /\ RegistryInv'
<1>1. \A t \in Tasks : pc[t] = "register" => client'[t] = client[t]
  BY DeliverFrame, Context
<1> QED
  BY <1>1, Context, DeliverFrame DEF IndInv, PhaseInv, RegistryInv, RegistryAgrees

LEMMA AskHandled ==
    ASSUME IndInv, NEW c \in Tasks, Deliver(c), pc[c] = "ask",
           UNCHANGED <<all, forDriver, forTasks, indices, told, checked>>
    PROVE  IndInv'
<1>1. c \in Clients
  BY DEF Clients
<1>2. TypeOK'
  BY <1>1, Context, DeliverFrame DEF TypeOK
<1>3. RegisteredInv'
  BY <1>1, Context, DeliverFrame DEF IndInv, RegisteredInv
<1>4. ServedInv'
  <2>1. \A t \in Tasks : pc[t] # "ask" => client'[t] = client[t]
    BY <1>1, DeliverFrame, Context
  <2> QED
    BY <1>1, <2>1, Context, DeliverFrame DEF IndInv, ServedInv, Reports, Signals, Reported
<1>5. RouteInv'
  BY <1>1, Context, RoutedSame, DeliverFrame DEF IndInv, RouteInv
<1> QED
  BY <1>1, <1>2, <1>3, <1>4, <1>5, RegistryLeftAlone DEF IndInv

LEMMA ReportHandled ==
    ASSUME IndInv, NEW c \in Tasks, Deliver(c), pc[c] = "report",
           HandleTaskToTaskAddresses(c)
    PROVE  IndInv'
<1>1. c \in Clients /\ TypeOK
  BY DeliverFrame DEF Clients
<1> DEFINE F == ToSet(client[c].found)
<1>2. /\ forTasks' = [forTasks EXCEPT ![Next1(c)] = F]
      /\ UNCHANGED <<all, forDriver, indices, told, checked>>
  BY DEF HandleTaskToTaskAddresses, taskVars
<1>3. F \subseteq Interfaces /\ F # {} /\ F # Unset /\ Routed(c, F)
  <2>1. client[c].found \in Seq(Interfaces) /\ client[c].found # <<>>
    BY <1>1 DEF IndInv, TypeOK, ServedInv, Reports, ClientRecords
  <2>2. F \subseteq Interfaces /\ F # {}
    BY <2>1, ToSetFound
  <2> QED
    BY <2>2, LauncherAssumption DEF IndInv, RouteInv, Unset
<1> HIDE DEF F
<1>4. /\ Next1(c) \in Tasks /\ forTasks'[Next1(c)] = F
      /\ \A t \in Tasks \ {Next1(c)} : forTasks'[t] = forTasks[t]
      /\ \A t \in Tasks \ {c} : Next1(t) # Next1(c)
  BY <1>1, <1>2, RingInverse DEF TypeOK
<1>5. TypeOK'
  <2>1. (forTasks \in [Tasks -> (SUBSET Interfaces) \cup {Unset}])'
    BY <1>1, <1>2, <1>3, <1>4, Context, DeliverFrame DEF TypeOK
  <2> QED
    BY <1>1, <1>2, <2>1, Context, DeliverFrame DEF TypeOK
<1>6. RegisteredInv'
  BY <1>1, <1>2, Context, DeliverFrame DEF IndInv, RegisteredInv
<1>7. ServedInv'
  <2>1. \A t \in Tasks : Reported(t) => Reported(t)'
    BY <1>3, <1>4 DEF Reported
  <2>2. Reported(Next1(c))'
    BY <1>1, <1>3, <1>4, Context, DeliverFrame DEF Reported
  <2>3. \A t \in Tasks : (Next1(t) \in Tasks) /\ (Reported(Next1(t)) => Reported(Next1(t))')
    BY <1>1, <2>1, Context, DeliverFrame DEF Reported
  <2>4. \A t \in Tasks : Reports(t)'
    BY <1>1, <2>2, <2>3, Context, DeliverFrame DEF IndInv, ServedInv, Reports
  <2>5. \A t \in Tasks : Signals(t, Next1(t))'
    BY <1>1, <1>2, <2>3, Context, DeliverFrame DEF IndInv, ServedInv, Signals
  <2> QED
    BY <1>1, <1>2, <2>4, <2>5, Context, DeliverFrame DEF IndInv, ServedInv
<1>8. RouteInv'
  <2>1. main \notin {"resolve", "ssh"}
    BY DEF IndInv, RouteInv
  <2> QED
    BY <1>1, <1>3, <1>4, <2>1, Context, RoutedSame, DeliverFrame DEF IndInv, RouteInv
<1> QED
  BY <1>1, <1>2, <1>5, <1>6, <1>7, <1>8, RegistryLeftAlone DEF IndInv

LEMMA SignalHandled ==
    ASSUME IndInv, NEW c \in Tasks, Deliver(c), pc[c] = "signal", HandleSignal(c)
    PROVE  IndInv'
<1>1. c \in Clients /\ TypeOK
  BY DeliverFrame DEF Clients
<1>2. /\ checked' = [checked EXCEPT ![Next1(c)] = TRUE]
      /\ UNCHANGED <<all, forDriver, forTasks, indices, told>>
  BY DEF HandleSignal, driverVars
<1>3. /\ Next1(c) \in Tasks /\ checked'[Next1(c)]
      /\ \A t \in Tasks \ {Next1(c)} : checked'[t] = checked[t]
      /\ \A t \in Tasks \ {c} : Next1(t) # Next1(c)
  BY <1>1, <1>2, RingInverse DEF TypeOK
<1>4. TypeOK'
  <2>1. (checked \in [Tasks -> BOOLEAN])'
    BY <1>1, <1>2, Context, DeliverFrame DEF TypeOK
  <2> QED
    BY <1>1, <1>2, <2>1, Context, DeliverFrame DEF TypeOK
<1>5. RegisteredInv'
  BY <1>1, <1>2, Context, DeliverFrame DEF IndInv, RegisteredInv
<1>6. ServedInv'
  <2>1. \A t \in Tasks : Reports(t)'
    <3>1. \A t \in Tasks : pc[t] # "signal" => client'[t] = client[t]
      BY <1>1, DeliverFrame, Context
    <3> QED
      BY <1>1, <1>2, <3>1, Context, DeliverFrame DEF IndInv, ServedInv, Reports, Reported
  <2>2. Signals(c, Next1(c))'
    <3>1. Reported(Next1(c))
      BY DEF IndInv, ServedInv, Reports
    <3> QED
      BY <1>1, <1>2, <3>1, Context, DeliverFrame DEF Signals, Reported
  <2>3. \A t \in Tasks \ {c} : Signals(t, Next1(t))'
    <3>1. \A t \in Tasks \ {c} : client'[t] = client[t]
      BY <1>1, DeliverFrame, Context
    <3> QED
      BY <1>1, <1>2, <1>3, <3>1, Context, DeliverFrame DEF IndInv, ServedInv, Signals, Reported
  <2>4. \A t \in Tasks : (pc[t] = "done" => checked[t])'
    BY <1>1, <1>3, DeliverFrame DEF IndInv, ServedInv
  <2> QED
    BY <1>1, <2>1, <2>2, <2>3, <2>4, Context, DeliverFrame DEF ServedInv
<1>7. RouteInv'
  BY <1>1, <1>2, Context, RoutedSame, DeliverFrame DEF IndInv, RouteInv
<1> QED
  BY <1>1, <1>2, <1>4, <1>5, <1>6, <1>7, RegistryLeftAlone DEF IndInv

LEMMA NotifyHandled ==
    ASSUME IndInv, Deliver(Driver), main = "notify", HandleNotify
    PROVE  IndInv'
<1>1. Driver \in Clients /\ TypeOK
  BY DeliverFrame DEF Clients
<1>2. /\ told' = [told EXCEPT ![turn] = TRUE]
      /\ UNCHANGED <<all, forDriver, forTasks, indices, checked>>
  BY DEF HandleNotify, driverVars
<1>3. \A t \in Tasks : client'[t] = client[t]
  BY <1>1, DeliverFrame, Context
<1>4. TypeOK'
  <2>1. (told \in [Tasks -> BOOLEAN])'
    BY <1>1, <1>2, Context, DeliverFrame DEF TypeOK
  <2> QED
    BY <1>1, <1>2, <2>1, Context, DeliverFrame DEF TypeOK
<1>5. RegisteredInv'
  BY <1>1, <1>2, Context, DeliverFrame DEF IndInv, RegisteredInv
<1>6. ServedInv'
  BY <1>1, <1>2, <1>3, Context, DeliverFrame DEF IndInv, ServedInv, Reports, Signals, Reported
<1>7. RouteInv'
  BY <1>1, <1>2, <1>3, Context, RoutedSame, DeliverFrame DEF IndInv, RouteInv
<1>8. Driver \notin Tasks
  BY <1>1, Ring
<1> QED
  BY <1>1, <1>2, <1>4, <1>5, <1>6, <1>7, <1>8, RegistryLeftAlone DEF IndInv

LEMMA DeliverStep ==
    ASSUME IndInv, NEW c \in Clients, Running(c), Deliver(c)
    PROVE  IndInv'
<1>1. client[c].phase = "call" /\ Handle(c) /\ TypeOK
  BY DEF Deliver, IndInv
<1>2. CASE c = Driver
  <2>1. main = "notify" /\ Step(c) = "notify"
    BY <1>1, <1>2 DEF IndInv, PhaseInv, Running, Step
  <2> QED
    BY <1>1, <1>2, <2>1, NotifyHandled DEF Handle
<1>3. CASE c \in Tasks
  <2>1. pc[c] \in {"register", "ask", "report", "signal"} /\ Step(c) = pc[c]
    BY <1>1, <1>3, Ring DEF IndInv, PhaseInv, Step
  <2> QED
    BY <1>1, <1>3, <2>1, RegisterHandled, AskHandled, ReportHandled, SignalHandled
    DEF Handle, driverVars, taskVars
<1> QED
  BY <1>2, <1>3 DEF Clients

-----------------------------------------------------------------------------
(* The invariant and the theorems *)

LEMMA InitInv == Init => IndInv
<1> SUFFICES ASSUME Init PROVE IndInv
  OBVIOUS
<1>1. setup \in Setups /\ N \in Nat \ {0} /\ N <= MaxHosts /\ MaxHosts \in Nat
  BY LauncherAssumption DEF Init, N
<1>2. 0 \in Tasks /\ Driver \notin Tasks /\ Tasks \subseteq Clients /\ Driver \in Clients
  BY <1>1 DEF Tasks, Driver, Clients
<1>3. TypeOK
  <2>1. setup.losses \in Nat /\ setup.crashes \in Nat
    BY <1>1, LauncherAssumption
  <2>2. lost \in 0..setup.losses /\ crashes \in 0..setup.crashes
    BY <2>1 DEF Init
  <2>3. client \in [Clients -> ClientRecords]
    BY ClientUpdates DEF Init
  <2>4. pc \in [Tasks -> TaskSteps]
    BY DEF Init, TaskSteps
  <2> QED
    BY <1>1, <1>2, <2>2, <2>3, <2>4 DEF Init, TypeOK, MainSteps
<1>4. \A t \in Tasks : Next1(t) \in Tasks
  BY <1>3, RingInverse
<1>5. \A c \in Clients : client[c].phase = "none"
  BY DEF Init, Idle, Probing
<1>6. PhaseInv /\ RegisteredInv
  BY <1>2, <1>5 DEF Init, PhaseInv, RegisteredInv
<1>7. ServedInv
  BY <1>4 DEF Init, ServedInv, Reports, Signals
<1>8. RegistryInv
  BY DEF Init, RegistryInv, RegistryAgrees
<1>9. RouteInv
  BY <1>4 DEF Init, RouteInv
<1> QED
  BY <1>3, <1>6, <1>7, <1>8, <1>9 DEF IndInv

LEMMA StutterInv ==
    ASSUME IndInv, UNCHANGED <<setup, main, remote, turn, all, forDriver, forTasks, indices,
                               common, pc, told, checked, client, lost, crashes>>,
           expired' \in BOOLEAN
    PROVE  IndInv'
<1>1. TypeOK
  BY DEF IndInv
<1>2. TypeOK'
  BY <1>1, Context DEF TypeOK
<1>3. PhaseInv' /\ RegisteredInv'
  BY <1>1, Context DEF IndInv, PhaseInv, RegisteredInv
<1>4. ServedInv'
  BY <1>1, Context DEF IndInv, ServedInv, Reports, Signals, Reported
<1>5. RegistryInv'
  BY <1>1, Context DEF IndInv, RegistryInv, RegistryAgrees
<1>6. RouteInv'
  BY <1>1, Context, RoutedSame DEF IndInv, RouteInv
<1> QED
  BY <1>2, <1>3, <1>4, <1>5, <1>6 DEF IndInv

LEMMA NextInv == IndInv /\ [Next]_vars => IndInv'
<1> SUFFICES ASSUME IndInv, [Next]_vars PROVE IndInv'
  OBVIOUS
<1>1. CASE MainStep
  BY <1>1, ResolveStep, CheckSshStep, ExecStep, WaitForRegistrationStep, ClientBuiltStep,
     WaitForUpdatesStep, IntersectStep DEF MainStep
<1>2. CASE SshFails
  BY <1>2, CheckSshStep
<1>3. ASSUME NEW t \in Tasks, TaskStep(t) \/ Crash(t)
      PROVE  IndInv'
  BY <1>3, LaunchStep, ConnectedStep, WaitToBeToldStep, WaitForSignalStep,
     ExitLauncherStep, CrashStep DEF TaskStep
<1>4. ASSUME NEW c \in Clients, ClientStep(c) \/ (Running(c) /\ (Lose(c) \/ LoseSilently(c)))
      PROVE  IndInv'
  BY <1>4, ProbeStep, DeliverStep, ReturnStep, FailedCallStep, SilentStep DEF ClientStep
<1>5. CASE Expire
  BY <1>5, StutterInv DEF Expire, driverVars, taskVars
<1>6. CASE UNCHANGED vars
  BY <1>6, StutterInv DEF vars, driverVars, taskVars, faultVars, IndInv, TypeOK
<1> QED
  BY <1>1, <1>2, <1>3, <1>4, <1>5, <1>6 DEF Next, Finish

\* IndInv says of a task and its predecessor what HandshakeInOrder says.
LEMMA HandshakeFromInv == IndInv => HandshakeInOrder
<1> SUFFICES ASSUME IndInv PROVE HandshakeInOrder
  OBVIOUS
<1>1. TypeOK /\ RegistryAgrees
  BY DEF IndInv, RegistryInv
<1>2. AskedWhenRegistered
  BY DEF AskedWhenRegistered, IndInv, RegisteredInv
<1>3. ServedThePrevious
  <2> SUFFICES ASSUME NEW t \in Tasks, pc[t] = "done"
               PROVE  /\ forTasks[t] \notin {Unset, {}}
                      /\ Step(Previous(t)) \notin {"connect", "register", "ask", "probe", "report"}
                      /\ Step(Previous(t)) = "signal" =>
                            client[Previous(t)].phase = "answered" \/ lost > 0
    BY DEF ServedThePrevious
  <2>1. /\ Previous(t) \in Tasks /\ t = Next1(Previous(t))
        /\ Step(Previous(t)) = pc[Previous(t)]
    BY <1>1, RingInverse, Ring DEF Step
  <2>2. checked[t] /\ Signals(Previous(t), t)
    BY <2>1 DEF IndInv, ServedInv
  <2> QED
    BY <2>1, <2>2 DEF Signals, Reported, TaskEnded
<1> QED
  BY <1>1, <1>2, <1>3 DEF HandshakeInOrder

\* When the names were paired right, a task runs on the machine of its name.
LEMMA RoutedFromInv == IndInv => RoutedIfPaired
<1> SUFFICES ASSUME IndInv, PairedRight, main = "mpirun", remote # {}, setup.nic = "none"
             PROVE  /\ common # {}
                    /\ \A t \in Tasks, i \in common :
                          Route(MachineOf(t), MachineOf(Next1(t)), i) = i
  BY DEF RoutedIfPaired, InterfacesRouted
<1>1. \A t \in Tasks : RunsOn(t) = MachineOf(t) /\ Next1(t) \in Tasks
  BY RingInverse DEF PairedRight, RunsOn, MachineOf, IndInv
<1>2. common # {} /\ \A t \in Tasks : Routed(t, common)
  BY DEF IndInv, RouteInv
<1> QED
  BY <1>1, <1>2 DEF Routed

\* However many exchanges are lost and processes die, on every network: main
\* and the tasks carry out the handshake of driver_fn and _task_fn in order;
\* no task is asked for before it is registered, none shuts its service down
\* before its predecessor is done with it, and the tables of the driver agree.
THEOREM HandshakeProved == Spec => []HandshakeInOrder
<1>1. Init /\ [][Next]_vars => []IndInv
  BY InitInv, NextInv, PTL
<1> QED
  BY <1>1, HandshakeFromInv, PTL DEF Spec

\* The interfaces that bfrun gives to mpirun lead from every host to the next,
\* whenever filter_local_addresses paired names and addresses right.
THEOREM RoutedProved == Spec => []RoutedIfPaired
<1>1. Init /\ [][Next]_vars => []IndInv
  BY InitInv, NextInv, PTL
<1> QED
  BY <1>1, RoutedFromInv, PTL DEF Spec

-----------------------------------------------------------------------------
(***************************************************************************)
(* Why a launch fails.  As long as the hosts are usable, the deadline has  *)
(* not passed, every process lives and main has not ended (Live), and the  *)
(* losses so far are no excuse, everyone is Healthy: no task has raised,   *)
(* every client has an address that answers or has found one, has made no  *)
(* more attempts than exchanges were lost, and finds its service up.       *)
(***************************************************************************)
Live == Usable /\ ~expired /\ crashes = 0 /\ main \notin MainEnded

Excused == lost >= Retries \/ (lost > 0 /\ SomeoneDone)

\* The interfaces that lead from a task to the next one.
Routable(t) == {i \in Interfaces : Route(RunsOn(t), RunsOn(Next1(t)), i) = i}

BeforeTelling == {"resolve", "ssh", "waitRegistration", "waitingRegistration", "clients"}
HaveReported == {"signal", "signalled", "waitSignal", "done"}

\* A task has found, or will find, an address of the driver that answers, and
\* the driver can call back at the address it then registers.
ReachesDriver(t) ==
    /\ pc[t] = "connect" =>
          \/ client[t].found # <<>>
          \/ \E i \in client[t].todo : Route(RunsOn(t), Here, i) \in Seen
    /\ pc[t] = "register" => client[t].found # <<>>
    /\ pc[t] \in {"connect", "register"} =>
          \A i \in ToSet(client[t].found) : Route(RunsOn(t), Here, i) \in Seen
    /\ forDriver[t] # Unset =>
          \E i \in Interfaces : forDriver[t] = {i} /\ Route(Here, RunsOn(t), i) \in Seen

\* It misses no interface that leads to the next task, and reports them all.
FindsNext(t) ==
    /\ pc[t] = "probe" => Routable(t) \subseteq client[t].todo \cup ToSet(client[t].found)
    /\ pc[t] = "report" => Routable(t) \subseteq ToSet(client[t].found)
    /\ forTasks[Next1(t)] # Unset =>
          /\ Routable(t) \subseteq forTasks[Next1(t)]
          /\ pc[t] \in HaveReported \cup {"report"}
    /\ (pc[t] = "report" /\ client[t].phase # "answered" /\ lost = 0) =>
          forTasks[Next1(t)] = Unset

TaskHealthy(t) ==
    /\ pc[t] \notin {"raised", "killed"}
    /\ client[t].tries <= lost
    /\ pc[t] \in {"ask", "probe", "report"} \cup HaveReported => told[t]
    /\ main = "ready" =>
          \/ pc[t] \in HaveReported \cup {"new"}
          \/ pc[t] = "report" /\ client[t].phase = "answered"
    /\ ReachesDriver(t)
    /\ FindsNext(t)

MainHealthy ==
    /\ client[Driver].tries <= lost
    /\ main = "clients" =>
          \/ client[Driver].found # <<>>
          \/ \E i \in client[Driver].todo : Route(Here, RunsOn(turn), i) \in Seen
    /\ main = "notify" =>
          \A t \in Tasks : told[t] =>
             t < turn \/ (t = turn /\ (client[Driver].phase = "answered" \/ lost > 0))
    /\ main = "intersect" => \A t \in Tasks : forTasks[t] # Unset

Healthy == MainHealthy /\ \A t \in Tasks : TaskHealthy(t)

\* What main has not begun, whether or not anyone is healthy.
EarlyInv ==
    /\ main \in BeforeTelling => \A t \in Tasks : ~told[t]
    /\ main \in BeforeTelling \ {"clients"} => turn = 0 /\ client[Driver] = Idle
    /\ main \in {"resolve", "ssh"} =>
          \A t \in Tasks : client[t] = Idle /\ forDriver[t] = Unset

HealthInv == EarlyInv /\ (Live /\ ~Excused => Healthy)

\* A step that makes main fail, or kills it, has an excuse.
Explained ==
    (main' \in {"failed", "killed"} /\ main \notin MainEnded
        /\ Usable /\ ~expired /\ crashes = 0) =>
    lost' >= Retries \/ (lost > 0 /\ SomeoneDone)

-----------------------------------------------------------------------------
(* What health rests on *)

\* Where the tasks run is settled, and so are the routes between them.
LEMMA PlacesSame ==
    ASSUME TypeOK, UNCHANGED <<setup, remote>>
    PROVE  /\ \A t : RunsOn(t)' = RunsOn(t)
           /\ \A a, b, i : Route(a, b, i)' = Route(a, b, i)
           /\ \A t \in Tasks : Routable(t)' = Routable(t)
           /\ Usable' = Usable
<1>1. \A t : RunsOn(t)' = RunsOn(t)
  BY DEF RunsOn, MachineOf
<1>2. \A a, b, i : Route(a, b, i)' = Route(a, b, i)
  BY DEF Route
<1>3. \A t \in Tasks : Routable(t)' = Routable(t)
  BY <1>1, <1>2, Context DEF Routable
<1>4. Usable' = Usable
  BY <1>1, <1>2, Context DEF Usable
<1> QED
  BY <1>1, <1>2, <1>3, <1>4

\* An excuse is never taken back while the launch is live, and a launch that
\* is live was so before.
LEMMA LiveBefore ==
    ASSUME TypeOK, UNCHANGED <<setup, remote>>, expired => expired', crashes' \in Nat,
           crashes <= crashes', lost' \in lost..setup.losses,
           main \in MainEnded => main' \in MainEnded,
           main = "ready" => main' \in MainEnded \cup {"ready"},
           \A t \in Tasks : pc[t] = "done" => pc'[t] = "done",
           Live', ~Excused'
    PROVE  Live /\ ~Excused
<1>1. lost \in Nat /\ lost' \in Nat /\ lost <= lost' /\ crashes \in Nat /\ Retries \in Nat
  BY LauncherAssumption DEF TypeOK
<1>2. Live
  <2>1. Usable' /\ ~expired' /\ crashes' = 0 /\ main' \notin MainEnded
    BY DEF Live, MainEnded
  <2>2. Usable
    BY <2>1, PlacesSame
  <2>3. crashes = 0
    BY <1>1, <2>1
  <2> QED
    BY <2>1, <2>2, <2>3 DEF Live
<1>3. SomeoneDone => SomeoneDone'
  BY Context DEF SomeoneDone, Live
<1> QED
  BY <1>1, <1>2, <1>3 DEF Excused

\* The numbers in play.
LEMMA Counts ==
    ASSUME TypeOK
    PROVE  /\ lost \in Nat /\ lost <= setup.losses /\ crashes \in Nat /\ setup.losses \in Nat
           /\ Retries \in Nat \ {0} /\ NextRetries \in Nat /\ SSH_RETRIES \in Nat
           /\ \A c \in Clients : client[c].tries \in Nat
           /\ \A c : RetriesOf(c) \in Nat /\ RetriesOf(c) >= Retries
<1>1. lost \in Nat /\ lost <= setup.losses /\ crashes \in Nat /\ setup.losses \in Nat
  BY LauncherAssumption DEF TypeOK
<1>2. Retries \in Nat \ {0} /\ NextRetries \in Nat /\ SSH_RETRIES \in Nat
  BY LauncherAssumption
<1>3. \A c \in Clients : client[c].tries \in Nat
  BY <1>2 DEF TypeOK, ClientRecords
<1>4. \A c : RetriesOf(c) \in Nat /\ RetriesOf(c) >= Retries
  BY <1>2, RetriesAssumption DEF RetriesOf
<1> QED
  BY <1>1, <1>2, <1>3, <1>4

\* A registered task has left its first steps, so that it is up until it is
\* done, unless it failed.
LEMMA TaskUp ==
    ASSUME IndInv, NEW t \in Tasks, t \in all, pc[t] \notin TaskEnded
    PROVE  Up(t)
<1>1. TypeOK /\ t # Driver
  BY Ring DEF IndInv
<1>2. indices[t] \in Nat /\ indices[t] > 0
  BY <1>1 DEF IndInv, RegistryInv, RegistryAgrees, TypeOK
<1>3. pc[t] # "new"
  BY <1>2 DEF IndInv, RegistryInv
<1> QED
  BY <1>1, <1>3 DEF Up

\* The driver's service is up for every task that still has to call it.
LEMMA DriverUp ==
    ASSUME IndInv, Live, Healthy, NEW t \in Tasks, pc[t] \notin HaveReported \cup {"new"},
           pc[t] = "report" => client[t].phase # "answered"
    PROVE  Up(Driver)
<1>1. main \in MainSteps /\ main \notin MainEnded \cup {"resolve", "ssh"}
  BY DEF IndInv, TypeOK, RouteInv, Live
<1>2. main # "ready"
  BY DEF Healthy, TaskHealthy
<1> QED
  BY <1>1, <1>2 DEF Up, MainSteps

\* A task is up for the one before it, until that one has signalled.
LEMMA NextUp ==
    ASSUME IndInv, Healthy, Live, ~Excused, NEW t \in Tasks,
           pc[t] = "probe" \/ (pc[t] = "signal" /\ client[t].phase # "answered")
    PROVE  Up(Next1(t))
<1>1. TypeOK /\ Next1(t) \in Tasks /\ all = Tasks
  BY RingInverse DEF IndInv, RegisteredInv
<1>2. pc[Next1(t)] \notin {"raised", "killed"}
  BY <1>1 DEF Healthy, TaskHealthy
<1>3. pc[Next1(t)] # "done"
  <2>1. SUFFICES ASSUME pc[Next1(t)] = "done" PROVE FALSE
    OBVIOUS
  <2>2. checked[Next1(t)] /\ Signals(t, Next1(t)) /\ SomeoneDone
    BY <1>1, <2>1 DEF IndInv, ServedInv, SomeoneDone
  <2>3. lost = 0
    BY <1>1, <2>2, Counts DEF Excused
  <2> QED
    BY <1>1, <1>2, <2>2, <2>3 DEF Signals, TaskEnded
<1> QED
  BY <1>1, <1>2, <1>3, TaskUp DEF TaskEnded

\* A task is up while main builds its client, and while main notifies it.
LEMMA TurnUp ==
    ASSUME IndInv, EarlyInv, Healthy, Live, ~Excused,
           main = "clients" \/ (main = "notify" /\ client[Driver].phase # "answered")
    PROVE  Up(turn)
<1>1. TypeOK /\ turn \in Tasks /\ all = Tasks
  BY DEF IndInv, RegisteredInv, TypeOK
<1>2. pc[turn] \notin {"raised", "killed"}
  BY <1>1 DEF Healthy, TaskHealthy
<1>3. pc[turn] # "done"
  <2>1. SUFFICES ASSUME pc[turn] = "done" PROVE FALSE
    OBVIOUS
  <2>2. told[turn] /\ SomeoneDone
    BY <1>1, <2>1 DEF Healthy, TaskHealthy, HaveReported, SomeoneDone
  <2>3. lost = 0 /\ turn \in Nat
    BY <1>1, <2>2, Counts DEF Excused, Tasks
  <2> QED
    BY <1>1, <2>2, <2>3 DEF EarlyInv, BeforeTelling, Healthy, MainHealthy
<1> QED
  BY <1>1, <1>2, <1>3, TaskUp DEF TaskEnded

\* Who calls is answered.
LEMMA NotRefused ==
    ASSUME IndInv, EarlyInv, Healthy, Live, ~Excused, NEW c \in Clients, Running(c),
           client[c].phase # "none"
    PROVE  /\ client[c].phase = "call" => Up(Server(c)) /\ Answerable(c)
           /\ ~Killed(Server(c))
<1>1. TypeOK
  BY DEF IndInv
<1>2. CASE c = Driver
  <2>1. main = "notify" /\ Server(c) = turn /\ turn \in Tasks /\ turn # Driver /\ Step(c) = "notify"
    BY <1>1, <1>2, Ring DEF IndInv, PhaseInv, Running, Server, TypeOK, Step
  <2>2. client[c].phase = "call" => Up(turn)
    BY <1>2, <2>1, TurnUp
  <2>3. pc[turn] # "killed"
    BY <2>1 DEF Healthy, TaskHealthy
  <2> QED
    BY <2>1, <2>2, <2>3 DEF Answerable, Killed
<1>3. CASE c \in Tasks
  <2>1. /\ c # Driver /\ Next1(c) \in Tasks /\ Next1(c) # Driver
        /\ pc[c] \in {"register", "ask", "report", "signal"} /\ Step(c) = pc[c]
        /\ pc[c] = "ask" => all = Tasks
    BY <1>1, <1>3, Ring, RingInverse DEF IndInv, PhaseInv, Step, RegisteredInv
  <2>2. Answerable(c)
    BY <2>1 DEF Answerable
  <2>3. CASE pc[c] = "signal"
    <3>1. Server(c) = Next1(c)
      BY <2>1, <2>3 DEF Server
    <3>2. pc[Next1(c)] # "killed"
      BY <2>1 DEF Healthy, TaskHealthy
    <3> QED
      BY <1>3, <2>1, <2>2, <2>3, <3>1, <3>2, NextUp DEF Killed
  <2>4. CASE pc[c] # "signal"
    <3>1. Server(c) = Driver
      BY <2>1, <2>4 DEF Server
    <3>2. client[c].phase = "call" => Up(Driver)
      BY <1>3, <2>1, <2>4, DriverUp DEF HaveReported
    <3> QED
      BY <2>2, <3>1, <3>2 DEF Killed, Live, MainEnded
  <2> QED
    BY <2>3, <2>4
<1> QED
  BY <1>2, <1>3 DEF Clients

\* All tasks were reported on when as many were as there are tasks.
LEMMA Updated ==
    ASSUME TypeOK, AllUpdated
    PROVE  \A t \in Tasks : forTasks[t] # Unset
<1> DEFINE S == {t \in Tasks : forTasks[t] # Unset}
<1>1. N \in Nat \ {0} /\ S \subseteq Tasks
  BY Ring
<1>2. IsFiniteSet(Tasks) /\ Cardinality(Tasks) = N
  BY <1>1, FS_Interval DEF Tasks
<1>3. Cardinality(S) >= N
  BY DEF AllUpdated
<1> HIDE DEF S
<1>4. IsFiniteSet(S) /\ Cardinality(S) <= Cardinality(Tasks)
         /\ (Cardinality(Tasks) = Cardinality(S) => Tasks = S)
  BY <1>1, <1>2, FS_Subset
<1>5. Cardinality(S) \in Nat
  BY <1>4, FS_CardinalityType
<1>6. Tasks = S
  BY <1>1, <1>2, <1>3, <1>4, <1>5
<1> QED
  BY <1>6 DEF S

-----------------------------------------------------------------------------
(* Health and the steps of main *)

LEMMA EndedHealth ==
    ASSUME main' \in MainEnded
    PROVE  HealthInv'
BY DEF HealthInv, EarlyInv, BeforeTelling, Live, MainEnded

\* Before the tasks are started there is nothing to be ill.
LEMMA StartHealth ==
    ASSUME IndInv, EarlyInv, main \in {"resolve", "ssh"},
           UNCHANGED <<setup, turn, forDriver, forTasks, pc, told, client>>,
           lost' \in Nat, main' \in {"ssh", "ready", "waitRegistration"}
    PROVE  HealthInv'
<1>1. /\ TypeOK /\ turn = 0 /\ client[Driver] = Idle
      /\ \A t \in Tasks : /\ ~told[t] /\ client[t] = Idle /\ forDriver[t] = Unset
                          /\ forTasks[t] = Unset /\ pc[t] = "new"
  BY DEF IndInv, EarlyInv, RouteInv, BeforeTelling
<1>2. Idle.tries = 0
  BY DEF Idle, Probing
<1>3. EarlyInv'
  BY <1>1, Context DEF EarlyInv, BeforeTelling, Driver
<1>4. MainHealthy'
  BY <1>1, <1>2, Context DEF MainHealthy, Driver
<1>5. ASSUME NEW t \in Tasks PROVE TaskHealthy(t)'
  <2>1. pc'[t] = "new" /\ client'[t].tries <= lost' /\ forDriver'[t] = Unset
    BY <1>1, <1>2
  <2>2. Next1(t)' \in Tasks /\ forTasks'[Next1(t)'] = Unset
    BY <1>1, Context
  <2> QED
    BY <2>1, <2>2 DEF TaskHealthy, ReachesDriver, FindsNext, HaveReported
<1> QED
  BY <1>1, <1>3, <1>4, <1>5, Context DEF HealthInv, Healthy

LEMMA StartsHealth ==
    ASSUME IndInv, HealthInv, Resolve \/ CheckSsh
    PROVE  HealthInv' /\ Explained
<1>1. /\ UNCHANGED <<setup, turn, forDriver, forTasks, pc, told, client, lost>>
      /\ main \in {"resolve", "ssh"} /\ main' \in {"ssh", "ready", "waitRegistration"}
  BY DEF Resolve, CheckSsh, driverVars, taskVars, faultVars
<1>2. lost' \in Nat
  BY <1>1, Counts DEF IndInv
<1> QED
  BY <1>1, <1>2, StartHealth DEF HealthInv, Explained

LEMMA SshFailsHealth ==
    ASSUME IndInv, HealthInv, SshFails
    PROVE  HealthInv' /\ Explained
<1>1. lost' >= Retries
  BY Counts, RetriesAssumption DEF SshFails, IndInv
<1> QED
  BY <1>1, EndedHealth DEF SshFails, MainEnded, Explained

LEMMA ExecHealth ==
    ASSUME IndInv, HealthInv, Exec
    PROVE  HealthInv' /\ Explained
BY EndedHealth DEF Exec, MainEnded, Explained, Usable

\* A step of main leaves the tasks as healthy as they were.
LEMMA MainMovesHealthy ==
    ASSUME IndInv, HealthInv, main \notin {"resolve", "ssh"} \cup MainEnded, EarlyInv',
           UNCHANGED <<setup, remote, forDriver, forTasks, pc, told, expired, crashes>>,
           lost' \in lost..setup.losses, main = "ready" => main' = "ready",
           NEW cl \in ClientRecords, client' = [client EXCEPT ![Driver] = cl],
           Live /\ ~Excused /\ ~Excused' /\ Healthy =>
              /\ MainHealthy'
              /\ main' = "ready" /\ main # "ready" =>
                    \A t \in Tasks : \/ pc[t] \in HaveReported \cup {"new"}
                                     \/ pc[t] = "report" /\ client[t].phase = "answered"
    PROVE  HealthInv'
<1>1. TypeOK /\ lost \in Nat /\ lost' \in Nat /\ lost <= lost' /\ crashes' \in Nat /\ crashes <= crashes'
  BY Counts DEF IndInv
<1>2. \A t \in Tasks : client'[t] = client[t] /\ client[t].tries \in Nat
  BY <1>1, Context, Counts DEF TypeOK
<1>3. SUFFICES ASSUME Live', ~Excused' PROVE Healthy'
  BY DEF HealthInv
<1>4. Live /\ ~Excused
  BY <1>1, <1>3, LiveBefore
<1>5. Healthy
  BY <1>4 DEF HealthInv
<1>6. ASSUME NEW t \in Tasks PROVE TaskHealthy(t)'
  <2>1. TaskHealthy(t) /\ Next1(t)' = Next1(t) /\ client'[t] = client[t]
    BY <1>1, <1>2, <1>5, Context DEF Healthy
  <2>2. ReachesDriver(t)' /\ FindsNext(t)'
    BY <1>1, <2>1, PlacesSame DEF TaskHealthy, ReachesDriver, FindsNext, Here
  <2> QED
    BY <1>1, <1>2, <1>3, <1>4, <1>5, <2>1, <2>2 DEF TaskHealthy
<1> QED
  BY <1>1, <1>3, <1>4, <1>5, <1>6, Context DEF Healthy

LEMMA WaitForRegistrationHealth ==
    ASSUME IndInv, HealthInv, WaitForRegistration
    PROVE  HealthInv' /\ Explained
<1>1. UNCHANGED <<setup, remote, turn, all, forDriver, forTasks, pc, told, expired, lost, crashes>>
  BY DEF WaitForRegistration, Arrive, Wake, Raises, At, driverVars, taskVars, faultVars
<1>2. /\ main \in {"waitRegistration", "waitingRegistration"}
      /\ main' \in {"waitingRegistration", "clients", "failed"}
      /\ main' = "clients" => AllRegistered
      /\ main' = "failed" => expired
  BY DEF WaitForRegistration, Arrive, Wake, Raises, At, Step
<1>3. /\ TypeOK /\ lost' \in lost..setup.losses /\ turn = 0 /\ client[Driver] = Idle
      /\ \A t \in Tasks : ~told[t]
  BY <1>1, <1>2, Counts DEF IndInv, HealthInv, EarlyInv, BeforeTelling
<1>4. CASE main' = "failed"
  BY <1>2, <1>4, EndedHealth DEF MainEnded, Explained
<1>5. CASE main' = "waitingRegistration"
  <2>1. client' = client /\ client' = [client EXCEPT ![Driver] = Idle] /\ Idle \in ClientRecords
    BY <1>3, <1>5, Context, ClientUpdates DEF WaitForRegistration, TypeOK
  <2>2. EarlyInv'
    BY <1>1, <1>3, <1>5, <2>1, Context DEF EarlyInv, BeforeTelling, Driver
  <2>3. Healthy => MainHealthy'
    BY <1>1, <1>3, <1>5, <2>1, Context DEF Healthy, MainHealthy, Driver
  <2>4. HealthInv'
    BY <1>1, <1>2, <1>3, <1>5, <2>1, <2>2, <2>3, MainMovesHealthy DEF MainEnded
  <2> QED
    BY <1>5, <2>4 DEF Explained
<1>6. CASE main' = "clients"
  <2> DEFINE cl == Connecting(forDriver[0])
  <2>1. 0 \in Tasks /\ all = Tasks /\ forDriver[0] # Unset
    BY <1>2, <1>3, <1>6, Ring, Registered DEF IndInv, RegistryInv, RegistryAgrees
  <2>2. cl \in ClientRecords /\ cl.tries = 0 /\ cl.todo = forDriver[0]
    BY <1>3, <2>1, ClientUpdates DEF TypeOK, Connecting, Probing
  <2> HIDE DEF cl
  <2>3. client' = [client EXCEPT ![Driver] = cl] /\ client'[Driver] = cl
    BY <1>3, <1>6, Context DEF WaitForRegistration, cl, TypeOK
  <2>4. EarlyInv'
    BY <1>1, <1>3, <1>6, Context DEF EarlyInv, BeforeTelling
  <2>5. ASSUME Healthy PROVE MainHealthy'
    <3>1. PICK i \in Interfaces : forDriver[0] = {i} /\ Route(Here, RunsOn(0), i) \in Seen
      BY <2>1, <2>5 DEF Healthy, TaskHealthy, ReachesDriver
    <3>2. client'[Driver].tries <= lost'
      BY <1>1, <1>3, <2>2, <2>3, Counts
    <3>3. (Route(Here, RunsOn(turn), i) \in Seen)' /\ i \in client'[Driver].todo
      BY <1>1, <1>3, <2>2, <2>3, <3>1, PlacesSame DEF Here, Seen
    <3> QED
      BY <1>6, <3>2, <3>3 DEF MainHealthy, Driver
  <2>6. HealthInv'
    BY <1>1, <1>2, <1>3, <1>6, <2>2, <2>3, <2>4, <2>5, MainMovesHealthy DEF MainEnded
  <2> QED
    BY <1>6, <2>6 DEF Explained
<1> QED
  BY <1>2, <1>4, <1>5, <1>6

LEMMA ClientBuiltHealth ==
    ASSUME IndInv, HealthInv, ClientBuilt
    PROVE  HealthInv' /\ Explained
<1>1. UNCHANGED <<setup, remote, all, forDriver, forTasks, pc, told, expired, lost, crashes>>
  BY DEF ClientBuilt, Raises, At, driverVars, taskVars, faultVars
<1>2. /\ TypeOK /\ lost' \in lost..setup.losses /\ main = "clients" /\ turn \in Tasks
      /\ Answering(Driver) = {} /\ all = Tasks /\ \A t \in Tasks : ~told[t]
  BY <1>1, Counts DEF IndInv, TypeOK, ClientBuilt, HealthInv, EarlyInv, BeforeTelling,
     RegisteredInv
<1>3. CASE client[Driver].found = <<>> /\ main' = "failed"
  <2>1. SUFFICES ASSUME Usable, ~expired, crashes = 0, ~(lost' >= Retries),
                        ~(lost > 0 /\ SomeoneDone)
                 PROVE  FALSE
    BY <1>3, EndedHealth DEF MainEnded, Explained
  <2>2. Live /\ ~Excused
    BY <1>1, <1>2, <2>1 DEF Live, Excused, MainEnded
  <2>3. Healthy /\ Up(turn)
    BY <1>2, <2>2, TurnUp DEF HealthInv
  <2>4. PICK i \in client[Driver].todo : Route(Here, RunsOn(turn), i) \in Seen
    BY <1>2, <1>3, <2>3 DEF Healthy, MainHealthy
  <2>5. turn # Driver
    BY <1>2, Ring
  <2>6. i \in Answering(Driver)
    BY <1>2, <2>3, <2>4, <2>5 DEF Answering, Step, Server, ProbeAccepts, Where
  <2> QED
    BY <1>2, <2>6
<1>4. CASE /\ turn' = Next1(turn)
           /\ main' = IF turn' = 0 THEN "notify" ELSE "clients"
           /\ client' = [client EXCEPT ![Driver] =
                 IF turn' = 0 THEN Calling(<<>>, 0) ELSE Connecting(forDriver[turn'])]
  <2> DEFINE cl == IF turn' = 0 THEN Calling(<<>>, 0) ELSE Connecting(forDriver[turn'])
  <2>1. turn' \in Tasks
    BY <1>2, <1>4, RingInverse
  <2>2. forDriver[turn'] \in SUBSET Interfaces /\ forDriver[turn'] # Unset
    BY <1>2, <2>1 DEF IndInv, RegistryInv, RegistryAgrees, TypeOK
  <2>3. /\ cl \in ClientRecords /\ cl.tries = 0
        /\ turn' # 0 => cl.todo = forDriver[turn']
    BY <2>2, ClientUpdates DEF Calling, Connecting, Probing
  <2> HIDE DEF cl
  <2>4. client' = [client EXCEPT ![Driver] = cl] /\ client'[Driver] = cl
    BY <1>1, <1>2, <1>4, Context DEF cl, TypeOK
  <2>5. EarlyInv'
    BY <1>1, <1>2, <1>4, Context DEF EarlyInv, BeforeTelling
  <2>6. ASSUME Healthy PROVE MainHealthy'
    <3>1. PICK i \in Interfaces :
             forDriver[turn'] = {i} /\ Route(Here, RunsOn(turn'), i) \in Seen
      BY <2>1, <2>2, <2>6 DEF Healthy, TaskHealthy, ReachesDriver
    <3>2. client'[Driver].tries <= lost'
      BY <1>1, <1>2, <2>3, <2>4, Counts
    <3>3. main' = "clients" =>
             (Route(Here, RunsOn(turn), i) \in Seen)' /\ i \in client'[Driver].todo
      BY <1>1, <1>2, <1>4, <2>3, <2>4, <3>1, PlacesSame
      DEF Here, Seen, Route, RunsOn, MachineOf
    <3> QED
      BY <1>1, <1>2, <1>4, <3>2, <3>3, Context DEF MainHealthy, Driver
  <2>7. HealthInv'
    BY <1>1, <1>2, <1>4, <2>3, <2>4, <2>5, <2>6, MainMovesHealthy DEF MainEnded
  <2> QED
    BY <1>4, <2>7 DEF Explained
<1> QED
  BY <1>3, <1>4 DEF ClientBuilt, Raises, At

LEMMA WaitForUpdatesHealth ==
    ASSUME IndInv, HealthInv, WaitForUpdates
    PROVE  HealthInv' /\ Explained
<1>1. UNCHANGED <<setup, remote, turn, forDriver, forTasks, pc, told, client, expired, lost, crashes>>
  BY DEF WaitForUpdates, Arrive, Wake, Raises, At, driverVars, taskVars, faultVars
<1>2. /\ main \in {"waitUpdates", "waitingUpdates"}
      /\ main' \in {"waitingUpdates", "intersect", "failed"}
      /\ main' = "intersect" => AllUpdated
      /\ main' = "failed" => expired
  BY DEF WaitForUpdates, Arrive, Wake, Raises, At, Step
<1>3. TypeOK /\ lost' \in lost..setup.losses
  BY <1>1, Counts DEF IndInv
<1>4. CASE main' = "failed"
  BY <1>2, <1>4, EndedHealth DEF MainEnded, Explained
<1>5. CASE main' # "failed"
  <2>1. client' = [client EXCEPT ![Driver] = client[Driver]] /\ client[Driver] \in ClientRecords
    BY <1>1, <1>3, Context DEF TypeOK
  <2>2. EarlyInv'
    BY <1>2, <1>5 DEF EarlyInv, BeforeTelling
  <2>3. ASSUME main' = "intersect" PROVE \A t \in Tasks : forTasks[t] # Unset
    BY <1>2, <1>3, <2>3, Updated
  <2>4. Healthy => MainHealthy'
    BY <1>1, <1>2, <1>3, <1>5, <2>3, Context DEF Healthy, MainHealthy, Driver, Unset
  <2>5. HealthInv'
    BY <1>1, <1>2, <1>3, <1>5, <2>1, <2>2, <2>4, MainMovesHealthy DEF MainEnded
  <2> QED
    BY <1>2, <1>5, <2>5 DEF Explained
<1> QED
  BY <1>4, <1>5

LEMMA IntersectHealth ==
    ASSUME IndInv, HealthInv, Intersect
    PROVE  HealthInv' /\ Explained
<1>1. UNCHANGED <<setup, remote, turn, forDriver, forTasks, pc, told, client, expired, lost, crashes>>
  BY DEF Intersect, driverVars, taskVars, faultVars
<1>2. /\ main = "intersect" /\ common' = CommonInterfaces
      /\ main' = IF common' = {} THEN "failed" ELSE "ready"
  BY DEF Intersect
<1>3. TypeOK /\ lost' \in lost..setup.losses
  BY <1>1, Counts DEF IndInv
<1>4. CASE main' = "failed"
  <2>1. SUFFICES ASSUME Usable, ~expired, crashes = 0, ~(lost' >= Retries),
                        ~(lost > 0 /\ SomeoneDone)
                 PROVE  FALSE
    BY <1>4, EndedHealth DEF MainEnded, Explained
  <2>2. Live /\ ~Excused
    BY <1>1, <1>2, <2>1 DEF Live, Excused, MainEnded
  <2>3. Healthy /\ \A t \in Tasks : forTasks[t] # Unset
    BY <1>2, <2>2 DEF HealthInv, Healthy, MainHealthy
  <2>4. PICK i \in Interfaces : \A t \in Tasks : Route(RunsOn(t), RunsOn(Next1(t)), i) = i
    BY <2>1 DEF Usable
  <2>5. ASSUME NEW t \in Tasks PROVE i \in forTasks[t]
    <3>1. Previous(t) \in Tasks /\ Next1(Previous(t)) = t
      BY <1>3, RingInverse
    <3>2. Routable(Previous(t)) \subseteq forTasks[t]
      BY <2>3, <3>1 DEF Healthy, TaskHealthy, FindsNext
    <3> QED
      BY <2>4, <3>1, <3>2 DEF Routable
  <2>6. i \in common'
    BY <1>2, <2>5 DEF CommonInterfaces
  <2> QED
    BY <1>2, <1>4, <2>6
<1>5. CASE main' = "ready"
  <2>1. client' = [client EXCEPT ![Driver] = client[Driver]] /\ client[Driver] \in ClientRecords
    BY <1>1, <1>3, Context DEF TypeOK
  <2>2. EarlyInv'
    BY <1>5 DEF EarlyInv, BeforeTelling
  <2>3. Healthy => MainHealthy'
    BY <1>1, <1>5 DEF Healthy, MainHealthy, Driver
  <2>4. ASSUME Healthy, ~Excused', NEW t \in Tasks
        PROVE  \/ pc[t] \in HaveReported \cup {"new"}
               \/ pc[t] = "report" /\ client[t].phase = "answered"
    <3>1. lost = 0
      BY <1>1, <1>3, <1>5, <2>4, Counts DEF Excused, SomeoneDone
    <3>2. forTasks[Next1(t)] # Unset
      BY <1>2, <1>3, <2>4, RingInverse DEF Healthy, MainHealthy
    <3> QED
      BY <2>4, <3>1, <3>2 DEF Healthy, TaskHealthy, FindsNext
  <2>5. HealthInv'
    BY <1>1, <1>2, <1>3, <1>5, <2>1, <2>2, <2>3, <2>4, MainMovesHealthy DEF MainEnded
  <2> QED
    BY <1>5, <2>5 DEF Explained
<1> QED
  BY <1>2, <1>4, <1>5

LEMMA ExitLauncherHealth ==
    ASSUME IndInv, HealthInv, NEW t \in Tasks, ExitLauncher(t)
    PROVE  HealthInv' /\ Explained
<1>1. UNCHANGED lost /\ pc[t] \in {"raised", "killed"} /\ main' = "killed"
  BY DEF ExitLauncher, faultVars
<1>2. Live => Excused
  BY <1>1 DEF HealthInv, Healthy, TaskHealthy
<1> QED
  BY <1>1, <1>2, EndedHealth DEF MainEnded, Explained, Live, Excused

-----------------------------------------------------------------------------
(* Health and the steps of a task *)

\* A step of a task leaves main and the other tasks as healthy as they were.
LEMMA TaskMovesHealthy ==
    ASSUME IndInv, HealthInv, NEW t \in Tasks, NEW s, NEW cl,
           pc' = [pc EXCEPT ![t] = s], client' = [client EXCEPT ![t] = cl],
           UNCHANGED <<setup, main, remote, turn, forDriver, forTasks, told, expired>>,
           lost' \in lost..setup.losses, crashes' \in Nat, crashes <= crashes',
           pc[t] # "done", main \notin {"resolve", "ssh"},
           Live /\ ~Excused /\ Live' /\ ~Excused' /\ Healthy => TaskHealthy(t)'
    PROVE  HealthInv' /\ Explained
<1>1. TypeOK /\ lost \in Nat /\ lost' \in Nat /\ lost <= lost'
  BY Counts DEF IndInv
<1>2. /\ \A u \in Tasks \ {t} : client'[u] = client[u] /\ pc'[u] = pc[u]
      /\ client'[Driver] = client[Driver]
      /\ \A c \in Clients : client[c].tries \in Nat
  BY <1>1, Context, Counts DEF TypeOK
<1>3. EarlyInv'
  BY <1>1, <1>2, Context DEF HealthInv, EarlyInv, Driver
<1>4. SUFFICES ASSUME Live', ~Excused' PROVE Healthy'
  BY <1>3 DEF HealthInv, Explained, MainEnded
<1>5. Live /\ ~Excused
  BY <1>1, <1>2, <1>4, LiveBefore
<1>6. Healthy /\ TaskHealthy(t)'
  BY <1>4, <1>5 DEF HealthInv
<1>7. MainHealthy'
  <2>1. client'[Driver].tries <= lost'
    BY <1>1, <1>2, <1>6, Context DEF Healthy, MainHealthy
  <2>2. main = "clients" =>
           (client[Driver].found # <<>> \/
              \E i \in client[Driver].todo : Route(Here, RunsOn(turn), i) \in Seen)'
    BY <1>1, <1>2, <1>6, PlacesSame DEF Healthy, MainHealthy, Here, Driver, Seen,
       Route, RunsOn, MachineOf
  <2> QED
    BY <1>1, <1>2, <1>6, <2>1, <2>2, Context DEF Healthy, MainHealthy, Driver
<1>8. ASSUME NEW u \in Tasks \ {t} PROVE TaskHealthy(u)'
  <2>1. /\ TaskHealthy(u) /\ Next1(u)' = Next1(u) /\ client'[u] = client[u]
        /\ pc'[u] = pc[u] /\ client[u].tries \in Nat
    BY <1>1, <1>2, <1>6, Context DEF Healthy
  <2>2. ReachesDriver(u)' /\ FindsNext(u)'
    BY <1>1, <2>1, PlacesSame DEF TaskHealthy, ReachesDriver, FindsNext, Here
  <2> QED
    BY <1>1, <2>1, <2>2 DEF TaskHealthy
<1> QED
  BY <1>1, <1>6, <1>7, <1>8, Context DEF Healthy

\* What the next lemmas use of a task and of what it knows of the others.
LEMMA TaskContext ==
    ASSUME IndInv, NEW t \in Tasks, UNCHANGED <<setup, remote>>
    PROVE  /\ TypeOK /\ t # Driver /\ t \in Clients /\ client[t] \in ClientRecords
           /\ client[t].found \in Seq(Interfaces) /\ client[t].todo \subseteq Interfaces
           /\ client[t].tries \in Nat
           /\ lost \in Nat /\ lost <= setup.losses /\ lost \in lost..setup.losses
           /\ crashes \in Nat /\ crashes <= crashes
           /\ Next1(t) \in Tasks /\ Next1(t)' = Next1(t) /\ Next1(t) # Driver
           /\ pc[t] # "new" => main \notin {"resolve", "ssh"}
           /\ Routable(t)' = Routable(t) /\ Routable(t) \subseteq Interfaces
           /\ \A i : Route(RunsOn(t), Here, i)' = Route(RunsOn(t), Here, i)
           /\ \A i : Route(Here, RunsOn(t), i)' = Route(Here, RunsOn(t), i)
<1>1. TypeOK
  BY DEF IndInv
<1>2. /\ Routable(t)' = Routable(t) /\ Routable(t) \subseteq Interfaces
      /\ \A i : Route(RunsOn(t), Here, i)' = Route(RunsOn(t), Here, i)
      /\ \A i : Route(Here, RunsOn(t), i)' = Route(Here, RunsOn(t), i)
  BY <1>1, PlacesSame DEF Routable, Route, RunsOn, MachineOf, Here
<1>3. /\ t # Driver /\ t \in Clients /\ client[t] \in ClientRecords
      /\ Next1(t) \in Tasks /\ Next1(t)' = Next1(t) /\ Next1(t) # Driver
  BY <1>1, Context, Ring
<1>4. client[t].found \in Seq(Interfaces) /\ client[t].todo \subseteq Interfaces
  BY <1>3 DEF ClientRecords
<1>5. /\ client[t].tries \in Nat /\ crashes \in Nat /\ crashes <= crashes
      /\ lost \in Nat /\ lost <= setup.losses /\ lost \in lost..setup.losses
  BY <1>1, <1>3, Counts
<1>6. pc[t] # "new" => main \notin {"resolve", "ssh"}
  BY DEF IndInv, RouteInv
<1> QED
  BY <1>1, <1>2, <1>3, <1>4, <1>5, <1>6

LEMMA LaunchHealth ==
    ASSUME IndInv, HealthInv, NEW t \in Tasks, Launch(t)
    PROVE  HealthInv' /\ Explained
<1>1. UNCHANGED <<setup, main, remote, turn, forDriver, forTasks, told, expired, lost, crashes>>
  BY DEF Launch, driverVars, taskVars, faultVars
<1>2. /\ pc[t] = "new" /\ main \in DriverStates
      /\ pc' = [pc EXCEPT ![t] = "connect"]
      /\ client' = [client EXCEPT ![t] = Connecting(Interfaces)]
  BY DEF Launch
<1>3. pc'[t] = "connect" /\ client'[t] = Connecting(Interfaces)
  BY <1>1, <1>2, TaskContext DEF TypeOK
<1>4. client'[t].todo = Interfaces /\ client'[t].found = <<>> /\ client'[t].tries = 0
  BY <1>3 DEF Connecting, Probing
<1>5. ASSUME Healthy, Live PROVE TaskHealthy(t)'
  <2>1. PICK i \in Interfaces : Route(RunsOn(t), Here, i) \in Seen
    BY <1>5 DEF Live, Usable
  <2>2. TaskHealthy(t)
    BY <1>5 DEF Healthy
  <2>3. ReachesDriver(t)'
    <3>1. ToSet(<<>>) = {}
      BY EmptySeq, ToSetFound
    <3> QED
      BY <1>1, <1>3, <1>4, <2>1, <2>2, <3>1, TaskContext
      DEF TaskHealthy, ReachesDriver, Seen, Unset
  <2>4. FindsNext(t)'
    BY <1>1, <1>2, <1>3, <2>2, TaskContext DEF TaskHealthy, FindsNext, HaveReported, Unset
  <2> QED
    BY <1>1, <1>2, <1>3, <1>4, <2>2, <2>3, <2>4, TaskContext
    DEF TaskHealthy, HaveReported, DriverStates
<1> QED
  BY <1>1, <1>2, <1>5, TaskContext, TaskMovesHealthy DEF DriverStates

\* A task that probes the driver or the next task finds them up.
LEMMA ProbesAnswered ==
    ASSUME IndInv, HealthInv, Live, ~Excused, NEW t \in Tasks, NEW i \in client[t].todo,
           \/ pc[t] = "connect" /\ Route(RunsOn(t), Here, i) \in Seen
           \/ pc[t] = "probe" /\ i \in Routable(t)
    PROVE  i \in Answering(t)
<1>1. Healthy /\ TypeOK /\ t # Driver /\ Next1(t) \in Tasks /\ Next1(t) # Driver
  BY Ring, RingInverse DEF HealthInv, IndInv
<1>2. CASE pc[t] = "connect" /\ Route(RunsOn(t), Here, i) \in Seen
  <2>1. Up(Driver)
    BY <1>1, <1>2, DriverUp DEF HaveReported
  <2> QED
    BY <1>1, <1>2, <2>1 DEF Answering, Step, Server, ProbeAccepts, Where
<1>3. CASE pc[t] = "probe" /\ i \in Routable(t)
  <2>1. Up(Next1(t))
    BY <1>1, <1>3, NextUp
  <2> QED
    BY <1>1, <1>3, <2>1 DEF Answering, Step, Server, ProbeAccepts, Where, Routable, Seen
<1> QED
  BY <1>2, <1>3

LEMMA ConnectedHealth ==
    ASSUME IndInv, HealthInv, NEW t \in Tasks, Connected(t)
    PROVE  HealthInv' /\ Explained
<1>1. UNCHANGED <<setup, main, remote, turn, forDriver, forTasks, told, expired, lost, crashes>>
  BY Ring DEF IndInv, Connected, Raises, At, driverVars, taskVars, faultVars
<1>2. TypeOK /\ pc[t] \in {"connect", "probe"} /\ t # Driver /\ Answering(t) = {}
  BY <1>1, TaskContext DEF Connected
<1>3. CASE /\ client[t].found = <<>> /\ pc' = [pc EXCEPT ![t] = "raised"]
           /\ client' = [client EXCEPT ![t] = Idle]
  <2>1. ASSUME Live, ~Excused, Healthy PROVE FALSE
    <3>1. ToSet(client[t].found) = {} /\ TaskHealthy(t)
      BY <1>3, <2>1, EmptySeq, ToSetFound DEF Healthy
    <3>2. CASE pc[t] = "connect"
      BY <1>2, <1>3, <2>1, <3>1, <3>2, ProbesAnswered DEF TaskHealthy, ReachesDriver
    <3>3. CASE pc[t] = "probe"
      <4>1. PICK i \in Interfaces : i \in Routable(t)
        BY <2>1 DEF Live, Usable, Routable
      <4>2. i \in client[t].todo
        BY <3>1, <3>3, <4>1 DEF TaskHealthy, FindsNext
      <4> QED
        BY <1>2, <2>1, <3>3, <4>1, <4>2, ProbesAnswered
    <3> QED
      BY <1>2, <3>2, <3>3
  <2> QED
    BY <1>1, <1>2, <1>3, <2>1, TaskContext, TaskMovesHealthy
<1>4. CASE /\ client[t].found # <<>>
           /\ pc' = [pc EXCEPT ![t] = IF pc[t] = "connect" THEN "register" ELSE "report"]
           /\ client' = [client EXCEPT ![t] = Calling(@.found, 0)]
  <2> DEFINE cl == Calling(client[t].found, 0)
             s == IF pc[t] = "connect" THEN "register" ELSE "report"
  <2>1. cl.phase = "call" /\ cl.found = client[t].found /\ cl.tries = 0
    BY DEF Calling
  <2> HIDE DEF cl
  <2>2. client' = [client EXCEPT ![t] = cl] /\ pc'[t] = s /\ client'[t] = cl
    BY <1>1, <1>2, <1>4, TaskContext DEF TypeOK, cl
  <2>3. ASSUME Live, ~Excused, Healthy PROVE TaskHealthy(t)'
    <3>1. TaskHealthy(t)
      BY <2>3 DEF Healthy
    <3>2. ReachesDriver(t)'
      BY <1>1, <1>2, <1>4, <2>1, <2>2, <3>1, TaskContext
      DEF TaskHealthy, ReachesDriver, Seen, Unset
    <3>3. pc[t] = "probe" => Routable(t) \subseteq ToSet(client[t].found)
      <4>1. pc[t] = "probe" => Routable(t) \cap client[t].todo = {}
        BY <1>2, <2>3, ProbesAnswered
      <4> QED
        BY <3>1, <4>1 DEF TaskHealthy, FindsNext
    <3>4. FindsNext(t)'
      BY <1>1, <1>2, <2>1, <2>2, <3>1, <3>3, TaskContext
      DEF TaskHealthy, FindsNext, HaveReported, Unset
    <3> QED
      BY <1>1, <1>2, <2>1, <2>2, <3>1, <3>2, <3>4, TaskContext DEF TaskHealthy, HaveReported
  <2> QED
    BY <1>1, <1>2, <1>4, <2>2, <2>3, TaskContext, TaskMovesHealthy
<1> QED
  BY <1>2, <1>3, <1>4 DEF Connected, Raises, At

LEMMA WaitToBeToldHealth ==
    ASSUME IndInv, HealthInv, NEW t \in Tasks, WaitToBeTold(t)
    PROVE  HealthInv' /\ Explained
<1>1. UNCHANGED <<setup, main, remote, turn, forDriver, forTasks, told, expired, lost, crashes>>
  BY Ring DEF IndInv, WaitToBeTold, Arrive, Wake, Raises, At, driverVars, taskVars, faultVars
<1>2. TypeOK /\ t # Driver /\ client[t] \in ClientRecords /\ t \in Clients
  BY <1>1, TaskContext
<1>3. PICK s \in {"waitTold", "ask", "raised"} :
         /\ pc[t] \in {"registered", "waitTold"} /\ pc' = [pc EXCEPT ![t] = s]
         /\ s = "ask" => told[t]
         /\ s = "raised" => expired
  BY <1>2 DEF WaitToBeTold, Arrive, Wake, Raises, At, Step
<1> DEFINE cl == IF s = "ask" THEN Calling(client[t].found, 0) ELSE client[t]
<1>4. cl.tries = IF s = "ask" THEN 0 ELSE client[t].tries
  BY DEF Calling
<1> HIDE DEF cl
<1>5. pc'[t] = s
  BY <1>2, <1>3 DEF TypeOK
<1>6. client' = [client EXCEPT ![t] = cl] /\ client'[t] = cl
  BY <1>2, <1>5 DEF WaitToBeTold, TypeOK, cl
<1>7. ASSUME Live, ~Excused, Healthy PROVE TaskHealthy(t)'
  <2>1. TaskHealthy(t) /\ s # "raised"
    BY <1>3, <1>7 DEF Healthy, Live
  <2>2. ReachesDriver(t)' /\ FindsNext(t)'
    BY <1>1, <1>3, <1>5, <2>1, TaskContext
    DEF TaskHealthy, ReachesDriver, FindsNext, HaveReported, Seen, Unset
  <2> QED
    BY <1>1, <1>3, <1>4, <1>5, <1>6, <2>1, <2>2, TaskContext DEF TaskHealthy, HaveReported
<1> QED
  BY <1>1, <1>3, <1>6, <1>7, TaskContext, TaskMovesHealthy

LEMMA WaitForSignalHealth ==
    ASSUME IndInv, HealthInv, NEW t \in Tasks, WaitForSignal(t)
    PROVE  HealthInv' /\ Explained
<1>1. UNCHANGED <<setup, main, remote, turn, forDriver, forTasks, told, client, expired,
                  lost, crashes>>
  BY Ring DEF IndInv, WaitForSignal, Arrive, Wake, Raises, At, driverVars, taskVars, faultVars
<1>2. TypeOK /\ t # Driver /\ client[t] \in ClientRecords /\ t \in Clients
  BY <1>1, TaskContext
<1>3. PICK s \in {"waitSignal", "done", "raised"} :
         /\ pc[t] \in {"signalled", "waitSignal"} /\ pc' = [pc EXCEPT ![t] = s]
         /\ s = "raised" => expired
  BY <1>2 DEF WaitForSignal, Arrive, Wake, Raises, At, Step
<1>4. pc'[t] = s /\ client' = [client EXCEPT ![t] = client[t]]
  BY <1>1, <1>2, <1>3 DEF TypeOK
<1>5. ASSUME Live, ~Excused, Healthy PROVE TaskHealthy(t)'
  <2>1. TaskHealthy(t) /\ s # "raised"
    BY <1>3, <1>5 DEF Healthy, Live
  <2>2. ReachesDriver(t)' /\ FindsNext(t)'
    BY <1>1, <1>3, <1>4, <2>1, TaskContext
    DEF TaskHealthy, ReachesDriver, FindsNext, HaveReported, Seen, Unset
  <2> QED
    BY <1>1, <1>3, <1>4, <2>1, <2>2, TaskContext DEF TaskHealthy, HaveReported
<1> QED
  BY <1>1, <1>3, <1>4, <1>5, TaskContext, TaskMovesHealthy

LEMMA CrashHealth ==
    ASSUME IndInv, HealthInv, NEW t \in Tasks, Crash(t)
    PROVE  HealthInv' /\ Explained
<1>1. UNCHANGED <<setup, main, remote, turn, forDriver, forTasks, told, expired, lost>>
  BY DEF Crash, driverVars, taskVars
<1>2. /\ pc[t] \notin {"new", "done"} /\ crashes' \in Nat /\ crashes <= crashes'
      /\ main \in MainEnded \/ crashes' # 0
      /\ pc' = [pc EXCEPT ![t] = "killed"] /\ client' = [client EXCEPT ![t] = Idle]
  BY <1>1, TaskContext DEF Crash, Running, TaskEnded
<1>3. ~Live'
  BY <1>1, <1>2 DEF Live, MainEnded
<1> QED
  BY <1>1, <1>2, <1>3, TaskContext, TaskMovesHealthy

-----------------------------------------------------------------------------
(* Health and the steps of the clients *)

\* A step of main's client for a task, while main builds or uses it.
LEMMA DriverMovesHealthy ==
    ASSUME IndInv, HealthInv, main \in {"clients", "notify"}, pc' = pc,
           main' \in {"clients", "notify", "waitUpdates"}, main' = "clients" => main = "clients",
           UNCHANGED <<setup, remote, forDriver, forTasks, told, expired, crashes>>,
           lost' \in lost..setup.losses,
           NEW cl \in ClientRecords, client' = [client EXCEPT ![Driver] = cl],
           Live /\ ~Excused /\ ~Excused' /\ Healthy => MainHealthy'
    PROVE  HealthInv' /\ Explained
<1>1. EarlyInv'
  BY Context DEF IndInv, HealthInv, EarlyInv, BeforeTelling
<1> QED
  BY <1>1, MainMovesHealthy DEF MainEnded, Explained

LEMMA ProbeHealth ==
    ASSUME IndInv, HealthInv, NEW c \in Clients, Running(c), Probe(c)
    PROVE  HealthInv' /\ Explained
<1>1. UNCHANGED <<setup, main, remote, turn, forDriver, forTasks, pc, told, expired, crashes>>
  BY DEF Probe, driverVars, taskVars
<1>2. /\ TypeOK /\ client[c].found \in Seq(Interfaces) /\ client[c].todo \subseteq Interfaces
      /\ lost \in Nat /\ setup.losses \in Nat /\ lost <= setup.losses
      /\ RetriesOf(c) \in Nat /\ RetriesOf(c) >= Retries /\ Retries \in Nat
  BY Counts DEF IndInv, TypeOK, ClientRecords
<1>3. PICK i \in Answering(c) :
         \/ /\ client' = [client EXCEPT ![c] = Probing(@.todo \ {i}, Append(@.found, i))]
            /\ lost' = lost
         \/ /\ client' = [client EXCEPT ![c] = Probing(@.todo \ {i}, @.found)]
            /\ lost' = lost + RetriesOf(c) /\ lost' <= setup.losses
  BY DEF Probe
<1>4. i \in client[c].todo /\ i \in Interfaces /\ Step(c) \in {"clients", "connect", "probe"}
  BY <1>2 DEF Answering
<1> DEFINE f == Append(client[c].found, i)
           found == Probing(client[c].todo \ {i}, f)
           missed == Probing(client[c].todo \ {i}, client[c].found)
<1>5. f \in Seq(Interfaces) /\ ToSet(f) = ToSet(client[c].found) \cup {i} /\ f # <<>>
  <2>1. f \in Seq(Interfaces) /\ ToSet(f) = ToSet(client[c].found) \cup {i}
    BY <1>2, <1>4, ToSetAppend
  <2> QED
    BY <1>2, <1>4, <2>1, EmptySeq, ToSetFound
<1> HIDE DEF f
<1>6. /\ found \in ClientRecords /\ missed \in ClientRecords
      /\ found.found = f /\ found.todo = client[c].todo \ {i} /\ found.tries = 0
  BY <1>2, <1>5, ClientUpdates DEF Probing
<1> HIDE DEF found, missed
<1>7. PICK cl \in ClientRecords :
         /\ client' = [client EXCEPT ![c] = cl] /\ lost' \in lost..setup.losses
         /\ cl = found \/ lost' >= Retries
  <2>1. CASE /\ client' = [client EXCEPT ![c] = Probing(@.todo \ {i}, Append(@.found, i))]
             /\ lost' = lost
    <3>1. client' = [client EXCEPT ![c] = found] /\ lost' \in lost..setup.losses
      BY <1>2, <2>1 DEF found, f
    <3> QED
      BY <1>6, <3>1
  <2>2. CASE /\ client' = [client EXCEPT ![c] = Probing(@.todo \ {i}, @.found)]
             /\ lost' = lost + RetriesOf(c) /\ lost' <= setup.losses
    <3>1. client' = [client EXCEPT ![c] = missed]
      BY <2>2 DEF missed
    <3>2. lost' \in lost..setup.losses /\ lost' >= Retries
      BY <1>2, <2>2
    <3> QED
      BY <1>6, <3>1, <3>2
  <2> QED
    BY <1>3, <2>1, <2>2
<1>8. /\ client'[c] = cl /\ lost' \in Nat
      /\ ~Excused' => cl = found
  BY <1>2, <1>7 DEF Excused, TypeOK
<1>9. CASE c = Driver
  <2>1. main = "clients"
    BY <1>2, <1>4, <1>9 DEF Step, TypeOK, MainSteps, DriverStates, MainEnded
  <2>2. ~Excused' => MainHealthy'
    BY <1>1, <1>5, <1>6, <1>8, <1>9, <2>1 DEF MainHealthy, Driver
  <2> QED
    BY <1>1, <1>7, <1>9, <2>1, <2>2, DriverMovesHealthy
<1>10. CASE c \in Tasks
  <2>1. /\ pc[c] \in {"connect", "probe"} /\ pc' = [pc EXCEPT ![c] = pc[c]] /\ pc'[c] = pc[c]
        /\ c # Driver /\ Step(c) = pc[c]
    <3>1. c # Driver /\ Step(c) = pc[c]
      BY <1>2, <1>10, Ring DEF Step
    <3>2. pc[c] \in {"connect", "probe"}
      BY <1>2, <1>4, <1>10, <3>1 DEF TypeOK, TaskSteps, TaskEnded
    <3> QED
      BY <1>1, <1>2, <1>10, <3>1, <3>2 DEF TypeOK
  <2>2. pc[c] = "connect" => Route(RunsOn(c), Here, i) \in Seen
    BY <2>1 DEF Answering, ProbeAccepts, Where, Server
  <2>3. ASSUME Live, ~Excused, ~Excused', Healthy PROVE TaskHealthy(c)'
    <3>1. TaskHealthy(c) /\ client'[c] = found
      BY <1>8, <1>10, <2>3 DEF Healthy
    <3>2. ReachesDriver(c)'
      BY <1>1, <1>5, <1>6, <1>10, <2>1, <2>2, <3>1, TaskContext
      DEF TaskHealthy, ReachesDriver, Seen, Unset
    <3>3. FindsNext(c)'
      BY <1>1, <1>5, <1>6, <1>10, <2>1, <3>1, TaskContext
      DEF TaskHealthy, FindsNext, HaveReported, Unset
    <3> QED
      BY <1>1, <1>2, <1>6, <1>8, <1>10, <2>1, <3>1, <3>2, <3>3, TaskContext
      DEF TaskHealthy, HaveReported
  <2> QED
    BY <1>1, <1>7, <1>10, <2>1, <2>3, TaskContext, TaskMovesHealthy
<1> QED
  BY <1>9, <1>10 DEF Clients

LEMMA ReturnHealth ==
    ASSUME IndInv, HealthInv, NEW c \in Clients, Running(c), Return(c)
    PROVE  HealthInv' /\ Explained
<1>1. UNCHANGED <<setup, remote, forDriver, forTasks, told, expired, lost, crashes>>
  BY DEF Return, driverVars, taskVars, faultVars
<1>2. /\ TypeOK /\ client[c] \in ClientRecords /\ client[c].found \in Seq(Interfaces)
      /\ lost \in Nat /\ lost' = lost /\ lost' \in lost..setup.losses
      /\ client[c].phase = "answered"
  BY <1>1, Counts DEF IndInv, TypeOK, ClientRecords, Return
<1>3. CASE c = Driver
  <2>1. main = "notify"
    BY <1>2, <1>3 DEF IndInv, PhaseInv, Running
  <2> DEFINE cl == IF turn' = 0 THEN Idle ELSE Calling(<<>>, 0)
  <2>2. /\ turn' = Next1(turn) /\ turn \in Tasks /\ turn' \in Tasks /\ pc' = pc
        /\ main' = IF turn' = 0 THEN "waitUpdates" ELSE "notify"
        /\ client' = [client EXCEPT ![c] = cl]
    BY <1>2, <1>3, RingInverse DEF Return, TypeOK
  <2>3. cl \in ClientRecords /\ cl.tries = 0
    BY ClientUpdates DEF Idle, Probing, Calling
  <2> HIDE DEF cl
  <2>4. client'[Driver] = cl
    BY <1>2, <1>3, <2>2 DEF TypeOK
  <2>5. main' = "notify" => turn' = turn + 1 /\ N \in Nat
    BY <1>2, <2>2, Ring
  <2>6. ASSUME Healthy PROVE MainHealthy'
    <3>1. \A t \in Tasks : told[t] => t < turn \/ t = turn
      BY <2>1, <2>6 DEF Healthy, MainHealthy
    <3>2. main' = "notify" => \A t \in Tasks : told[t] => t < turn'
      BY <2>2, <2>5, <3>1 DEF Tasks
    <3> QED
      BY <1>1, <1>2, <2>2, <2>3, <2>4, <3>2, Context DEF MainHealthy, Driver
  <2> QED
    BY <1>1, <1>2, <1>3, <2>1, <2>2, <2>3, <2>6, DriverMovesHealthy
<1>4. CASE c \in Tasks
  <2>1. /\ pc[c] \in {"register", "ask", "report", "signal"} /\ c # Driver
        /\ main \notin {"resolve", "ssh"}
    BY <1>2, <1>4, Ring DEF IndInv, PhaseInv, RouteInv
  <2> DEFINE cl == CASE pc[c] = "ask"    -> Connecting(Interfaces)
                     [] pc[c] = "report" -> Calling(client[c].found, 0)
                     [] pc[c] = "signal" -> Idle
                     [] OTHER            -> Probing({}, client[c].found)
             s == AfterCall(c)
  <2>2. /\ pc[c] = "ask" => s = "probe" /\ cl.tries = 0 /\ cl.todo = Interfaces
        /\ pc[c] = "report" => s = "signal" /\ cl.tries = 0
        /\ pc[c] = "signal" => s = "signalled" /\ cl.tries = 0
        /\ pc[c] = "register" => s = "registered" /\ cl.tries = 0
    BY DEF AfterCall, Connecting, Probing, Idle, Calling
  <2>3. client' = [client EXCEPT ![c] = cl] /\ pc' = [pc EXCEPT ![c] = s] /\ main' = main /\ turn' = turn
    BY <2>1 DEF Return, At
  <2> HIDE DEF cl, s
  <2>4. pc'[c] = s /\ client'[c] = cl
    BY <1>2, <1>4, <2>3 DEF TypeOK
  <2>5. ASSUME Live, ~Excused, Healthy PROVE TaskHealthy(c)'
    <3>1. TaskHealthy(c)
      BY <1>4, <2>5 DEF Healthy
    <3>2. ReachesDriver(c)'
      BY <1>1, <1>4, <2>1, <2>2, <2>4, <3>1, TaskContext
      DEF TaskHealthy, ReachesDriver, Seen, Unset
    <3>3. FindsNext(c)'
      BY <1>1, <1>4, <2>1, <2>2, <2>4, <3>1, TaskContext
      DEF TaskHealthy, FindsNext, HaveReported, Unset
    <3> QED
      BY <1>1, <1>2, <1>4, <2>1, <2>2, <2>3, <2>4, <3>1, <3>2, <3>3, TaskContext
      DEF TaskHealthy, HaveReported
  <2> QED
    BY <1>1, <1>2, <1>4, <2>1, <2>3, <2>5, TaskContext, TaskMovesHealthy
<1> QED
  BY <1>3, <1>4 DEF Clients

\* Nobody is refused, as long as everyone is healthy.
LEMMA RefusedHealth ==
    ASSUME IndInv, HealthInv, NEW c \in Clients, Running(c), Refused(c)
    PROVE  HealthInv' /\ Explained
<1>1. UNCHANGED <<setup, remote, turn, forDriver, forTasks, told, expired, lost, crashes>>
  BY DEF Refused, driverVars, taskVars, faultVars
<1>2. TypeOK /\ lost \in Nat /\ lost' = lost /\ lost' \in lost..setup.losses /\ client[c].phase # "none"
  BY <1>1, Counts DEF IndInv, Refused
<1>3. ~(Live /\ ~Excused)
  <2>1. SUFFICES ASSUME Live, ~Excused PROVE FALSE
    OBVIOUS
  <2>2. Healthy /\ EarlyInv
    BY <2>1 DEF HealthInv
  <2> QED
    BY <1>2, <2>1, <2>2, NotRefused DEF Refused
<1>4. Explained
  BY <1>1, <1>3 DEF Explained, Live, Excused
<1>5. CASE c = Driver
  <2>1. main = "notify"
    BY <1>2, <1>5 DEF IndInv, PhaseInv, Running
  <2>2. CASE main' = main /\ pc' = pc
    <3>1. EarlyInv'
      BY <2>1, <2>2 DEF EarlyInv, BeforeTelling
    <3>2. ~(Live' /\ ~Excused')
      BY <1>1, <1>2, <1>3, <2>1, <2>2, Counts, LiveBefore DEF MainEnded
    <3> QED
      BY <1>4, <3>1, <3>2 DEF HealthInv
  <2>3. CASE main' = "failed"
    BY <1>4, <2>3, EndedHealth DEF MainEnded
  <2> QED
    BY <1>5, <2>2, <2>3 DEF Refused, Retry, Raises, At
<1>6. CASE c \in Tasks
  <2>1. c # Driver /\ pc[c] \in {"register", "ask", "report", "signal"} /\ main \notin {"resolve", "ssh"}
    BY <1>2, <1>6, Ring DEF IndInv, PhaseInv, RouteInv
  <2>2. PICK s, cl : /\ pc' = [pc EXCEPT ![c] = s] /\ client' = [client EXCEPT ![c] = cl]
                     /\ main' = main
    <3>1. pc = [pc EXCEPT ![c] = pc[c]]
      BY <1>2, <1>6 DEF TypeOK
    <3> QED
      BY <2>1, <3>1 DEF Refused, Retry, Raises, At
  <2> QED
    BY <1>1, <1>2, <1>3, <1>6, <2>1, <2>2, TaskContext, TaskMovesHealthy
<1> QED
  BY <1>5, <1>6 DEF Clients

\* A client gives up only when as many exchanges were lost as it made attempts.
LEMMA LoseHealth ==
    ASSUME IndInv, HealthInv, NEW c \in Clients, Running(c), Lose(c)
    PROVE  HealthInv' /\ Explained
<1>1. UNCHANGED <<setup, remote, turn, forDriver, forTasks, told, expired, crashes>>
  BY DEF Lose, driverVars, taskVars
<1>2. /\ TypeOK /\ lost \in Nat /\ lost' = lost + 1 /\ lost' \in lost..setup.losses
      /\ client[c].phase # "none" /\ client[c].tries \in Nat
      /\ RetriesOf(c) \in Nat /\ RetriesOf(c) >= Retries /\ Retries \in Nat
      /\ client[c].found \in Seq(Interfaces) /\ crashes \in Nat
      /\ NextRetries \in Nat /\ RetriesOf(c) <= NextRetries + Retries
  <2>1. TypeOK
    BY DEF IndInv
  <2>2. RetriesOf(c) <= NextRetries + Retries
    BY LauncherAssumption DEF RetriesOf
  <2> QED
    <3>1. client[c].phase # "none" /\ lost < setup.losses /\ lost' = lost + 1
      BY DEF Lose
    <3>2. client[c].found \in Seq(Interfaces)
      BY <2>1 DEF TypeOK, ClientRecords
    <3> QED
      BY <2>1, <2>2, <3>1, <3>2, Counts
<1> DEFINE again == Calling(client[c].found, client[c].tries + 1)
<1>3. /\ again.found = client[c].found /\ again.phase = "call" /\ again.todo = {}
      /\ again.tries = client[c].tries + 1
      /\ client[c].tries + 1 < RetriesOf(c) => again \in ClientRecords
  BY <1>2, ClientUpdates DEF Calling
<1> HIDE DEF again
<1>4. Healthy => client[c].tries <= lost
  BY DEF Healthy, MainHealthy, TaskHealthy, Clients
<1>5. CASE c = Driver
  <2>1. main = "notify"
    BY <1>2, <1>5 DEF IndInv, PhaseInv, Running
  <2>2. CASE /\ client[c].tries + 1 < RetriesOf(c) /\ client' = [client EXCEPT ![c] = again]
             /\ UNCHANGED <<main, pc>>
    <3>1. client'[Driver] = again
      BY <1>2, <1>5, <2>2 DEF TypeOK
    <3>2. ASSUME Healthy PROVE MainHealthy'
      <4>1. \A t \in Tasks : told[t] => t < turn \/ t = turn
        BY <2>1, <3>2 DEF Healthy, MainHealthy
      <4>2. client'[Driver].tries <= lost' /\ lost' > 0
        BY <1>2, <1>3, <1>4, <1>5, <3>1, <3>2
      <4> QED
        BY <1>1, <1>2, <2>1, <2>2, <4>1, <4>2, Context DEF MainHealthy, Driver
    <3> QED
      BY <1>1, <1>2, <1>3, <1>5, <2>1, <2>2, <3>2, DriverMovesHealthy
  <2>3. CASE client[c].tries + 1 >= RetriesOf(c) /\ main' = "failed"
    <3>1. Live /\ ~Excused => lost' >= Retries
      BY <1>2, <1>4, <2>3 DEF HealthInv
    <3>2. Excused => lost' >= Retries \/ (lost > 0 /\ SomeoneDone)
      BY <1>2 DEF Excused
    <3> QED
      BY <2>1, <2>3, <3>1, <3>2, EndedHealth DEF Explained, MainEnded, Live
  <2> QED
    BY <1>5, <2>2, <2>3 DEF Lose, Retry, Raises, At, again
<1>6. CASE c \in Tasks
  <2>1. c # Driver /\ pc[c] \in {"register", "ask", "report", "signal"} /\ main \notin {"resolve", "ssh"}
    BY <1>2, <1>6, Ring DEF IndInv, PhaseInv, RouteInv
  <2>2. CASE /\ client[c].tries + 1 < RetriesOf(c) /\ client' = [client EXCEPT ![c] = again]
             /\ UNCHANGED <<main, pc>>
    <3>1. client'[c] = again /\ pc' = [pc EXCEPT ![c] = pc[c]]
      BY <1>2, <1>6, <2>2 DEF TypeOK
    <3>2. ASSUME Live, ~Excused, ~Excused', Healthy PROVE TaskHealthy(c)'
      <4>1. TaskHealthy(c) /\ lost' > 0 /\ main # "ready"
        BY <1>2, <1>6, <2>2, <3>2 DEF Healthy, Excused, SomeoneDone
      <4>2. ReachesDriver(c)'
        BY <1>1, <1>3, <1>6, <2>1, <2>2, <3>1, <4>1, TaskContext
        DEF TaskHealthy, ReachesDriver, Seen, Unset
      <4>3. FindsNext(c)'
        BY <1>1, <1>2, <1>3, <1>6, <2>1, <2>2, <3>1, <4>1, TaskContext
        DEF TaskHealthy, FindsNext, HaveReported, Unset
      <4> QED
        BY <1>1, <1>2, <1>3, <1>4, <1>6, <2>1, <2>2, <3>1, <3>2, <4>1, <4>2, <4>3
        DEF TaskHealthy, HaveReported
    <3> QED
      BY <1>1, <1>2, <1>6, <2>1, <2>2, <3>1, <3>2, TaskContext, TaskMovesHealthy
  <2>3. CASE /\ client[c].tries + 1 >= RetriesOf(c) /\ client' = [client EXCEPT ![c] = Idle]
             /\ pc' = [pc EXCEPT ![c] = "raised"] /\ UNCHANGED main
    <3>1. Healthy => lost' >= Retries
      BY <1>2, <1>4, <2>3
    <3>2. Healthy => Excused'
      BY <3>1 DEF Excused
    <3> QED
      BY <1>1, <1>2, <1>6, <2>1, <2>3, <3>2, TaskContext, TaskMovesHealthy
  <2> QED
    BY <2>1, <2>2, <2>3 DEF Lose, Retry, Raises, At, again
<1> QED
  BY <1>5, <1>6 DEF Clients

\* A client that hangs does not fail, and neither does anyone before the deadline.
LEMMA SilentHealth ==
    ASSUME IndInv, HealthInv, NEW c \in Clients, Running(c), LoseSilently(c)
    PROVE  HealthInv' /\ Explained
<1>1. /\ UNCHANGED <<setup, main, remote, turn, forDriver, forTasks, pc, told, expired, crashes>>
      /\ TypeOK /\ lost \in Nat /\ lost' = lost + 1 /\ lost' \in lost..setup.losses
      /\ client[c].phase # "none"
  BY SilentFrame
<1>2. PICK cl \in ClientRecords :
         /\ client' = [client EXCEPT ![c] = cl] /\ cl.phase = "silent"
         /\ cl.found = client[c].found /\ cl.todo = client[c].todo
         /\ cl.tries = client[c].tries
  BY SilentFrame
<1>3. Healthy => client[c].tries <= lost
  BY DEF Healthy, MainHealthy, TaskHealthy, Clients
<1>4. client[c].tries \in Nat /\ client[c].found \in Seq(Interfaces) /\ crashes \in Nat
  BY <1>1, Counts DEF TypeOK, ClientRecords
<1>5. CASE c = Driver
  <2>1. main = "notify" /\ client'[Driver] = cl
    BY <1>1, <1>2, <1>5 DEF IndInv, PhaseInv, Running, TypeOK
  <2>2. ASSUME Healthy PROVE MainHealthy'
    <3>1. \A t \in Tasks : told[t] => t < turn \/ t = turn
      BY <2>1, <2>2 DEF Healthy, MainHealthy
    <3>2. client'[Driver].tries <= lost' /\ lost' > 0
      BY <1>1, <1>2, <1>3, <1>4, <1>5, <2>1, <2>2
    <3> QED
      BY <1>1, <2>1, <3>1, <3>2, Context DEF MainHealthy, Driver
  <2> QED
    BY <1>1, <1>2, <1>4, <1>5, <2>1, <2>2, DriverMovesHealthy
<1>6. CASE c \in Tasks
  <2>1. c # Driver /\ pc[c] \in {"register", "ask", "report", "signal"} /\ main \notin {"resolve", "ssh"}
    BY <1>1, <1>6, Ring DEF IndInv, PhaseInv, RouteInv
  <2>2. client'[c] = cl /\ pc' = [pc EXCEPT ![c] = pc[c]]
    BY <1>1, <1>2, <1>6 DEF TypeOK
  <2>3. ASSUME Live, ~Excused, ~Excused', Healthy PROVE TaskHealthy(c)'
    <3>1. TaskHealthy(c) /\ lost' > 0 /\ main # "ready"
      BY <1>1, <1>6, <2>3 DEF Healthy, Excused, SomeoneDone
    <3>2. ReachesDriver(c)'
      BY <1>1, <1>2, <1>6, <2>1, <2>2, <3>1, TaskContext
      DEF TaskHealthy, ReachesDriver, Seen, Unset
    <3>3. FindsNext(c)'
      BY <1>1, <1>2, <1>6, <2>1, <2>2, <3>1, TaskContext
      DEF TaskHealthy, FindsNext, HaveReported, Unset
    <3> QED
      BY <1>1, <1>2, <1>3, <1>4, <1>6, <2>1, <2>2, <2>3, <3>1, <3>2, <3>3
      DEF TaskHealthy, HaveReported
  <2> QED
    BY <1>1, <1>2, <1>6, <2>1, <2>2, <2>3, TaskContext, TaskMovesHealthy
<1> QED
  BY <1>5, <1>6 DEF Clients

-----------------------------------------------------------------------------
(* Health and the handlers of the services *)

\* A handler changes the tables and the phase of its caller; everyone stays
\* healthy when what it writes is.
LEMMA HandledHealthy ==
    ASSUME IndInv, HealthInv, NEW c \in Clients, Running(c), Deliver(c),
           \A t \in Tasks : told'[t] => told[t] \/ (main = "notify" /\ c = Driver /\ t = turn),
           \A t \in Tasks : told[t] => told'[t],
           \A t \in Tasks : forTasks[t] # Unset => forTasks'[t] # Unset,
           Live /\ ~Excused /\ Healthy =>
              \A t \in Tasks :
                 /\ forDriver'[t] # Unset =>
                      \E i \in Interfaces :
                         forDriver'[t] = {i} /\ Route(Here, RunsOn(t), i) \in Seen
                 /\ forTasks'[Next1(t)] # Unset =>
                      /\ Routable(t) \subseteq forTasks'[Next1(t)]
                      /\ pc[t] \in HaveReported \cup {"report"}
                 /\ (pc[t] = "report" /\ client'[t].phase # "answered" /\ lost = 0) =>
                      forTasks'[Next1(t)] = Unset
    PROVE  HealthInv' /\ Explained
<1>1. /\ UNCHANGED <<setup, main, remote, turn, pc, expired, lost, crashes>>
      /\ TypeOK /\ client'[c].phase = "answered"
      /\ \A d \in Clients \ {c} : client'[d] = client[d]
  BY DeliverFrame
<1>2. \A d \in Clients : /\ client'[d].found = client[d].found
                         /\ client'[d].todo = client[d].todo
                         /\ client'[d].tries = client[d].tries
                         /\ client[d].phase = "answered" => client'[d].phase = "answered"
  <2>1. client' = [client EXCEPT ![c].phase = "answered"]
    BY DEF Deliver
  <2> QED
    BY <1>1, <2>1 DEF TypeOK, ClientRecords
<1>3. lost' \in lost..setup.losses /\ crashes' \in Nat /\ crashes <= crashes' /\ lost \in Nat
  BY <1>1, Counts
<1>4. client[c].phase = "call"
  BY DEF Deliver
<1>5. EarlyInv'
  <2>1. main \in {"resolve", "ssh"} => FALSE
    <3>1. main \in {"resolve", "ssh"} => client[c] = Idle
      BY <1>1, Ring DEF HealthInv, EarlyInv, BeforeTelling, Clients
    <3> QED
      BY <1>4, <3>1 DEF Idle, Probing
  <2>2. main \in BeforeTelling \ {"clients"} => c # Driver
    BY <1>4 DEF HealthInv, EarlyInv, Idle, Probing
  <2>3. main \in BeforeTelling => main # "notify"
    BY DEF BeforeTelling
  <2>4. \A t \in Tasks : main \in BeforeTelling => ~told'[t]
    BY <2>3 DEF HealthInv, EarlyInv
  <2>5. main \in BeforeTelling \ {"clients"} => turn = 0 /\ client'[Driver] = Idle
    BY <1>1, <2>2, Context DEF HealthInv, EarlyInv
  <2> QED
    BY <1>1, <2>1, <2>4, <2>5, Context DEF EarlyInv, Driver, BeforeTelling
<1>6. SUFFICES ASSUME Live', ~Excused' PROVE Healthy'
  BY <1>1, <1>5 DEF HealthInv, Explained, MainEnded
<1>7. Live /\ ~Excused
  BY <1>1, <1>3, <1>6, LiveBefore
<1>8. Healthy
  BY <1>7 DEF HealthInv
<1>9. MainHealthy'
  <2>1. client'[Driver].tries <= lost'
    BY <1>1, <1>2, <1>8, Context DEF Healthy, MainHealthy
  <2>2. main = "clients" =>
           (client[Driver].found # <<>> \/
              \E i \in client[Driver].todo : Route(Here, RunsOn(turn), i) \in Seen)'
    BY <1>1, <1>2, <1>8, Context DEF Healthy, MainHealthy, Here, Driver, Seen,
       Route, RunsOn, MachineOf
  <2>3. main = "notify" =>
           \A t \in Tasks : told'[t] =>
              t < turn \/ (t = turn /\ (client'[Driver].phase = "answered" \/ lost > 0))
    BY <1>1, <1>2, <1>8, Context DEF Healthy, MainHealthy
  <2>4. main = "intersect" => \A t \in Tasks : forTasks'[t] # Unset
    BY <1>8 DEF Healthy, MainHealthy
  <2> QED
    BY <1>1, <2>1, <2>2, <2>3, <2>4, Context DEF MainHealthy, Driver, Unset
<1>10. ASSUME NEW t \in Tasks PROVE TaskHealthy(t)'
  <2>1. TaskHealthy(t) /\ t \in Clients
    BY <1>8 DEF Healthy, Clients
  <2>2. ReachesDriver(t)'
    BY <1>1, <1>2, <1>7, <1>8, <2>1, TaskContext
    DEF TaskHealthy, ReachesDriver, Seen, Unset
  <2>3. FindsNext(t)'
    BY <1>1, <1>2, <1>7, <1>8, <2>1, TaskContext DEF TaskHealthy, FindsNext, Unset
  <2> QED
    BY <1>1, <1>2, <2>1, <2>2, <2>3 DEF TaskHealthy
<1> QED
  BY <1>1, <1>9, <1>10, Context DEF Healthy

\* The driver can call a task back at the address it registers.
LEMMA RegisterHealth ==
    ASSUME IndInv, HealthInv, NEW c \in Tasks, Running(c), Deliver(c), pc[c] = "register",
           HandleRegisterTask(c)
    PROVE  HealthInv' /\ Explained
<1>1. /\ c \in Clients /\ TypeOK /\ UNCHANGED <<setup, remote, lost>>
      /\ \A d \in Clients \ {c} : client'[d] = client[d]
  BY DeliverFrame DEF Clients
<1>2. forDriver' = [forDriver EXCEPT ![c] = FilterByIp(c)] /\ UNCHANGED <<forTasks, told>>
  BY DEF HandleRegisterTask, taskVars
<1>3. forDriver'[c] = FilterByIp(c) /\ \A t \in Tasks \ {c} : forDriver'[t] = forDriver[t]
  BY <1>1, <1>2 DEF TypeOK
<1>4. ASSUME Live, Healthy
      PROVE  \E i \in Interfaces : FilterByIp(c) = {i} /\ Route(Here, RunsOn(c), i) \in Seen
  <2> DEFINE h == Head(client[c].found)
             seen == Route(RunsOn(c), Here, h)
  <2>1. client[c].found \in Seq(Interfaces) /\ client[c].found # <<>>
    BY <1>1, <1>4, TaskContext DEF Healthy, TaskHealthy, ReachesDriver
  <2>2. h \in ToSet(client[c].found) /\ h \in Interfaces
    <3>1. h \in Interfaces /\ h = client[c].found[1] /\ 1 \in DOMAIN client[c].found
      BY <2>1, HeadTailProperties, LenProperties, EmptySeq
    <3> QED
      BY <3>1 DEF ToSet
  <2>3. seen \in Seen
    BY <1>4, <2>2 DEF Healthy, TaskHealthy, ReachesDriver
  <2>4. seen \in Interfaces /\ Route(Here, RunsOn(c), seen) \in Seen
    BY <1>4, <2>2, <2>3 DEF Live, Usable
  <2> QED
    BY <2>4 DEF FilterByIp
<1>5. ASSUME Live, Healthy, NEW t \in Tasks
      PROVE  /\ forDriver'[t] # Unset =>
                   \E i \in Interfaces :
                      forDriver'[t] = {i} /\ Route(Here, RunsOn(t), i) \in Seen
             /\ forTasks'[Next1(t)] # Unset =>
                   /\ Routable(t) \subseteq forTasks'[Next1(t)]
                   /\ pc[t] \in HaveReported \cup {"report"}
             /\ (pc[t] = "report" /\ client'[t].phase # "answered" /\ lost = 0) =>
                   forTasks'[Next1(t)] = Unset
  <2>1. TaskHealthy(t) /\ (t # c => client'[t] = client[t])
    BY <1>1, <1>5 DEF Healthy, Clients
  <2> QED
    BY <1>2, <1>3, <1>4, <1>5, <2>1 DEF TaskHealthy, ReachesDriver, FindsNext
<1> QED
  BY <1>1, <1>2, <1>5, HandledHealthy

\* A task reports all interfaces that lead to the next one.
LEMMA ReportHealth ==
    ASSUME IndInv, HealthInv, NEW c \in Tasks, Running(c), Deliver(c), pc[c] = "report",
           HandleTaskToTaskAddresses(c)
    PROVE  HealthInv' /\ Explained
<1>1. /\ c \in Clients /\ TypeOK /\ UNCHANGED <<setup, remote, lost>>
      /\ client'[c].phase = "answered"
      /\ \A d \in Clients \ {c} : client'[d] = client[d]
  BY DeliverFrame DEF Clients
<1> DEFINE F == ToSet(client[c].found)
<1>2. forTasks' = [forTasks EXCEPT ![Next1(c)] = F] /\ UNCHANGED <<forDriver, told>>
  BY DEF HandleTaskToTaskAddresses, taskVars
<1>3. F \subseteq Interfaces /\ F # Unset
  <2>1. F \subseteq Interfaces
    BY <1>1, TaskContext, ToSetFound
  <2> QED
    BY <2>1, LauncherAssumption DEF Unset
<1>4. Healthy => Routable(c) \subseteq F
  BY DEF Healthy, TaskHealthy, FindsNext
<1> HIDE DEF F
<1>5. /\ Next1(c) \in Tasks /\ forTasks'[Next1(c)] = F
      /\ \A t \in Tasks \ {Next1(c)} : forTasks'[t] = forTasks[t]
      /\ \A t \in Tasks \ {c} : Next1(t) # Next1(c) /\ Next1(t) \in Tasks
  BY <1>1, <1>2, RingInverse DEF TypeOK
<1>6. ASSUME Live, Healthy, NEW t \in Tasks
      PROVE  /\ forDriver'[t] # Unset =>
                   \E i \in Interfaces :
                      forDriver'[t] = {i} /\ Route(Here, RunsOn(t), i) \in Seen
             /\ forTasks'[Next1(t)] # Unset =>
                   /\ Routable(t) \subseteq forTasks'[Next1(t)]
                   /\ pc[t] \in HaveReported \cup {"report"}
             /\ (pc[t] = "report" /\ client'[t].phase # "answered" /\ lost = 0) =>
                   forTasks'[Next1(t)] = Unset
  <2>1. TaskHealthy(t) /\ (t # c => client'[t] = client[t])
    BY <1>1, <1>6 DEF Healthy, Clients
  <2>2. CASE t = c
    BY <1>1, <1>2, <1>4, <1>5, <1>6, <2>1, <2>2 DEF TaskHealthy, ReachesDriver
  <2>3. CASE t # c
    BY <1>1, <1>2, <1>5, <2>1, <2>3 DEF TaskHealthy, ReachesDriver, FindsNext
  <2> QED
    BY <2>2, <2>3
<1> QED
  BY <1>1, <1>2, <1>3, <1>5, <1>6, HandledHealthy

\* The other handlers write nothing that a client looks for.
LEMMA OtherHealth ==
    ASSUME IndInv, HealthInv, NEW c \in Clients, Running(c), Deliver(c),
           UNCHANGED <<forDriver, forTasks>>,
           \/ UNCHANGED told
           \/ c = Driver /\ main = "notify" /\ HandleNotify,
           c \in Tasks => pc[c] # "report"
    PROVE  HealthInv' /\ Explained
<1>1. TypeOK /\ UNCHANGED <<setup, remote, lost>>
      /\ \A d \in Clients \ {c} : client'[d] = client[d]
  BY DeliverFrame
<1>2. \A t \in Tasks :
         /\ told'[t] => told[t] \/ (main = "notify" /\ c = Driver /\ t = turn)
         /\ told[t] => told'[t]
  <2>1. CASE c = Driver /\ main = "notify" /\ HandleNotify
    BY <1>1, <2>1 DEF HandleNotify, TypeOK
  <2> QED
    BY <2>1
<1>3. ASSUME Live, Healthy, NEW t \in Tasks
      PROVE  /\ forDriver'[t] # Unset =>
                   \E i \in Interfaces :
                      forDriver'[t] = {i} /\ Route(Here, RunsOn(t), i) \in Seen
             /\ forTasks'[Next1(t)] # Unset =>
                   /\ Routable(t) \subseteq forTasks'[Next1(t)]
                   /\ pc[t] \in HaveReported \cup {"report"}
             /\ (pc[t] = "report" /\ client'[t].phase # "answered" /\ lost = 0) =>
                   forTasks'[Next1(t)] = Unset
  <2>1. TaskHealthy(t) /\ (t # c => client'[t] = client[t])
    BY <1>1, <1>3 DEF Healthy, Clients
  <2> QED
    BY <2>1 DEF TaskHealthy, ReachesDriver, FindsNext
<1> QED
  BY <1>2, <1>3, HandledHealthy

LEMMA DeliverHealth ==
    ASSUME IndInv, HealthInv, NEW c \in Clients, Running(c), Deliver(c)
    PROVE  HealthInv' /\ Explained
<1>1. client[c].phase = "call" /\ Handle(c) /\ TypeOK
  BY DEF Deliver, IndInv
<1>2. CASE c = Driver
  <2>1. main = "notify" /\ Step(c) = "notify"
    BY <1>1, <1>2 DEF IndInv, PhaseInv, Running, Step
  <2>2. HandleNotify /\ UNCHANGED <<forDriver, forTasks>> /\ c \notin Tasks
    BY <1>1, <1>2, <2>1, Ring DEF Handle, HandleNotify, driverVars
  <2> QED
    BY <1>2, <2>1, <2>2, OtherHealth
<1>3. CASE c \in Tasks
  <2>1. pc[c] \in {"register", "ask", "report", "signal"} /\ Step(c) = pc[c]
    BY <1>1, <1>3, Ring DEF IndInv, PhaseInv, Step
  <2>2. CASE pc[c] \in {"ask", "signal"}
    <3>1. UNCHANGED <<forDriver, forTasks, told>>
      BY <1>1, <2>1, <2>2 DEF Handle, HandleSignal, driverVars, taskVars
    <3> QED
      BY <2>2, <3>1, OtherHealth
  <2> QED
    BY <1>1, <1>3, <2>1, <2>2, RegisterHealth, ReportHealth DEF Handle
<1> QED
  BY <1>2, <1>3 DEF Clients

-----------------------------------------------------------------------------
(* The theorem *)

LEMMA InitHealth == Init => HealthInv
<1> SUFFICES ASSUME Init PROVE HealthInv
  OBVIOUS
<1>1. IndInv /\ TypeOK
  BY InitInv DEF IndInv
<1>2. /\ main = "resolve" /\ turn = 0 /\ lost = 0 /\ Driver \in Clients
      /\ client[Driver] = Idle
      /\ \A t \in Tasks : /\ ~told[t] /\ client[t] = Idle /\ forDriver[t] = Unset
                          /\ forTasks[t] = Unset /\ pc[t] = "new" /\ Next1(t) \in Tasks
  BY <1>1, RingInverse DEF Init, Clients
<1>3. Idle.tries = 0
  BY DEF Idle, Probing
<1>4. EarlyInv /\ MainHealthy
  BY <1>2, <1>3 DEF EarlyInv, MainHealthy
<1>5. \A t \in Tasks : TaskHealthy(t)
  BY <1>2, <1>3 DEF TaskHealthy, ReachesDriver, FindsNext, HaveReported
<1> QED
  BY <1>4, <1>5 DEF HealthInv, Healthy

LEMMA StutterHealth ==
    ASSUME IndInv, HealthInv, expired => expired',
           UNCHANGED <<setup, main, remote, turn, forDriver, forTasks, pc, told, client,
                       lost, crashes>>
    PROVE  HealthInv' /\ Explained
<1>1. TypeOK /\ lost' \in lost..setup.losses /\ crashes' \in Nat /\ crashes <= crashes'
  BY Counts DEF IndInv
<1>2. EarlyInv'
  BY <1>1, Context DEF HealthInv, EarlyInv, Driver
<1>3. SUFFICES ASSUME Live', ~Excused' PROVE Healthy'
  BY <1>2 DEF HealthInv, Explained, MainEnded
<1>4. Healthy
  BY <1>1, <1>3, LiveBefore DEF HealthInv
<1>5. MainHealthy'
  BY <1>1, <1>4, Context DEF Healthy, MainHealthy, Here, Driver, Seen, Unset,
     Route, RunsOn, MachineOf
<1>6. ASSUME NEW t \in Tasks PROVE TaskHealthy(t)'
  <2>1. TaskHealthy(t)
    BY <1>4 DEF Healthy
  <2>2. ReachesDriver(t)' /\ FindsNext(t)'
    BY <2>1, TaskContext DEF TaskHealthy, ReachesDriver, FindsNext, Seen, Unset
  <2> QED
    BY <2>1, <2>2 DEF TaskHealthy
<1> QED
  BY <1>1, <1>5, <1>6, Context DEF Healthy

LEMMA NextHealth ==
    ASSUME IndInv, HealthInv, [Next]_vars
    PROVE  HealthInv' /\ Explained
<1>1. CASE MainStep
  BY <1>1, StartsHealth, ExecHealth, WaitForRegistrationHealth, ClientBuiltHealth,
     WaitForUpdatesHealth, IntersectHealth DEF MainStep
<1>2. CASE SshFails
  BY <1>2, SshFailsHealth
<1>3. ASSUME NEW t \in Tasks, TaskStep(t) \/ Crash(t)
      PROVE  HealthInv' /\ Explained
  BY <1>3, LaunchHealth, ConnectedHealth, WaitToBeToldHealth, WaitForSignalHealth,
     ExitLauncherHealth, CrashHealth DEF TaskStep
<1>4. ASSUME NEW c \in Clients, ClientStep(c) \/ (Running(c) /\ (Lose(c) \/ LoseSilently(c)))
      PROVE  HealthInv' /\ Explained
  BY <1>4, ProbeHealth, DeliverHealth, ReturnHealth, RefusedHealth, LoseHealth, SilentHealth
  DEF ClientStep
<1>5. CASE Expire
  BY <1>5, StutterHealth DEF Expire, driverVars, taskVars
<1>6. CASE UNCHANGED vars
  BY <1>6, StutterHealth DEF vars, driverVars, taskVars, faultVars
<1> QED
  BY <1>1, <1>2, <1>3, <1>4, <1>5, <1>6 DEF Next, Finish

\* On usable hosts, before the deadline and while all processes live, main
\* fails or is killed only after as many lost exchanges as a client makes
\* attempts, or after one when a service that is no longer needed has gone:
\* no interleaving of registration, probes, reports and signals fails by
\* itself, for any number of hosts and any network.
THEOREM FailuresProved == Spec => FailuresExplained
<1>1. Init => IndInv /\ HealthInv
  BY InitInv, InitHealth
<1>2. IndInv /\ HealthInv /\ [Next]_vars => (IndInv /\ HealthInv)'
  BY NextInv, NextHealth
<1>3. IndInv /\ HealthInv /\ [Next]_vars =>
         [(main' \in {"failed", "killed"} /\ main \notin MainEnded
              /\ Usable /\ ~expired /\ crashes = 0) =>
            lost' >= Retries \/ (lost > 0 /\ SomeoneDone)]_vars
  BY NextHealth DEF Explained
<1> QED
  BY <1>1, <1>2, <1>3, PTL DEF Spec, FailuresExplained
=============================================================================
