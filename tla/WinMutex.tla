------------------------------ MODULE WinMutex ------------------------------
(***************************************************************************)
(* The mutex of the windows, MPIWinMutexAcquireImpl and                    *)
(* MPIWinMutexReleaseImpl of common/mpi_controller.cc. Every rank has, for *)
(* every window, an integer per rank: <<name, owner, writer>> guards the   *)
(* buffer in which the owner keeps what the writer sent. The owner takes   *)
(* it when it reads its buffers (is_sync), the writer when it writes; both *)
(* the user thread and the background thread of a rank do so.              *)
(***************************************************************************)
EXTENDS Integers, Sequences, FiniteSets

CONSTANTS Rank, Name,
          SlotLists    \* the lists of mutexes that a thread may ask for

Thread == Rank \X {"user", "background"}
Slot == Name \X Rank \X Rank

ASSUME MutexAssumption ==
    /\ IsFiniteSet(Rank)
    /\ SlotLists \subseteq Seq(Slot)

VARIABLES
    mutex,    \* mutex_mem_ of all ranks
    spin,     \* where a thread is in the two functions, and the mutexes still to do
    held      \* the mutexes a thread found at 0 and has not given back

mutexVars == <<mutex, spin, held>>

At(where, slots) == [at |-> IF slots = <<>> THEN "out" ELSE where, todo |-> slots]

MutexInit ==
    /\ mutex = [s \in Slot |-> 0]
    /\ spin = [t \in Thread |-> At("out", <<>>)]
    /\ held = [t \in Thread |-> {}]

Outside(t) == spin[t].at = "out"

BeginAcquire(t, slots) ==
    /\ Outside(t)
    /\ spin' = [spin EXCEPT ![t] = At("fetch", slots)]
    /\ UNCHANGED <<mutex, held>>

\* MPI_Fetch_and_op: the mutex is taken if the old value is 0.
\* A variant: 1, the increment of another thread, is taken for its own.
FetchAndAddOffByOne(t) ==
    /\ spin[t].at = "fetch"
    /\ LET s == Head(spin[t].todo)
           got == mutex[s] <= 1
       IN /\ mutex' = [mutex EXCEPT ![s] = @ + 1]
          /\ spin' = [spin EXCEPT ![t] =
                IF got THEN At("fetch", Tail(@.todo)) ELSE At("undo", @.todo)]
          /\ held' = IF got THEN [held EXCEPT ![t] = @ \cup {s}] ELSE held
FetchAndAdd(t) ==
    /\ spin[t].at = "fetch"
    /\ LET s == Head(spin[t].todo)
           got == mutex[s] = 0
       IN /\ mutex' = [mutex EXCEPT ![s] = @ + 1]
          /\ spin' = [spin EXCEPT ![t] =
                IF got THEN At("fetch", Tail(@.todo)) ELSE At("undo", @.todo)]
          /\ held' = IF got THEN [held EXCEPT ![t] = @ \cup {s}] ELSE held

\* MPI_Accumulate of minus one: the attempt is taken back, and the next begins.
Undo(t) ==
    /\ spin[t].at = "undo"
    /\ mutex' = [mutex EXCEPT ![Head(spin[t].todo)] = @ - 1]
    /\ spin' = [spin EXCEPT ![t].at = "fetch"]
    /\ UNCHANGED held

BeginRelease(t, slots) ==
    /\ Outside(t)
    /\ spin' = [spin EXCEPT ![t] = At("drop", slots)]
    /\ UNCHANGED <<mutex, held>>

\* MPI_Accumulate of minus one, whoever holds the mutex.
\* A variant: the integer stays as it is.
DropNothing(t) ==
    /\ spin[t].at = "drop"
    /\ held' = [held EXCEPT ![t] = @ \ {Head(spin[t].todo)}]
    /\ spin' = [spin EXCEPT ![t] = At("drop", Tail(@.todo))]
    /\ UNCHANGED mutex
Drop(t) ==
    /\ spin[t].at = "drop"
    /\ LET s == Head(spin[t].todo)
       IN /\ mutex' = [mutex EXCEPT ![s] = @ - 1]
          /\ held' = [held EXCEPT ![t] = @ \ {s}]
          /\ spin' = [spin EXCEPT ![t] = At("drop", Tail(@.todo))]

\* A caller gives back, once, what it has taken.
Owns(t, slots) ==
    \A i, j \in DOMAIN slots : slots[i] \in held[t] /\ (slots[i] = slots[j] => i = j)

MutexNext ==
    \E t \in Thread :
        \/ FetchAndAdd(t) \/ Undo(t) \/ Drop(t)
        \/ \E slots \in SlotLists :
              \/ BeginAcquire(t, slots)
              \/ Owns(t, slots) /\ BeginRelease(t, slots)

MutexSpec == MutexInit /\ [][MutexNext]_mutexVars

-----------------------------------------------------------------------------
(* What the callers rely on *)

\* Whoever took a mutex is alone with the buffer, although any number of threads add to
\* the integer and take back what they added (mpi_controller.cc:1533-1602).
MutualExclusion ==
    \A t, u \in Thread : t # u => held[t] \cap held[u] = {}

Holders(s) == {t \in Thread : s \in held[t]}
Undoers(s) == {t \in Thread : spin[t].at = "undo" /\ Head(spin[t].todo) = s}

\* The integer counts the holder and the attempts that are not taken back yet: it never
\* becomes negative (which mpi_controller.cc:1584 fears) and returns to 0.
MutexCounts ==
    \A s \in Slot : mutex[s] = Cardinality(Holders(s)) + Cardinality(Undoers(s))

Lock == INSTANCE AtomicLock WITH holding <- held

\* The spin lock implements a lock that is taken and given back in one step.
ImplementsLock == Lock!Spec
=============================================================================
