----------------------------- MODULE AtomicLock -----------------------------
(***************************************************************************)
(* What the mutex of a window promises (the comment of                     *)
(* MPIWinMutexAcquireImpl in common/mpi_controller.h): a lock is taken and *)
(* given back in one step, and only a free lock is taken.                  *)
(***************************************************************************)
CONSTANTS Thread, Slot

VARIABLE holding   \* the locks of a thread

Init == holding = [t \in Thread |-> {}]

Acquire(t, s) ==
    /\ \A u \in Thread : s \notin holding[u]
    /\ holding' = [holding EXCEPT ![t] = @ \cup {s}]

Release(t, s) ==
    /\ s \in holding[t]
    /\ holding' = [holding EXCEPT ![t] = @ \ {s}]

Next == \E t \in Thread, s \in Slot : Acquire(t, s) \/ Release(t, s)

Spec == Init /\ [][Next]_holding
=============================================================================
