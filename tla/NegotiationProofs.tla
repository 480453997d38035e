-------------------------- MODULE NegotiationProofs --------------------------
(***************************************************************************)
(* The negotiation, proved for every number of ranks, every topology and   *)
(* every program the hypotheses admit: the ranks leave the background loop *)
(* together; every entry of a tensor table has one request or response     *)
(* travelling for it, and every pending handle one holder of its callback; *)
(* no background thread meets an exception, and all ranks enter the same   *)
(* collective calls in the same order.                                     *)
(***************************************************************************)
EXTENDS TypeProofs

(***************************************************************************)
(* No rank skips the negotiation.  A rank that does leaves the loop on its  *)
(* own local copy of the flag, without asking anybody.                      *)
(***************************************************************************)
Negotiating == \A r \in Rank : ~skip[r]

\* Before, and after, the exchange with the coordinator in a cycle.
Asking  == {"top", "pop", "convert", "remove", "direct", "directing"}
Told    == {"respond", "responding", "park", "unpark", "exit", "finalize", "down"}

\* The coordinator has taken the list of worker s and has not answered yet.
Counted(s) ==
    \/ bpc[Master] = "count" /\ s <= from
    \/ bpc[Master] \in {"construct", "fuse"}

\* A rank that has the shutdown in hand: it runs its last cycle, or the list
\* that says so waits for it.
HasShutdown(q) ==
    \/ should_shut_down[q] /\ bpc[q] \in Told \cup {"aborted"}
    \/ bpc[q] = "recv" /\ bcast[q] # <<>> /\ Head(bcast[q]).shutdown
AllTold == \A q \in Rank : HasShutdown(q)

\* Who is where: only rank 0 coordinates, and it sends itself nothing.
PlaceInv ==
    /\ bpc[Master] \notin {"send", "recv"}
    /\ \A s \in Workers : bpc[s] \notin {"count", "construct", "fuse"}

\* A list on its way to the coordinator: the only message of its sender, which
\* waits for the answer and has told of the shutdown if it knows of it.
GatherInv ==
    \A s \in Workers : gather[s] # <<>> =>
        /\ bpc[s] = "recv" /\ bcast[s] = <<>> /\ Len(gather[s]) = 1
        /\ should_shut_down[s] => Head(gather[s]).shutdown

\* A list on its way back: a worker that knows of the shutdown is told so, and
\* a list that tells of it went to everybody.
BcastInv ==
    \A s \in Workers : bcast[s] # <<>> =>
        /\ bpc[s] = "recv" /\ gather[s] = <<>> /\ Len(bcast[s]) = 1
        /\ should_shut_down[s] => Head(bcast[s]).shutdown
        /\ Head(bcast[s]).shutdown => AllTold

\* A worker whose list has been counted waits, and the coordinator knows of the
\* shutdown if the worker does.
CountedInv ==
    \A s \in Workers : Counted(s) =>
        /\ bpc[s] = "recv" /\ gather[s] = <<>> /\ bcast[s] = <<>>
        /\ should_shut_down[s] => should_shut_down[Master]

\* The local copy of the flag is never ahead of the shared one before the
\* exchange; after it, it is set on all ranks or on none.
FlagInv ==
    \A r \in Rank : should_shut_down[r] =>
        /\ bpc[r] \in Asking \cup {"send"} => shut_down[r]
        /\ bpc[r] \in Told => AllTold

LeftInv == \A r \in Rank : Left(r) => should_shut_down[r]

ShutdownInv == PlaceInv /\ GatherInv /\ BcastInv /\ CountedInv /\ FlagInv /\ LeftInv

-----------------------------------------------------------------------------
(* What the proof uses of the types *)

ShutdownType ==
    /\ bpc \in [Rank -> BPC]
    /\ shut_down \in [Rank -> BOOLEAN]
    /\ should_shut_down \in [Rank -> BOOLEAN]
    /\ gather \in [Rank -> Seq(RequestList)]
    /\ bcast \in [Rank -> Seq(ResponseList)]
    /\ from \in Rank

LEMMA TypesUsed == TypeOK => ShutdownType
BY DEF TypeOK, FlagOK, LocalOK, CountOK, MpiOK, ShutdownType

\* A single message is all there is.
LEMMA SingleMessage ==
    ASSUME NEW S, NEW s \in Seq(S), Len(s) = 1
    PROVE  Head(s) \in S /\ Tail(s) = <<>>
<1>1. s # <<>>
  BY EmptySeq
<1>2. Tail(s) \in Seq(S) /\ Len(Tail(s)) = 0
  BY <1>1, HeadTailProperties
<1> QED
  BY <1>1, <1>2, HeadTailProperties, EmptySeq

LEMMA ShutdownInit == Init => ShutdownInv
<1> SUFFICES ASSUME Init PROVE ShutdownInv
  OBVIOUS
<1>1. /\ \A r \in Rank : bpc[r] = "top" /\ ~should_shut_down[r]
      /\ \A r \in Rank : gather[r] = <<>> /\ bcast[r] = <<>>
  BY DEF Init
<1> QED
  BY <1>1, MasterRank DEF ShutdownInv, PlaceInv, GatherInv, BcastInv, CountedInv, FlagInv,
     LeftInv, Left, Counted, Told, Workers

\* A step that leaves all of this alone but may set the shared flag.
LEMMA ShutdownFrame ==
    ASSUME ShutdownInv, UNCHANGED <<bpc, should_shut_down, gather, bcast, from>>,
           \A r \in Rank : shut_down[r] => shut_down'[r]
    PROVE  ShutdownInv'
BY DEF ShutdownInv, PlaceInv, GatherInv, BcastInv, CountedInv, FlagInv, LeftInv, Left,
   Counted, AllTold, HasShutdown, Workers

-----------------------------------------------------------------------------
(* The steps of a background thread outside the exchange *)

\* Where the thread of rank r may go next without the coordinator: on in its
\* half of the cycle, to the next cycle if it does not know of the shutdown, out
\* of the loop if it does.
MayGo(r, pc) ==
    /\ bpc[r] \in Asking \cup Told
    /\ pc \in Asking \cup Told \cup {"send", "aborted"}
    /\ r = Master => pc # "send"
    /\ pc \in Told => bpc[r] \in Told
    /\ should_shut_down[r] /\ bpc[r] \in Told => pc \in Told \cup {"aborted"}
    /\ pc \in {"exit", "finalize", "down"} => should_shut_down[r]

LEMMA Moves ==
    ASSUME NEW r \in Rank, NEW pc, ShutdownType, ShutdownInv, MayGo(r, pc),
           bpc' = [bpc EXCEPT ![r] = pc],
           UNCHANGED <<should_shut_down, gather, bcast, from>>,
           \A q \in Rank : shut_down[q] => shut_down'[q]
    PROVE  ShutdownInv'
<1> USE MasterRank
<1>1. bpc[r] \notin {"recv", "send", "count", "construct", "fuse", "aborted"}
  BY DEF MayGo, Asking, Told
<1>2. \A q \in Rank : bpc'[q] = IF q = r THEN pc ELSE bpc[q]
  BY DEF ShutdownType
<1>3. pc \notin {"recv", "count", "construct", "fuse"}
  BY DEF MayGo, Asking, Told
<1>4. PlaceInv'
  BY <1>2, <1>3 DEF ShutdownInv, PlaceInv, Workers, MayGo
<1>5. AllTold => AllTold'
  BY <1>1, <1>2 DEF AllTold, HasShutdown, MayGo
<1>6. GatherInv'
  BY <1>1, <1>2 DEF ShutdownInv, GatherInv, Workers
<1>7. BcastInv'
  BY <1>1, <1>2, <1>5 DEF ShutdownInv, BcastInv, Workers
<1>8. \A s \in Workers : Counted(s)' => Counted(s)
  BY <1>2, <1>3 DEF Counted
<1>9. CountedInv'
  BY <1>1, <1>2, <1>8 DEF ShutdownInv, CountedInv, Workers
<1>10. FlagInv'
  <2> SUFFICES ASSUME NEW q \in Rank, should_shut_down[q]
               PROVE  /\ bpc'[q] \in Asking \cup {"send"} => shut_down'[q]
                      /\ bpc'[q] \in Told => AllTold'
    BY DEF FlagInv
  <2>1. CASE q # r
    BY <1>2, <1>5, <2>1 DEF ShutdownInv, FlagInv
  <2>2. CASE q = r
    <3>1. bpc'[q] \in Told => AllTold'
      BY <1>2, <1>5, <2>2 DEF ShutdownInv, FlagInv, MayGo
    <3>2. bpc'[q] \in Asking \cup {"send"} => bpc[q] \in Asking
      BY <1>2, <2>2 DEF MayGo, Asking, Told
    <3> QED
      BY <3>1, <3>2 DEF ShutdownInv, FlagInv
  <2> QED
    BY <2>1, <2>2
<1>11. LeftInv'
  BY <1>2 DEF ShutdownInv, LeftInv, Left, MayGo
<1> QED
  BY <1>4, <1>6, <1>7, <1>9, <1>10, <1>11 DEF ShutdownInv

\* The end of a cycle: park, leave the loop or start the next cycle.
LEMMA EndCycleGoes ==
    ASSUME NEW r \in Rank, ShutdownType, bpc[r] = "respond", EndCycle(r)
    PROVE  \E pc \in BPC : MayGo(r, pc) /\ bpc' = [bpc EXCEPT ![r] = pc]
<1> DEFINE pc == IF should_change_topo[r] THEN "park" ELSE NextCycle(r)
<1>1. pc \in BPC /\ MayGo(r, pc)
  BY DEF MayGo, NextCycle, BPC, Asking, Told
<1>2. bpc' = [bpc EXCEPT ![r] = pc]
  BY DEF EndCycle, BGoto
<1> QED
  BY <1>1, <1>2

\* Performing an operation: the thread stays, waits in the operation or aborts.
LEMMA PerformGoes ==
    ASSUME NEW r \in Rank, NEW batch, NEW pc \in {"directing", "responding"},
           ShutdownType, Perform(r, batch, pc)
    PROVE  \E q \in {bpc[r], pc, "aborted"} : bpc' = [bpc EXCEPT ![r] = q]
BY DEF Perform, BGoto, ShutdownType

LEMMA ShutdownBackground ==
    ASSUME NEW r \in Rank, ShutdownType, ShutdownInv, Negotiating, BackgroundStep(r)
    PROVE  ShutdownInv'
<1> USE MasterRank
<1> USE DEF BGoto, userVars, flagVars, localVars, masterVars, countVars, fuseVars, mpiVars
<1> DEFINE Quiet == /\ UNCHANGED <<should_shut_down, gather, bcast, from>>
                    /\ \A q \in Rank : shut_down[q] => shut_down'[q]
           Goes  == \E pc \in BPC : MayGo(r, pc) /\ bpc' = [bpc EXCEPT ![r] = pc]
<1>0. ASSUME Quiet, Goes PROVE ShutdownInv'
  BY <1>0, Moves
<1>1. CASE ReadFlags(r)
  <2>1. /\ bpc[r] = "top"
        /\ bpc' = [bpc EXCEPT ![r] = "pop"]
        /\ should_shut_down' = [should_shut_down EXCEPT ![r] = shut_down[r]]
        /\ UNCHANGED <<shut_down, gather, bcast, from>>
    BY <1>1 DEF ReadFlags
  <2>2. \A q \in Rank : /\ bpc'[q] = IF q = r THEN "pop" ELSE bpc[q]
                        /\ q # r => should_shut_down'[q] = should_shut_down[q]
                        /\ should_shut_down'[r] = shut_down[r]
    BY <2>1 DEF ShutdownType
  <2>3. ~AllTold
    BY <2>1 DEF AllTold, HasShutdown, Told
  <2>4. PlaceInv'
    BY <2>2 DEF ShutdownInv, PlaceInv, Workers
  <2>5. GatherInv'
    BY <2>1, <2>2 DEF ShutdownInv, GatherInv, Workers
  <2>6. BcastInv'
    BY <2>1, <2>2, <2>3 DEF ShutdownInv, BcastInv, Workers
  <2>7. CountedInv'
    <3>1. \A s \in Workers : Counted(s)' => Counted(s) /\ r # Master
      BY <2>1, <2>2 DEF Counted
    <3> QED
      BY <2>1, <2>2, <3>1 DEF ShutdownInv, CountedInv, Workers
  <2>8. FlagInv'
    BY <2>1, <2>2, <2>3 DEF ShutdownInv, FlagInv, Told
  <2>9. LeftInv'
    BY <2>2 DEF ShutdownInv, LeftInv, Left
  <2> QED
    BY <2>4, <2>5, <2>6, <2>7, <2>8, <2>9 DEF ShutdownInv
<1>2. CASE PopMessagesFromQueue(r)
  <2>1. Quiet /\ MayGo(r, "convert") /\ bpc' = [bpc EXCEPT ![r] = "convert"]
    BY <1>2 DEF PopMessagesFromQueue, MayGo, Asking, Told
  <2> QED
    BY <2>1, <1>0 DEF BPC
<1>3. CASE ConvertNext(r)
  <2>1. Quiet /\ MayGo(r, "convert") /\ MayGo(r, "aborted")
    BY <1>3 DEF ConvertNext, MayGo, Asking, Told
  <2>2. bpc' = [bpc EXCEPT ![r] = "convert"] \/ bpc' = [bpc EXCEPT ![r] = "aborted"]
    BY <1>3 DEF ConvertNext, ShutdownType
  <2> QED
    BY <2>1, <2>2, <1>0 DEF BPC
<1>4. CASE ConvertDone(r)
  <2>1. Quiet /\ MayGo(r, "remove") /\ bpc' = [bpc EXCEPT ![r] = "remove"]
    BY <1>4 DEF ConvertDone, MayGo, Asking, Told
  <2> QED
    BY <2>1, <1>0 DEF BPC
<1>5. CASE RemoveNext(r)
  BY <1>5, ShutdownFrame DEF RemoveNext
<1>6. CASE RemoveDone(r)
  <2>1. Quiet /\ MayGo(r, "direct") /\ bpc' = [bpc EXCEPT ![r] = "direct"]
    BY <1>6 DEF RemoveDone, MayGo, Asking, Told
  <2> QED
    BY <2>1, <1>0 DEF BPC
<1>7. CASE PerformDirect(r)
  <2>1. Quiet /\ \A q \in {"direct", "directing", "aborted"} : MayGo(r, q)
    BY <1>7 DEF PerformDirect, MayGo, Asking, Told
  <2>2. bpc[r] = "direct" /\ Perform(r, <<Head(entries[r])>>, "directing")
    BY <1>7 DEF PerformDirect
  <2>3. \E q \in {"direct", "directing", "aborted"} : bpc' = [bpc EXCEPT ![r] = q]
    BY <2>2, PerformGoes
  <2> QED
    BY <2>1, <2>3, <1>0 DEF BPC
<1>8. CASE PerformResponse(r)
  <2>1. Quiet /\ \A q \in {"respond", "responding", "aborted"} : MayGo(r, q)
    BY <1>8 DEF PerformResponse, MayGo, Asking, Told
  <2>2. \E q \in {"respond", "responding", "aborted"} : bpc' = [bpc EXCEPT ![r] = q]
    <3> DEFINE keys  == Head(todo[r]).keys
               batch == [i \in DOMAIN keys |-> tensor_table[r][keys[i]]]
    <3>1. bpc[r] = "respond"
      BY <1>8 DEF PerformResponse
    <3>2. \/ bpc' = [bpc EXCEPT ![r] = "aborted"]
          \/ bpc' = bpc
          \/ Perform(r, batch, "responding")
      BY <1>8 DEF PerformResponse
    <3> HIDE DEF batch
    <3> QED
      BY <3>1, <3>2, PerformGoes DEF ShutdownType
  <2> QED
    BY <2>1, <2>2, <1>0 DEF BPC
<1>9. CASE Complete(r)
  <2>1. PICK pc \in {"direct", "respond", "aborted"} :
          Quiet /\ MayGo(r, pc) /\ bpc' = [bpc EXCEPT ![r] = pc]
    BY <1>9 DEF Complete, MayGo, Asking, Told
  <2> QED
    BY <2>1, <1>0 DEF BPC
<1>10. CASE DirectDone(r)
  <2>1. ~skip[r]
    BY DEF Negotiating
  <2>2. CASE r # Master
    <3>1. Quiet /\ MayGo(r, "send") /\ bpc' = [bpc EXCEPT ![r] = "send"]
      BY <1>10, <2>1, <2>2 DEF DirectDone, MayGo, Asking, Told
    <3> QED
      BY <3>1, <1>0 DEF BPC
  <2>3. CASE r = Master
    <3>1. /\ bpc[Master] = "direct"
          /\ bpc' = [bpc EXCEPT ![Master] = "count"]
          /\ from' = Master
          /\ UNCHANGED <<shut_down, should_shut_down, gather, bcast>>
      BY <1>10, <2>1, <2>3 DEF DirectDone
    <3>2. \A q \in Rank : bpc'[q] = IF q = Master THEN "count" ELSE bpc[q]
      BY <3>1 DEF ShutdownType
    <3>3. ~AllTold
      BY <3>1 DEF AllTold, HasShutdown, Told
    <3>4. PlaceInv' /\ GatherInv' /\ BcastInv' /\ FlagInv' /\ LeftInv'
      BY <3>1, <3>2, <3>3 DEF ShutdownInv, PlaceInv, GatherInv, BcastInv, FlagInv, LeftInv,
         Left, Told, Asking, Workers
    <3>5. \A s \in Workers : ~Counted(s)'
      BY <3>1, <3>2, SizeAssumption DEF Counted, Workers, Rank, Master
    <3> QED
      BY <3>4, <3>5 DEF ShutdownInv, CountedInv
  <2> QED
    BY <2>2, <2>3
<1>11. CASE SlaveSend(r)
  <2>1. /\ bpc[r] = "send"
        /\ bpc' = [bpc EXCEPT ![r] = "recv"]
        /\ gather' = [gather EXCEPT ![r] = Append(@,
              [requests |-> kept[r], shutdown |-> shut_down[r],
               change_topo |-> should_change_topo[r]])]
        /\ UNCHANGED <<shut_down, should_shut_down, bcast, from>>
    BY <1>11 DEF SlaveSend, ShutdownFlag
  <2>2. r \in Workers /\ gather[r] = <<>> /\ bcast[r] = <<>> /\ ~Counted(r)
    BY <2>1 DEF ShutdownInv, PlaceInv, GatherInv, BcastInv, CountedInv, Workers
  <2> DEFINE list == [requests |-> kept[r], shutdown |-> shut_down[r],
                      change_topo |-> should_change_topo[r]]
  <2>3. \A q \in Rank : /\ bpc'[q] = IF q = r THEN "recv" ELSE bpc[q]
                        /\ gather'[q] = IF q = r THEN <<list>> ELSE gather[q]
    BY <2>1, <2>2 DEF ShutdownType
  <2>4. ~AllTold
    BY <2>1 DEF AllTold, HasShutdown, Told
  <2>5. should_shut_down[r] => list.shutdown
    BY <2>1 DEF ShutdownInv, FlagInv
  <2>6. Len(<<list>>) = 1 /\ Head(<<list>>) = list
    OBVIOUS
  <2> HIDE DEF list
  <2>7. GatherInv'
    BY <2>1, <2>2, <2>3, <2>5, <2>6 DEF ShutdownInv, GatherInv, Workers
  <2>8. PlaceInv' /\ BcastInv' /\ LeftInv' /\ FlagInv'
    BY <2>1, <2>2, <2>3, <2>4 DEF ShutdownInv, PlaceInv, BcastInv, LeftInv, FlagInv, Left,
       Told, Asking, Workers
  <2>9. CountedInv'
    <3>1. \A s \in Workers : Counted(s)' <=> Counted(s)
      BY <2>1, <2>2, <2>3 DEF Counted, Workers
    <3> QED
      BY <2>1, <2>2, <2>3, <3>1 DEF ShutdownInv, CountedInv, Workers
  <2> QED
    BY <2>7, <2>8, <2>9 DEF ShutdownInv
<1>12. CASE SlaveRecv(r)
  <2> DEFINE list == Head(bcast[r])
  <2>1. /\ bpc[r] = "recv"
        /\ bcast[r] # <<>>
        /\ bpc' = [bpc EXCEPT ![r] = "respond"]
        /\ bcast' = [bcast EXCEPT ![r] = Tail(bcast[r])]
        /\ should_shut_down' = [should_shut_down EXCEPT
                                  ![r] = should_shut_down[r] \/ list.shutdown]
        /\ UNCHANGED <<shut_down, gather, from>>
    BY <1>12 DEF SlaveRecv
  <2>2. r \in Workers /\ gather[r] = <<>> /\ Len(bcast[r]) = 1 /\ ~Counted(r)
    BY <2>1 DEF ShutdownInv, PlaceInv, BcastInv, CountedInv, Workers
  <2>3. Tail(bcast[r]) = <<>> /\ list \in ResponseList
    BY <2>2, SingleMessage DEF ShutdownType
  <2>4. list.shutdown \in BOOLEAN
    BY <2>3 DEF ResponseList
  <2>5. (should_shut_down[r] \/ list.shutdown) <=> list.shutdown
    BY <2>1, <2>2 DEF ShutdownInv, BcastInv
  <2> HIDE DEF list
  <2>6. \A q \in Rank :
           /\ bpc'[q] = IF q = r THEN "respond" ELSE bpc[q]
           /\ bcast'[q] = IF q = r THEN <<>> ELSE bcast[q]
           /\ q # r => should_shut_down'[q] = should_shut_down[q]
           /\ should_shut_down'[r] <=> list.shutdown
    BY <2>1, <2>3, <2>4, <2>5 DEF ShutdownType
  <2>7. list.shutdown => AllTold
    BY <2>1, <2>2 DEF ShutdownInv, BcastInv, list
  <2>8. AllTold => AllTold'
    <3>1. HasShutdown(r) => list.shutdown
      BY <2>1 DEF HasShutdown, Told, list
    <3>2. \A q \in Rank : HasShutdown(q) => HasShutdown(q)'
      BY <2>6, <3>1 DEF HasShutdown, Told
    <3> QED
      BY <3>2 DEF AllTold
  <2>9. PlaceInv' /\ LeftInv'
    BY <2>2, <2>6 DEF ShutdownInv, PlaceInv, LeftInv, Left, Workers
  <2>10. GatherInv'
    BY <2>1, <2>2, <2>6 DEF ShutdownInv, GatherInv, Workers
  <2>11. BcastInv'
    <3> SUFFICES ASSUME NEW s \in Workers, bcast'[s] # <<>>
                 PROVE  /\ bpc'[s] = "recv" /\ gather'[s] = <<>> /\ Len(bcast'[s]) = 1
                        /\ should_shut_down'[s] => Head(bcast'[s]).shutdown
                        /\ Head(bcast'[s]).shutdown => AllTold'
      BY DEF BcastInv, Workers
    <3>1. s # r /\ s \in Rank
      BY <2>6 DEF Workers
    <3> QED
      BY <2>1, <2>6, <2>8, <3>1 DEF ShutdownInv, BcastInv
  <2>12. CountedInv'
    <3>1. \A s \in Workers : Counted(s)' <=> Counted(s)
      BY <2>1, <2>2, <2>6 DEF Counted, Workers
    <3> QED
      BY <2>1, <2>2, <2>6, <3>1 DEF ShutdownInv, CountedInv, Workers
  <2>13. FlagInv'
    BY <2>1, <2>5, <2>6, <2>7, <2>8 DEF ShutdownInv, FlagInv, Asking, Told
  <2> QED
    BY <2>9, <2>10, <2>11, <2>12, <2>13 DEF ShutdownInv
<1>13. CASE RespondDone(r)
  <2>1. bpc[r] = "respond" /\ EndCycle(r) /\ Quiet
    BY <1>13 DEF RespondDone
  <2> QED
    BY <2>1, <1>0, EndCycleGoes
<1>14. CASE Unpark(r)
  <2>1. Quiet /\ MayGo(r, "unpark") /\ bpc' = [bpc EXCEPT ![r] = "unpark"]
    BY <1>14 DEF Unpark, MayGo, Asking, Told
  <2> QED
    BY <2>1, <1>0 DEF BPC
<1>15. CASE Unparked(r)
  <2>1. Quiet /\ MayGo(r, NextCycle(r)) /\ bpc' = [bpc EXCEPT ![r] = NextCycle(r)]
    BY <1>15 DEF Unparked, NextCycle, MayGo, Asking, Told
  <2> QED
    BY <2>1, <1>0 DEF BPC, NextCycle
<1>16. CASE Exit(r)
  <2>1. Quiet /\ MayGo(r, "finalize") /\ bpc' = [bpc EXCEPT ![r] = "finalize"]
    BY <1>16 DEF Exit, MayGo, Asking, Told, ShutdownInv, LeftInv, Left, ShutdownType
  <2> QED
    BY <2>1, <1>0 DEF BPC
<1>17. CASE FinalizeTensorQueue(r)
  <2>1. Quiet /\ MayGo(r, "down") /\ bpc' = [bpc EXCEPT ![r] = "down"]
    BY <1>17 DEF FinalizeTensorQueue, MayGo, Asking, Told, ShutdownInv, LeftInv, Left
  <2> QED
    BY <2>1, <1>0 DEF BPC
<1> QED
  BY <1>1, <1>2, <1>3, <1>4, <1>5, <1>6, <1>7, <1>8, <1>9, <1>10, <1>11, <1>12,
     <1>13, <1>14, <1>15, <1>16, <1>17 DEF BackgroundStep

-----------------------------------------------------------------------------
(* The steps of the user thread and of the coordinator *)

\* A call can only set the shared flag.
LEMMA ShutdownUser ==
    ASSUME NEW r \in Rank, ShutdownType, ShutdownInv, UserStep(r)
    PROVE  ShutdownInv'
<1> USE DEF backgroundVars, localVars, countVars, flagVars, mpiVars
<1>1. UNCHANGED <<bpc, should_shut_down, gather, bcast, from>>
  BY DEF UserStep, EnqueueFail, EnqueueBegin, AddToTensorQueue, Synchronize,
     SetTopologyRefused, SetTopologyBegin, SetTopologyUnfinished, SetTopologyEnter,
     SetTopologyLeave, ClosePause, SkipNegotiateNow, SkipNegotiateBegin,
     SkipNegotiateApply, SuspendOrResume, Shutdown, Join, RequestPause
<1>2. UNCHANGED shut_down \/ shut_down' = [shut_down EXCEPT ![r] = TRUE]
  BY DEF UserStep, EnqueueFail, EnqueueBegin, AddToTensorQueue, Synchronize,
     SetTopologyRefused, SetTopologyBegin, SetTopologyUnfinished, SetTopologyEnter,
     SetTopologyLeave, ClosePause, SkipNegotiateNow, SkipNegotiateBegin,
     SkipNegotiateApply, SuspendOrResume, Shutdown, Join, RequestPause
<1> QED
  BY <1>1, <1>2, ShutdownFrame DEF ShutdownType

\* The counting reaches the last rank.
LEMMA CountedAll ==
    ASSUME from \in Rank, from + 1 \notin Workers
    PROVE  \A s \in Workers : s <= from
BY SizeAssumption DEF Workers, Rank, Master

LEMMA ShutdownCoordinator ==
    ASSUME ShutdownType, ShutdownInv, CoordinatorStep
    PROVE  ShutdownInv'
<1> USE MasterRank
<1> USE DEF MasterGoto, coordUnchanged, flagVars, countVars
<1>1. CASE CountRequest \/ ConstructNext
  BY <1>1, ShutdownFrame DEF CountRequest, ConstructNext
<1>2. CASE NextList
  <2> DEFINE s == from + 1
             list == Head(gather[s])
  <2>1. /\ bpc[Master] = "count" /\ s \in Workers /\ gather[s] # <<>>
        /\ from' = s
        /\ gather' = [gather EXCEPT ![s] = Tail(gather[s])]
        /\ should_shut_down' = [should_shut_down EXCEPT
                                  ![Master] = should_shut_down[Master] \/ list.shutdown]
        /\ UNCHANGED <<bpc, shut_down, bcast>>
    <3>1. s > from
      BY DEF ShutdownType, Rank
    <3> QED
      BY <1>2, <3>1 DEF NextList
  <2>2. /\ bpc[s] = "recv" /\ bcast[s] = <<>> /\ Len(gather[s]) = 1
        /\ should_shut_down[s] => list.shutdown
    BY <2>1 DEF ShutdownInv, GatherInv
  <2>3. Tail(gather[s]) = <<>> /\ list.shutdown \in BOOLEAN
    <3>1. gather[s] \in Seq(RequestList)
      BY <2>1 DEF ShutdownType, Workers
    <3>2. Tail(gather[s]) = <<>> /\ list \in RequestList
      BY <2>2, <3>1, SingleMessage
    <3> QED
      BY <3>2 DEF RequestList
  <2>4. s # Master /\ s \in Rank
    BY <2>1 DEF Workers
  <2>5. \A t \in Workers : t <= s => t <= from \/ t = s
    BY DEF ShutdownType, Workers, Rank
  <2> HIDE DEF s, list
  <2>6. \A q \in Rank :
           /\ gather'[q] = IF q = s THEN <<>> ELSE gather[q]
           /\ q # Master => should_shut_down'[q] = should_shut_down[q]
           /\ should_shut_down'[Master] <=> should_shut_down[Master] \/ list.shutdown
    BY <2>1, <2>3 DEF ShutdownType
  <2>7. ~AllTold
    BY <2>1 DEF AllTold, HasShutdown, Told
  <2>8. PlaceInv'
    BY <2>1 DEF ShutdownInv, PlaceInv
  <2>9. GatherInv' /\ BcastInv'
    <3>1. \A t \in Workers : t \in Rank /\ t # Master
      BY DEF Workers
    <3>2. GatherInv'
      <4> SUFFICES ASSUME NEW t \in Workers, gather'[t] # <<>>
                   PROVE  /\ bpc'[t] = "recv" /\ bcast'[t] = <<>> /\ Len(gather'[t]) = 1
                          /\ should_shut_down'[t] => Head(gather'[t]).shutdown
        BY DEF GatherInv, Workers
      <4>1. gather'[t] = gather[t] /\ should_shut_down'[t] = should_shut_down[t]
        BY <2>6, <3>1
      <4> QED
        BY <2>1, <4>1 DEF ShutdownInv, GatherInv
    <3>3. BcastInv'
      BY <2>1, <2>6, <2>7, <3>1 DEF ShutdownInv, BcastInv, Workers
    <3> QED
      BY <3>2, <3>3
  <2>10. CountedInv'
    <3> SUFFICES ASSUME NEW t \in Workers, Counted(t)'
                 PROVE  /\ bpc'[t] = "recv" /\ gather'[t] = <<>> /\ bcast'[t] = <<>>
                        /\ should_shut_down'[t] => should_shut_down'[Master]
      BY DEF CountedInv, Workers
    <3>1. Counted(t) \/ t = s
      BY <2>1, <2>5 DEF Counted
    <3>2. CASE t = s
      BY <2>1, <2>2, <2>4, <2>6, <3>2
    <3>3. CASE Counted(t) /\ t # s
      BY <2>1, <2>6, <3>3 DEF ShutdownInv, CountedInv, Workers
    <3> QED
      BY <3>1, <3>2, <3>3
  <2>11. FlagInv' /\ LeftInv'
    BY <2>1, <2>6, <2>7 DEF ShutdownInv, FlagInv, LeftInv, Left, Asking, Told
  <2> QED
    BY <2>8, <2>9, <2>10, <2>11 DEF ShutdownInv
<1>3. ASSUME NEW pc \in {"construct", "fuse"},
             bpc[Master] \in {"count", "construct"},
             bpc[Master] = "count" => from + 1 \notin Workers,
             bpc' = [bpc EXCEPT ![Master] = pc],
             UNCHANGED <<shut_down, should_shut_down, gather, bcast, from>>
      PROVE  ShutdownInv'
  <2>1. \A q \in Rank : bpc'[q] = IF q = Master THEN pc ELSE bpc[q]
    BY <1>3 DEF ShutdownType
  <2>2. ~AllTold
    BY <1>3 DEF AllTold, HasShutdown, Told
  <2>3. \A s \in Workers : Counted(s)
    BY <1>3, CountedAll DEF Counted, ShutdownType
  <2>4. PlaceInv'
    BY <2>1 DEF ShutdownInv, PlaceInv, Workers
  <2>5. GatherInv' /\ BcastInv' /\ CountedInv'
    BY <1>3, <2>1, <2>2, <2>3 DEF ShutdownInv, GatherInv, BcastInv, CountedInv, Workers
  <2>6. FlagInv' /\ LeftInv'
    BY <1>3, <2>1, <2>2 DEF ShutdownInv, FlagInv, LeftInv, Left, Asking, Told
  <2> QED
    BY <2>4, <2>5, <2>6 DEF ShutdownInv
<1>4. CASE CountDone
  BY <1>3, <1>4 DEF CountDone
<1>5. CASE ConstructDone
  BY <1>3, <1>5 DEF ConstructDone
<1>6. CASE FuseNext
  <2>1. /\ bpc[Master] = "fuse"
        /\ bpc' = bpc \/ bpc' = [bpc EXCEPT ![Master] = "aborted"]
        /\ UNCHANGED <<shut_down, should_shut_down, gather, bcast, from>>
    BY <1>6 DEF FuseNext
  <2>2. CASE bpc' = bpc
    BY <2>1, <2>2, ShutdownFrame
  <2>3. CASE bpc' = [bpc EXCEPT ![Master] = "aborted"]
    <3>1. \A q \in Rank : bpc'[q] = IF q = Master THEN "aborted" ELSE bpc[q]
      BY <2>3 DEF ShutdownType
    <3>2. ~AllTold
      BY <2>1 DEF AllTold, HasShutdown, Told
    <3>3. PlaceInv' /\ GatherInv' /\ BcastInv'
      BY <2>1, <3>1, <3>2 DEF ShutdownInv, PlaceInv, GatherInv, BcastInv, Workers
    <3>4. CountedInv'
      BY <3>1 DEF CountedInv, Counted
    <3>5. FlagInv' /\ LeftInv'
      BY <2>1, <3>1, <3>2 DEF ShutdownInv, FlagInv, LeftInv, Left, Asking, Told
    <3> QED
      BY <3>3, <3>4, <3>5 DEF ShutdownInv
  <2> QED
    BY <2>1, <2>2, <2>3
<1>7. CASE Broadcast
  <2> DEFINE list == [responses   |-> response_list,
                      shutdown    |-> should_shut_down[Master],
                      change_topo |-> should_change_topo[Master]]
  <2>1. /\ bpc[Master] = "fuse"
        /\ bpc' = [bpc EXCEPT ![Master] = "respond"]
        /\ bcast' = [s \in Rank |-> IF s \in Workers THEN Append(bcast[s], list)
                                                     ELSE bcast[s]]
        /\ UNCHANGED <<shut_down, should_shut_down, gather, from>>
    BY <1>7 DEF Broadcast
  <2>2. \A s \in Workers : Counted(s)
    BY <2>1 DEF Counted
  <2>3. \A s \in Workers : /\ bpc[s] = "recv" /\ gather[s] = <<>> /\ bcast[s] = <<>>
                           /\ should_shut_down[s] => should_shut_down[Master]
    BY <2>2 DEF ShutdownInv, CountedInv
  <2>4. /\ Head(<<list>>).shutdown <=> should_shut_down[Master]
        /\ Len(<<list>>) = 1 /\ <<list>> # <<>>
    BY DEF ShutdownType
  <2> HIDE DEF list
  <2>5. \A s \in Workers : bcast'[s] = <<list>>
    <3>1. Append(<<>>, list) = <<list>>
      OBVIOUS
    <3> QED
      BY <2>1, <2>3, <3>1 DEF Workers
  <2>6. \A q \in Rank : bpc'[q] = IF q = Master THEN "respond" ELSE bpc[q]
    BY <2>1 DEF ShutdownType
  <2>7. should_shut_down[Master] => AllTold'
    <3>1. ASSUME NEW s \in Workers, should_shut_down[Master] PROVE HasShutdown(s)'
      <4>1. bpc'[s] = "recv"
        BY <2>3, <2>6 DEF Workers
      <4>2. bcast'[s] # <<>> /\ Head(bcast'[s]).shutdown
        BY <2>4, <2>5, <3>1
      <4> QED
        BY <4>1, <4>2 DEF HasShutdown
    <3>2. should_shut_down[Master] => HasShutdown(Master)'
      BY <2>1, <2>6 DEF HasShutdown, Told
    <3> QED
      BY <3>1, <3>2 DEF AllTold, Workers
  <2>8. PlaceInv'
    BY <2>6 DEF ShutdownInv, PlaceInv, Workers
  <2>9. GatherInv' /\ CountedInv'
    BY <2>1, <2>3, <2>6 DEF GatherInv, CountedInv, Counted, Workers
  <2>10. BcastInv'
    <3> SUFFICES ASSUME NEW s \in Workers
                 PROVE  /\ bpc'[s] = "recv" /\ gather'[s] = <<>> /\ Len(bcast'[s]) = 1
                        /\ should_shut_down'[s] => Head(bcast'[s]).shutdown
                        /\ Head(bcast'[s]).shutdown => AllTold'
      BY DEF BcastInv, Workers
    <3> QED
      BY <2>1, <2>3, <2>4, <2>5, <2>6, <2>7 DEF Workers
  <2>11. FlagInv'
    BY <2>1, <2>3, <2>6, <2>7 DEF FlagInv, Asking, Told, Workers
  <2>12. LeftInv'
    BY <2>1, <2>6 DEF ShutdownInv, LeftInv, Left
  <2> QED
    BY <2>8, <2>9, <2>10, <2>11, <2>12 DEF ShutdownInv
<1> QED
  BY <1>1, <1>2, <1>4, <1>5, <1>6, <1>7 DEF CoordinatorStep

-----------------------------------------------------------------------------
LEMMA ShutdownStep ==
    TypeOK /\ ShutdownInv /\ Negotiating /\ [Next]_vars => ShutdownInv'
<1> SUFFICES ASSUME TypeOK, ShutdownInv, Negotiating, [Next]_vars PROVE ShutdownInv'
  OBVIOUS
<1>1. CASE UNCHANGED vars
  BY <1>1, ShutdownFrame DEF vars, flagVars, localVars, countVars, mpiVars
<1>2. CASE Terminating
  BY <1>1, <1>2 DEF Terminating
<1> QED
  BY <1>1, <1>2, TypesUsed, ShutdownUser, ShutdownBackground, ShutdownCoordinator DEF Next

LEMMA ShutdownSafe == ShutdownType /\ ShutdownInv => ShutdownTogether
BY DEF ShutdownInv, LeftInv, FlagInv, Left, Told, AllTold, HasShutdown, ShutdownTogether

\* BackgroundThreadLoop ends on all ranks in the same cycle: when one has left
\* it, every other rank has the shutdown in hand, either in its local flag or in
\* the response list that waits for it.  The negotiation is what makes it so: it
\* holds for every job in which no rank skips it (SetSkipNegotiateStageState).
THEOREM ShutdownAgreed == Spec /\ []Negotiating => []ShutdownTogether
<1>1. Init => ShutdownInv
  BY ShutdownInit
<1>2. TypeOK /\ ShutdownInv /\ Negotiating /\ [Next]_vars => ShutdownInv'
  BY ShutdownStep
<1>3. TypeOK /\ ShutdownInv => ShutdownTogether
  BY ShutdownSafe, TypesUsed
<1>4. Spec => []TypeOK
  BY TypeCorrect
<1> QED
  BY <1>1, <1>2, <1>3, <1>4, PTL DEF Spec

-----------------------------------------------------------------------------
(* Programs that never ask to skip the negotiation *)

NeverSkip(p) == \A i \in DOMAIN p : p[i].call # "skip"

SkipFree == Negotiating /\ \A r \in Rank : NeverSkip(program[r])

LEMMA TailNeverSkip ==
    ASSUME NEW p \in Seq(Call), p # <<>>, NeverSkip(p)
    PROVE  NeverSkip(Tail(p)) /\ Head(p).call # "skip"
<1>1. /\ Head(p) = p[1] /\ 1 \in DOMAIN p
      /\ \A i \in DOMAIN Tail(p) : i + 1 \in DOMAIN p /\ Tail(p)[i] = p[i + 1]
  BY HeadTailProperties, LenProperties, EmptySeq
<1> QED
  BY <1>1 DEF NeverSkip

LEMMA SkipFreeStep ==
    IndInv /\ SkipFree /\ [Next]_vars => SkipFree'
<1> SUFFICES ASSUME IndInv, SkipFree, [Next]_vars PROVE SkipFree'
  OBVIOUS
<1>1. ASSUME UNCHANGED <<skip, program>> PROVE SkipFree'
  BY <1>1 DEF SkipFree, Negotiating
<1>2. ASSUME NEW r \in Rank, UserStep(r) PROVE SkipFree'
  <2>1. program \in [Rank -> Seq(Call)] /\ skip \in [Rank -> BOOLEAN]
    BY DEF IndInv, TypeOK, UserOK, FlagOK
  <2>2. program[r] # <<>> => NeverSkip(Tail(program[r])) /\ Head(program[r]).call # "skip"
    BY <2>1, TailNeverSkip DEF SkipFree
  <2>3. program[r] # <<>>
    BY <1>2 DEF IndInv, CallInv, UserStep, EnqueueFail, EnqueueBegin, AddToTensorQueue,
       Synchronize, SetTopologyRefused, SetTopologyBegin, SetTopologyUnfinished,
       SetTopologyEnter, SetTopologyLeave, ClosePause, SkipNegotiateNow,
       SkipNegotiateBegin, SkipNegotiateApply, SuspendOrResume, Shutdown, Join, Calls,
       Paused, At
  <2>4. UNCHANGED skip
    BY <1>2, <2>2, <2>3 DEF UserStep, EnqueueFail, EnqueueBegin, AddToTensorQueue,
       Synchronize, SetTopologyRefused, SetTopologyBegin, SetTopologyUnfinished,
       SetTopologyEnter, SetTopologyLeave, ClosePause, SkipNegotiateNow,
       SkipNegotiateBegin, SkipNegotiateApply, SuspendOrResume, Shutdown, Join, Calls,
       Paused, RequestPause, flagVars
  <2>5. program' = program \/ program' = [program EXCEPT ![r] = Tail(program[r])]
    BY <1>2 DEF UserStep, EnqueueFail, EnqueueBegin, AddToTensorQueue,
       Synchronize, SetTopologyRefused, SetTopologyBegin, SetTopologyUnfinished,
       SetTopologyEnter, SetTopologyLeave, ClosePause, SkipNegotiateNow,
       SkipNegotiateBegin, SkipNegotiateApply, SuspendOrResume, Shutdown, Join,
       RequestPause, EndPause, Goto, Return
  <2> QED
    BY <2>1, <2>2, <2>3, <2>4, <2>5 DEF SkipFree, Negotiating
<1>3. ASSUME NEW r \in Rank, BackgroundStep(r) PROVE UNCHANGED <<skip, program>>
  BY <1>3 DEF BackgroundStep, ReadFlags, PopMessagesFromQueue, ConvertNext, ConvertDone,
     RemoveNext, RemoveDone, PerformDirect, PerformResponse, Complete, DirectDone,
     SlaveSend, SlaveRecv, RespondDone, Unpark, Unparked, Exit, FinalizeTensorQueue,
     userVars, flagVars
<1>4. CoordinatorStep => UNCHANGED <<skip, program>>
  BY DEF CoordinatorStep, CountRequest, NextList, CountDone, ConstructNext, ConstructDone,
     FuseNext, Broadcast, coordUnchanged, userVars, flagVars
<1>5. Terminating \/ UNCHANGED vars => UNCHANGED <<skip, program>>
  BY DEF Terminating, vars, userVars, flagVars
<1> QED
  BY <1>1, <1>2, <1>3, <1>4, <1>5 DEF Next

\* The hypothesis of ShutdownAgreed is one about the programs: it holds in every
\* job whose programs never call SetSkipNegotiateStageState.
THEOREM ShutdownAgreedSkipFree ==
    ASSUME \A p \in Programs : \A r \in Rank : NeverSkip(p[r])
    PROVE  Spec => []ShutdownTogether
<1>1. Init => SkipFree
  BY DEF Init, SkipFree, Negotiating
<1>2. IndInv /\ SkipFree /\ [Next]_vars => SkipFree'
  BY SkipFreeStep
<1>3. SkipFree => Negotiating
  BY DEF SkipFree
<1>4. Init => IndInv
  BY IndInit
<1>5. IndInv /\ [Next]_vars => IndInv'
  BY IndStep
<1>6. Spec /\ []Negotiating => []ShutdownTogether
  BY ShutdownAgreed
<1> QED
  BY <1>1, <1>2, <1>3, <1>4, <1>5, <1>6, PTL DEF Spec

-----------------------------------------------------------------------------
(* Counting the elements of a sequence *)

Count(s, P) == Cardinality({i \in DOMAIN s : s[i] \in P})

LEMMA CountType ==
    ASSUME NEW S, NEW s \in Seq(S), NEW P
    PROVE  /\ IsFiniteSet({i \in DOMAIN s : s[i] \in P})
           /\ Count(s, P) \in Nat
<1>1. DOMAIN s = 1 .. Len(s) /\ Len(s) \in Nat
  BY LenProperties
<1>2. IsFiniteSet(1 .. Len(s))
  BY <1>1, FS_Interval
<1>3. {i \in DOMAIN s : s[i] \in P} \in SUBSET (1 .. Len(s))
  BY <1>1
<1> QED
  BY <1>2, <1>3, FS_Subset, FS_CardinalityType DEF Count

LEMMA CountEmpty == \A P : Count(<<>>, P) = 0
<1> SUFFICES ASSUME NEW P PROVE Count(<<>>, P) = 0
  OBVIOUS
<1>1. {i \in DOMAIN <<>> : <<>>[i] \in P} = {}
  OBVIOUS
<1> QED
  BY <1>1, FS_EmptySet DEF Count

LEMMA CountAppend ==
    ASSUME NEW S, NEW s \in Seq(S), NEW x \in S, NEW P
    PROVE  Count(Append(s, x), P) = Count(s, P) + (IF x \in P THEN 1 ELSE 0)
<1> DEFINE I == {i \in DOMAIN s : s[i] \in P}
           t == Append(s, x)
           J == {i \in DOMAIN t : t[i] \in P}
           n == Len(s) + 1
<1>1. /\ DOMAIN t = 1 .. n /\ DOMAIN s = 1 .. Len(s) /\ Len(s) \in Nat
      /\ t[n] = x /\ \A i \in 1 .. Len(s) : t[i] = s[i]
  BY AppendProperties, LenProperties
<1>2. IsFiniteSet(I) /\ Cardinality(I) \in Nat
  BY CountType DEF Count
<1>3. n \notin I
  BY <1>1
<1>0. Count(t, P) = Cardinality(J) /\ Count(s, P) = Cardinality(I)
  BY DEF Count
<1> HIDE DEF t
<1>4. CASE x \in P
  <2>1. J = I \cup {n}
    BY <1>1, <1>4
  <2> HIDE DEF I, J, n
  <2>2. Cardinality(J) = Cardinality(I) + 1
    BY <1>2, <1>3, <2>1, FS_AddElement
  <2> QED
    BY <1>0, <1>4, <2>2 DEF t
<1>5. CASE x \notin P
  <2>1. J = I
    BY <1>1, <1>5
  <2> HIDE DEF I, J
  <2> QED
    BY <1>0, <1>2, <1>5, <2>1 DEF t
<1> QED
  BY <1>4, <1>5

\* The first element taken away.
LEMMA CountTail ==
    ASSUME NEW S, NEW s \in Seq(S), s # <<>>, NEW P
    PROVE  Count(s, P) = Count(Tail(s), P) + (IF Head(s) \in P THEN 1 ELSE 0)
<1> DEFINE t == Tail(s)
           I == {i \in DOMAIN s : s[i] \in P}
           J == {i \in DOMAIN t : t[i] \in P}
           K == I \ {1}
           f == [i \in J |-> i + 1]
<1>1. /\ DOMAIN s = 1 .. Len(s) /\ Len(s) \in Nat /\ Len(s) # 0
      /\ t \in Seq(S) /\ DOMAIN t = 1 .. Len(s) - 1
      /\ \A i \in DOMAIN t : t[i] = s[i + 1]
      /\ Head(s) = s[1]
  BY HeadTailProperties, LenProperties, EmptySeq
<1>2. /\ IsFiniteSet(I) /\ Cardinality(I) \in Nat
      /\ IsFiniteSet(J) /\ Cardinality(J) \in Nat
  BY <1>1, CountType DEF Count
<1>0. Count(t, P) = Cardinality(J) /\ Count(s, P) = Cardinality(I)
  BY DEF Count
<1> HIDE DEF t
<1>3. f \in Bijection(J, K)
  <2>1. f \in [J -> K]
    BY <1>1
  <2>2. \A a, b \in J : f[a] = f[b] => a = b
    BY <1>1
  <2>3. \A b \in K : \E a \in J : f[a] = b
    <3> TAKE b \in K
    <3>1. b - 1 \in J /\ f[b - 1] = b
      BY <1>1
    <3> QED
      BY <3>1
  <2> HIDE DEF f, J, K
  <2> QED
    BY <2>1, <2>2, <2>3 DEF Bijection, Injection, Surjection, IsInjective
<1>4. Cardinality(K) = Cardinality(J)
  <2> HIDE DEF f, J, K
  <2> QED
    BY <1>2, <1>3, FS_Bijection DEF ExistsBijection
<1>5. Cardinality(K) = IF 1 \in I THEN Cardinality(I) - 1 ELSE Cardinality(I)
  <2> HIDE DEF I
  <2> QED
    BY <1>2, FS_RemoveElement
<1>6. 1 \in I <=> Head(s) \in P
  BY <1>1
<1> HIDE DEF I, J, K, f
<1> QED
  BY <1>0, <1>2, <1>4, <1>5, <1>6 DEF t

\* The last element replaced.
LEMMA CountReplace ==
    ASSUME NEW S, NEW s \in Seq(S), s # <<>>, NEW x \in S, NEW P
    PROVE  /\ s[Len(s)] \in S
           /\ Count([s EXCEPT ![Len(s)] = x], P) + (IF s[Len(s)] \in P THEN 1 ELSE 0)
              = Count(s, P) + (IF x \in P THEN 1 ELSE 0)
<1> DEFINE n == Len(s)
           t == [s EXCEPT ![n] = x]
           I == {i \in DOMAIN s : s[i] \in P} \ {n}
           J == {i \in DOMAIN s : s[i] \in P}
           K == {i \in DOMAIN t : t[i] \in P}
<1>1. DOMAIN s = 1 .. n /\ n \in Nat /\ n # 0 /\ n \in DOMAIN s
  BY LenProperties, EmptySeq
<1>2. s[n] \in S
  BY <1>1, ElementOfSeq
<1>3. DOMAIN t = DOMAIN s /\ t[n] = x /\ \A i \in DOMAIN s : i # n => t[i] = s[i]
  BY <1>1
<1>4. IsFiniteSet(J) /\ Cardinality(J) \in Nat
  BY CountType DEF Count
<1>0. Count(t, P) = Cardinality(K) /\ Count(s, P) = Cardinality(J)
  BY DEF Count
<1> HIDE DEF t, n
<1>5. /\ IsFiniteSet(I) /\ n \notin I /\ Cardinality(I) \in Nat
      /\ Cardinality(J) = Cardinality(I) + (IF s[n] \in P THEN 1 ELSE 0)
  <2>1. n \in J <=> s[n] \in P
    BY <1>1
  <2>2. I = J \ {n}
    OBVIOUS
  <2> HIDE DEF I, J
  <2>3. /\ IsFiniteSet(I)
        /\ Cardinality(I) = IF n \in J THEN Cardinality(J) - 1 ELSE Cardinality(J)
    BY <1>4, <2>2, FS_RemoveElement
  <2>4. Cardinality(I) \in Nat
    BY <2>3, FS_CardinalityType
  <2> QED
    BY <1>4, <2>1, <2>2, <2>3, <2>4
<1>6. Cardinality(K) = Cardinality(I) + (IF x \in P THEN 1 ELSE 0)
  <2>1. CASE x \in P
    <3>1. K = I \cup {n}
      BY <1>1, <1>3, <2>1
    <3> HIDE DEF K, I
    <3>2. Cardinality(K) = Cardinality(I) + 1
      BY <1>5, <3>1, FS_AddElement
    <3> QED
      BY <2>1, <3>2
  <2>2. CASE x \notin P
    <3>1. K = I
      BY <1>1, <1>3, <2>2
    <3> HIDE DEF K, I
    <3> QED
      BY <1>5, <2>2, <3>1
  <2> QED
    BY <2>1, <2>2
<1> HIDE DEF I, J, K
<1> QED
  BY <1>0, <1>2, <1>4, <1>5, <1>6 DEF t, n

\* An element that is there is counted, and one alone is counted once.
LEMMA CountPositive ==
    ASSUME NEW S, NEW s \in Seq(S), NEW P
    PROVE  /\ Count(s, P) = 0 <=> \A i \in DOMAIN s : s[i] \notin P
           /\ Count(s, P) <= 1 => \A i, j \in DOMAIN s : s[i] \in P /\ s[j] \in P => i = j
<1> DEFINE I == {i \in DOMAIN s : s[i] \in P}
<1>1. IsFiniteSet(I) /\ Cardinality(I) \in Nat
  BY CountType DEF Count
<1>2. Cardinality(I) = 0 <=> I = {}
  BY <1>1, FS_EmptySet
<1>3. Cardinality(I) = 1 => \E x : I = {x}
  BY <1>1, FS_Singleton
<1>4. Cardinality(I) <= 1 => Cardinality(I) = 0 \/ Cardinality(I) = 1
  BY <1>1
<1> QED
  BY <1>1, <1>2, <1>3, <1>4 DEF Count

-----------------------------------------------------------------------------
(* Requests and responses on their way *)

(***************************************************************************)
(* No call finds its message name taken by an entry that the duplicate      *)
(* check of AddToTensorQueue did not find: emplace would drop the entry and *)
(* keep the request.  The check looks for the name of the tensor, which is  *)
(* the message name unless the operation is one on windows.                 *)
(***************************************************************************)
NoOverlap ==
    \A r \in Rank : mpc[r] = "add" /\ Key(Head(program[r]).op) \in DOMAIN tensor_table[r]
                    => IsDuplicate(r, Head(program[r]).op)

\* Message names of operations that are negotiated.
NegotiatedKey == KeySet \ (OneSidedType \X AnyName)

\* The requests of rank r for name k, and the responses that name k.
Wanted(r, k)  == {q \in Request : q.rank = r /\ q.key = k}
Answering(k)  == {x \in Response : \E j \in DOMAIN x.keys : x.keys[j] = k}

\* How many of them are where.
Queued(r, k)  == Count(message_queue[r], Wanted(r, k))
Popped(r, k)  == Count(buffer[r], Wanted(r, k))
Kept(r, k)    == Count(kept[r], Wanted(r, k))
Sent(r, k)    == IF gather[r] = <<>> THEN 0 ELSE Count(Head(gather[r]).requests, Wanted(r, k))
Parsed(r, k)  == Count(inbox, Wanted(r, k))
Tabled(r, k)  == IF k \in DOMAIN message_table THEN Count(message_table[k], Wanted(r, k)) ELSE 0
Built(k)      == Count(responses, Answering(k))
Listed(k)     == Count(response_list, Answering(k))
Answered(r, k) == IF bcast[r] = <<>> THEN 0 ELSE Count(Head(bcast[r]).responses, Answering(k))
Due(r, k)     == Count(todo[r], Answering(k))

Asked(r, k)   == Queued(r, k) + Popped(r, k) + Kept(r, k) + Sent(r, k) + Parsed(r, k)
                 + Tabled(r, k)
Replied(r, k) == Built(k) + Listed(k) + Answered(r, k) + Due(r, k)

\* RequestAccounting in these terms.
Owed(r, k) == IF k \in DOMAIN tensor_table[r] THEN 1 ELSE 0
AccountInv ==
    \A r \in Rank : bpc[r] # "down" =>
        \A k \in NegotiatedKey : Asked(r, k) + Replied(r, k) = Owed(r, k)

\* What rank r may have asked for: only one-sided operations have their names.
RequestsOf(r) == {q \in Request : /\ q.rank = r
                                  /\ q.type \in NegotiatedType <=> q.key \in NegotiatedKey}

\* Requests travel under the rank that sent them.
OriginInv ==
    \A r \in Rank :
        /\ message_queue[r] \in Seq(RequestsOf(r))
        /\ buffer[r] \in Seq(RequestsOf(r))
        /\ kept[r] \in Seq(RequestsOf(r))
        /\ gather[r] # <<>> => Head(gather[r]).requests \in Seq(RequestsOf(r))

\* The buffers of a thread hold something only in the stages that use them.
StageInv ==
    /\ \A r \in Rank :
          /\ buffer[r] # <<>> => bpc[r] \in {"convert", "remove", "aborted"}
          /\ kept[r] # <<>> => bpc[r] \in {"remove", "direct", "directing", "send", "aborted"}
          /\ todo[r] # <<>> => bpc[r] \in {"respond", "responding", "aborted"}
    /\ inbox # <<>> => bpc[Master] = "count"
    /\ responses # <<>> => bpc[Master] \in {"construct", "fuse", "aborted"}
    /\ gather[Master] = <<>> /\ bcast[Master] = <<>>

\* The coordinator builds one response per name.
SingleInv == \A i \in DOMAIN responses : Len(responses[i].keys) = 1

-----------------------------------------------------------------------------
(* The counts *)

\* What the counts need of the types.
AccountType ==
    /\ DOMAIN tensor_table = Rank
    /\ bpc \in [Rank -> BPC]
    /\ message_queue \in [Rank -> Seq(Request)]
    /\ buffer \in [Rank -> Seq(Request)]
    /\ kept \in [Rank -> Seq(NegotiatedRequest)]
    /\ todo \in [Rank -> Seq(Response)]
    /\ inbox \in Seq(NegotiatedRequest)
    /\ DOMAIN message_table \subseteq KeySet
    /\ \A k \in DOMAIN message_table : message_table[k] \in Seq(NegotiatedRequest)
    /\ responses \in Seq(Response)
    /\ response_list \in Seq(Response)
    /\ gather \in [Rank -> Seq(RequestList)]
    /\ bcast \in [Rank -> Seq(ResponseList)]

LEMMA AccountTypes == TypeOK => AccountType
BY DEF TypeOK, QueueOK, LocalOK, ExecOK, CountOK, FuseOK, MpiOK, AccountType

LEMMA HeadRequests ==
    ASSUME NEW r \in Rank, AccountType, gather[r] # <<>>
    PROVE  Head(gather[r]) \in RequestList /\ Head(gather[r]).requests \in Seq(NegotiatedRequest)
<1>1. Head(gather[r]) \in RequestList
  BY HeadTailProperties DEF AccountType
<1> QED
  BY <1>1 DEF RequestList

LEMMA HeadResponses ==
    ASSUME NEW r \in Rank, AccountType, bcast[r] # <<>>
    PROVE  Head(bcast[r]) \in ResponseList /\ Head(bcast[r]).responses \in Seq(Response)
<1>1. Head(bcast[r]) \in ResponseList
  BY HeadTailProperties DEF AccountType
<1> QED
  BY <1>1 DEF ResponseList

LEMMA CountsAreNat ==
    ASSUME NEW r \in Rank, NEW k, AccountType
    PROVE  /\ Queued(r, k) \in Nat /\ Popped(r, k) \in Nat /\ Kept(r, k) \in Nat
           /\ Sent(r, k) \in Nat /\ Parsed(r, k) \in Nat /\ Tabled(r, k) \in Nat
           /\ Built(k) \in Nat /\ Listed(k) \in Nat /\ Answered(r, k) \in Nat
           /\ Due(r, k) \in Nat
<1>1. Queued(r, k) \in Nat /\ Popped(r, k) \in Nat /\ Kept(r, k) \in Nat
  BY CountType DEF AccountType, Queued, Popped, Kept
<1>2. Sent(r, k) \in Nat
  BY CountType, HeadRequests DEF Sent
<1>3. Parsed(r, k) \in Nat /\ Built(k) \in Nat /\ Listed(k) \in Nat /\ Due(r, k) \in Nat
  BY CountType DEF AccountType, Parsed, Built, Listed, Due
<1>4. Tabled(r, k) \in Nat
  BY CountType DEF AccountType, Tabled
<1>5. Answered(r, k) \in Nat
  BY CountType, HeadResponses DEF Answered
<1> QED
  BY <1>1, <1>2, <1>3, <1>4, <1>5

\* Elements of a sequence chosen by what they say, or by membership.
LEMMA CountRequests ==
    ASSUME NEW s \in Seq(Request), NEW r, NEW k
    PROVE  Cardinality({i \in DOMAIN s : s[i].rank = r /\ s[i].key = k})
           = Count(s, Wanted(r, k))
<1>1. \A i \in DOMAIN s : s[i] \in Request
  BY ElementOfSeq, LenProperties
<1>2. {i \in DOMAIN s : s[i].rank = r /\ s[i].key = k} = {i \in DOMAIN s : s[i] \in Wanted(r, k)}
  BY <1>1 DEF Wanted
<1> QED
  BY <1>2 DEF Count

LEMMA CountResponses ==
    ASSUME NEW s \in Seq(Response), NEW k
    PROVE  Cardinality({i \in DOMAIN s : \E j \in DOMAIN s[i].keys : s[i].keys[j] = k})
           = Count(s, Answering(k))
<1>1. \A i \in DOMAIN s : s[i] \in Response
  BY ElementOfSeq, LenProperties
<1>2. {i \in DOMAIN s : \E j \in DOMAIN s[i].keys : s[i].keys[j] = k}
      = {i \in DOMAIN s : s[i] \in Answering(k)}
  BY <1>1 DEF Answering
<1> QED
  BY <1>2 DEF Count

LEMMA NegotiatedSeq == Seq(NegotiatedRequest) \subseteq Seq(Request)
<1> SUFFICES ASSUME NEW s \in Seq(NegotiatedRequest) PROVE s \in Seq(Request)
  OBVIOUS
<1>1. \A i \in 1 .. Len(s) : s[i] \in Request
  BY ElementOfSeq DEF NegotiatedRequest
<1> QED
  BY <1>1, LenProperties, SeqDef

\* RequestsFor and ResponsesFor are the sums of the counts.
LEMMA AskedIs ==
    ASSUME NEW r \in Rank, NEW k, AccountType
    PROVE  RequestsFor(r, k) = Asked(r, k) /\ ResponsesFor(r, k) = Replied(r, k)
<1> DEFINE of(s) == Cardinality({i \in DOMAIN s : s[i].rank = r /\ s[i].key = k})
           by(s) == Cardinality({i \in DOMAIN s :
                                   \E j \in DOMAIN s[i].keys : s[i].keys[j] = k})
<1>1. /\ RequestsFor(r, k)
           = of(message_queue[r]) + of(buffer[r]) + of(kept[r]) + of(inbox)
             + (IF gather[r] = <<>> THEN 0 ELSE of(Head(gather[r]).requests))
             + (IF k \in DOMAIN message_table THEN of(message_table[k]) ELSE 0)
      /\ ResponsesFor(r, k)
           = by(responses) + by(response_list) + by(todo[r])
             + (IF bcast[r] = <<>> THEN 0 ELSE by(Head(bcast[r]).responses))
  BY DEF RequestsFor, ResponsesFor
<1>2. /\ \A s \in Seq(Request) : of(s) = Count(s, Wanted(r, k))
      /\ \A s \in Seq(Response) : by(s) = Count(s, Answering(k))
  BY CountRequests, CountResponses
<1> HIDE DEF of, by
<1>3. /\ of(message_queue[r]) = Queued(r, k) /\ of(buffer[r]) = Popped(r, k)
      /\ of(kept[r]) = Kept(r, k) /\ of(inbox) = Parsed(r, k)
  BY <1>2, NegotiatedSeq DEF AccountType, Queued, Popped, Kept, Parsed
<1>4. (IF gather[r] = <<>> THEN 0 ELSE of(Head(gather[r]).requests)) = Sent(r, k)
  BY <1>2, NegotiatedSeq, HeadRequests DEF Sent
<1>5. (IF k \in DOMAIN message_table THEN of(message_table[k]) ELSE 0) = Tabled(r, k)
  BY <1>2, NegotiatedSeq DEF AccountType, Tabled
<1>6. /\ by(responses) = Built(k) /\ by(response_list) = Listed(k) /\ by(todo[r]) = Due(r, k)
  BY <1>2 DEF AccountType, Built, Listed, Due
<1>7. (IF bcast[r] = <<>> THEN 0 ELSE by(Head(bcast[r]).responses)) = Answered(r, k)
  BY <1>2, HeadResponses DEF Answered
<1>8. /\ RequestsFor(r, k) = Queued(r, k) + Popped(r, k) + Kept(r, k) + Parsed(r, k)
                              + Sent(r, k) + Tabled(r, k)
      /\ ResponsesFor(r, k) = Built(k) + Listed(k) + Due(r, k) + Answered(r, k)
  <2> HIDE DEF AccountType
  <2> QED
    BY <1>1, <1>3, <1>4, <1>5, <1>6, <1>7
<1> QED
  BY <1>8, CountsAreNat DEF Asked, Replied

\* Whatever leaves the sequences of a rank and the coordinator's alone leaves
\* its counts alone.
LEMMA SameCounts ==
    ASSUME NEW r \in Rank, NEW k,
           message_queue'[r] = message_queue[r], buffer'[r] = buffer[r],
           kept'[r] = kept[r], gather'[r] = gather[r], bcast'[r] = bcast[r],
           todo'[r] = todo[r],
           UNCHANGED <<inbox, message_table, responses, response_list>>
    PROVE  Asked(r, k)' = Asked(r, k) /\ Replied(r, k)' = Replied(r, k)
BY DEF Asked, Replied, Queued, Popped, Kept, Sent, Parsed, Tabled, Built, Listed, Answered, Due

\* While the coordinator is at work no rank has left.
LEMMA NobodyLeft ==
    ASSUME ShutdownInv, bpc[Master] \in {"count", "construct", "fuse"}
    PROVE  \A q \in Rank : bpc[q] \notin {"exit", "finalize", "down"}
<1> SUFFICES ASSUME NEW q \in Rank, bpc[q] \in {"exit", "finalize", "down"} PROVE FALSE
  OBVIOUS
<1>1. should_shut_down[q] /\ bpc[q] \in Told
  BY DEF ShutdownInv, LeftInv, Left, Told
<1>2. HasShutdown(Master)
  BY <1>1, MasterRank DEF ShutdownInv, FlagInv, AllTold
<1> QED
  BY <1>2 DEF HasShutdown, Told

\* The steps of a user thread that queue nothing.
LEMMA UserFrame ==
    ASSUME NEW r \in Rank, UserStep(r), ~AddToTensorQueue(r)
    PROVE  UNCHANGED <<queueVars, backgroundVars, gather, bcast>>
BY DEF UserStep, EnqueueFail, EnqueueBegin, Synchronize,
     SetTopologyRefused, SetTopologyBegin, SetTopologyUnfinished, SetTopologyEnter,
     SetTopologyLeave, ClosePause, SkipNegotiateNow, SkipNegotiateBegin,
     SkipNegotiateApply, SuspendOrResume, Shutdown, Join, RequestPause, mpiVars

-----------------------------------------------------------------------------
(* Origins and stages *)

AuxInv == OriginInv /\ StageInv /\ SingleInv

LEMMA AuxInit == Init => AuxInv
<1> SUFFICES ASSUME Init PROVE AuxInv
  OBVIOUS
<1>1. \A r \in Rank : /\ message_queue[r] = <<>> /\ buffer[r] = <<>> /\ kept[r] = <<>>
                      /\ gather[r] = <<>> /\ bcast[r] = <<>> /\ todo[r] = <<>>
  BY DEF Init
<1>2. inbox = <<>> /\ responses = <<>>
  BY DEF Init
<1>3. \A r \in Rank : <<>> \in Seq(RequestsOf(r))
  BY EmptySeq
<1>4. OriginInv
  BY <1>1, <1>3 DEF OriginInv
<1>5. StageInv
  BY <1>1, <1>2, MasterRank DEF StageInv
<1>6. SingleInv
  BY <1>2 DEF SingleInv
<1> QED
  BY <1>4, <1>5, <1>6 DEF AuxInv

LEMMA AuxFrame ==
    ASSUME AuxInv,
           UNCHANGED <<message_queue, buffer, kept, todo, gather, bcast, inbox, responses, bpc>>
    PROVE  AuxInv'
BY DEF AuxInv, OriginInv, StageInv, SingleInv, RequestsOf

\* A request names the operation it stands for.
LEMMA RequestOfRank ==
    ASSUME NEW r \in Rank, NEW op \in Op
    PROVE  RequestOf(r, op) \in RequestsOf(r)
<1>1. RequestOf(r, op) \in Request /\ Key(op) \in KeySet
  BY RequestOfType
<1>2. /\ RequestOf(r, op).rank = r /\ RequestOf(r, op).type = op.type
      /\ RequestOf(r, op).key = Key(op)
  BY DEF RequestOf
<1>3. op.type \in OpType /\ op.name \in AnyName
  BY DEF Op
<1>4. op.type \in NegotiatedType <=> Key(op) \in NegotiatedKey
  <2>1. CASE op.type \in OneSidedType
    BY <1>1, <1>3, <2>1 DEF Key, NegotiatedKey, OneSidedType, NegotiatedType, WindowType
  <2>2. CASE op.type \notin OneSidedType
    <3>1. op.type \in NegotiatedType
      BY <1>3, <2>2 DEF OpType
    <3>2. Key(op)[1] \notin OneSidedType
      BY <2>2 DEF Key, OneSidedType, WindowType
    <3> QED
      BY <1>1, <3>1, <3>2 DEF NegotiatedKey
  <2> QED
    BY <2>1, <2>2
<1> QED
  BY <1>1, <1>2, <1>4 DEF RequestsOf

LEMMA AddedOp ==
    ASSUME NEW r \in Rank, IndInv, mpc[r] = "add"
    PROVE  Head(program[r]).op \in Op
BY HeadCall, CallFields DEF IndInv, TypeOK, CallInv

LEMMA AuxUser ==
    ASSUME NEW r \in Rank, IndInv, AuxInv, UserStep(r)
    PROVE  AuxInv'
<1>1. CASE ~AddToTensorQueue(r)
  BY <1>1, UserFrame, AuxFrame DEF queueVars, backgroundVars, localVars, execVars, countVars,
     fuseVars
<1>2. CASE AddToTensorQueue(r)
  <2> DEFINE op == Head(program[r]).op
  <2>1. op \in Op
    BY <1>2, AddedOp DEF AddToTensorQueue, At
  <2>2. /\ \/ UNCHANGED message_queue
           \/ message_queue' = [message_queue EXCEPT ![r] = Append(@, RequestOf(r, op))]
        /\ UNCHANGED <<buffer, kept, todo, gather, bcast, inbox, responses, bpc>>
    BY <1>2 DEF AddToTensorQueue, queueVars, backgroundVars, localVars, execVars, countVars,
       fuseVars, mpiVars
  <2> HIDE DEF op
  <2>3. RequestOf(r, op) \in RequestsOf(r)
    BY <2>1, RequestOfRank
  <2>4. message_queue \in [Rank -> Seq(Request)]
    BY DEF IndInv, TypeOK, QueueOK
  <2>5. \A q \in Rank : message_queue'[q] \in Seq(RequestsOf(q))
    <3> TAKE q \in Rank
    <3>1. message_queue[q] \in Seq(RequestsOf(q))
      BY DEF AuxInv, OriginInv
    <3>2. \/ message_queue'[q] = message_queue[q]
          \/ q = r /\ message_queue'[q] = Append(message_queue[q], RequestOf(r, op))
      BY <2>2, <2>4
    <3> QED
      BY <2>3, <3>1, <3>2, AppendProperties, SMTT(30)
  <2>6. OriginInv'
    BY <2>2, <2>5 DEF AuxInv, OriginInv, RequestsOf
  <2>7. StageInv' /\ SingleInv'
    BY <2>2 DEF AuxInv, StageInv, SingleInv
  <2> QED
    BY <2>6, <2>7 DEF AuxInv
<1> QED
  BY <1>1, <1>2

\* A thread that only moves on: what it leaves behind is empty.
LEMMA AuxMoves ==
    ASSUME NEW r \in Rank, NEW pc, AccountType, AuxInv,
           bpc' = [bpc EXCEPT ![r] = pc],
           UNCHANGED <<message_queue, buffer, kept, todo, gather, bcast, inbox, responses>>,
           buffer[r] # <<>> => pc \in {"convert", "remove", "aborted"},
           kept[r] # <<>> => pc \in {"remove", "direct", "directing", "send", "aborted"},
           todo[r] # <<>> => pc \in {"respond", "responding", "aborted"},
           r = Master /\ inbox # <<>> => pc = "count",
           r = Master /\ responses # <<>> => pc \in {"construct", "fuse", "aborted"}
    PROVE  AuxInv'
<1>1. \A q \in Rank : bpc'[q] = IF q = r THEN pc ELSE bpc[q]
  BY DEF AccountType
<1>2. OriginInv' /\ SingleInv'
  BY DEF AuxInv, OriginInv, SingleInv, RequestsOf
<1>3. StageInv'
  BY <1>1, MasterRank DEF AuxInv, StageInv
<1> QED
  BY <1>2, <1>3 DEF AuxInv

LEMMA AuxBackground ==
    ASSUME NEW r \in Rank, AccountType, ShutdownInv, Negotiating, AuxInv, BackgroundStep(r)
    PROVE  AuxInv'
<1> USE MasterRank
<1> USE DEF BGoto, userVars, queueVars, localVars, execVars, masterVars, countVars, fuseVars,
            mpiVars
<1> DEFINE Same == UNCHANGED <<message_queue, buffer, kept, todo, gather, bcast, inbox, responses>>
<1>0. /\ buffer[r] # <<>> => bpc[r] \in {"convert", "remove", "aborted"}
      /\ kept[r] # <<>> => bpc[r] \in {"remove", "direct", "directing", "send", "aborted"}
      /\ todo[r] # <<>> => bpc[r] \in {"respond", "responding", "aborted"}
      /\ r = Master /\ inbox # <<>> => bpc[r] = "count"
      /\ r = Master /\ responses # <<>> => bpc[r] \in {"construct", "fuse", "aborted"}
  BY DEF AuxInv, StageInv
<1>1. CASE ReadFlags(r)
  <2>1. bpc[r] = "top" /\ bpc' = [bpc EXCEPT ![r] = "pop"] /\ Same
    BY <1>1 DEF ReadFlags
  <2> QED
    BY <1>0, <2>1, AuxMoves
<1>2. CASE PopMessagesFromQueue(r)
  <2>1. /\ bpc[r] = "pop" /\ bpc' = [bpc EXCEPT ![r] = "convert"]
        /\ buffer' = [buffer EXCEPT ![r] = message_queue[r]]
        /\ message_queue' = [message_queue EXCEPT ![r] = <<>>]
        /\ UNCHANGED <<kept, todo, gather, bcast, inbox, responses>>
    BY <1>2 DEF PopMessagesFromQueue
  <2>2. \A q \in Rank : /\ bpc'[q] = IF q = r THEN "convert" ELSE bpc[q]
                        /\ buffer'[q] = IF q = r THEN message_queue[q] ELSE buffer[q]
                        /\ message_queue'[q] = IF q = r THEN <<>> ELSE message_queue[q]
    BY <2>1 DEF AccountType
  <2>3. \A q \in Rank : /\ message_queue'[q] \in Seq(RequestsOf(q))
                        /\ buffer'[q] \in Seq(RequestsOf(q))
    BY <2>2, EmptySeq DEF AuxInv, OriginInv
  <2>4. OriginInv'
    BY <2>1, <2>3 DEF AuxInv, OriginInv, RequestsOf
  <2>5. StageInv' /\ SingleInv'
    BY <1>0, <2>1, <2>2 DEF AuxInv, StageInv, SingleInv
  <2> QED
    BY <2>4, <2>5 DEF AuxInv
<1>3. CASE ConvertNext(r)
  <2>1. /\ bpc[r] = "convert" /\ Same
        /\ bpc' = [bpc EXCEPT ![r] = "convert"] \/ bpc' = [bpc EXCEPT ![r] = "aborted"]
    BY <1>3 DEF ConvertNext, AccountType
  <2> QED
    BY <1>0, <2>1, AuxMoves
<1>4. CASE ConvertDone(r)
  <2>1. bpc[r] = "convert" /\ bpc' = [bpc EXCEPT ![r] = "remove"] /\ Same
    BY <1>4 DEF ConvertDone
  <2> QED
    BY <1>0, <2>1, AuxMoves
<1>5. CASE RemoveNext(r)
  <2> DEFINE head == Head(buffer[r])
  <2>1. /\ bpc[r] = "remove" /\ buffer[r] # <<>>
        /\ buffer' = [buffer EXCEPT ![r] = Tail(buffer[r])]
        /\ kept' = [kept EXCEPT ![r] = IF Direct(r, head) THEN kept[r] ELSE Append(kept[r], head)]
        /\ UNCHANGED <<bpc, message_queue, todo, gather, bcast, inbox, responses>>
    BY <1>5 DEF RemoveNext
  <2>2. head \in RequestsOf(r) /\ Tail(buffer[r]) \in Seq(RequestsOf(r))
    BY <2>1, HeadTailProperties DEF AuxInv, OriginInv
  <2> HIDE DEF head
  <2>3. \A q \in Rank : /\ buffer'[q] = IF q = r THEN Tail(buffer[r]) ELSE buffer[q]
                        /\ \/ kept'[q] = kept[q]
                           \/ q = r /\ kept'[q] = Append(kept[r], head)
    <3>1. CASE Direct(r, head)
      BY <2>1, <3>1 DEF AccountType
    <3>2. CASE ~Direct(r, head)
      BY <2>1, <3>2 DEF AccountType
    <3> QED
      BY <3>1, <3>2
  <2>4. \A q \in Rank : buffer'[q] \in Seq(RequestsOf(q)) /\ kept'[q] \in Seq(RequestsOf(q))
    <3> TAKE q \in Rank
    <3>1. buffer[q] \in Seq(RequestsOf(q)) /\ kept[q] \in Seq(RequestsOf(q))
      BY DEF AuxInv, OriginInv
    <3>2. buffer'[q] \in Seq(RequestsOf(q))
      BY <2>2, <2>3, <3>1
    <3>3. CASE q = r
      <4>1. Append(kept[r], head) \in Seq(RequestsOf(r))
        BY <2>2, <3>1, <3>3, AppendProperties
      <4> QED
        BY <2>3, <3>1, <3>2, <3>3, <4>1
    <3> QED
      BY <2>3, <3>1, <3>2, <3>3
  <2>5. OriginInv'
    BY <2>1, <2>4 DEF AuxInv, OriginInv, RequestsOf
  <2>6. StageInv' /\ SingleInv'
    BY <2>1, <2>3 DEF AuxInv, StageInv, SingleInv
  <2> QED
    BY <2>5, <2>6 DEF AuxInv
<1>6. CASE RemoveDone(r)
  <2>1. bpc[r] = "remove" /\ buffer[r] = <<>> /\ bpc' = [bpc EXCEPT ![r] = "direct"] /\ Same
    BY <1>6 DEF RemoveDone
  <2> QED
    BY <1>0, <2>1, AuxMoves
<1>7. CASE PerformDirect(r)
  <2>1. /\ bpc[r] = "direct" /\ Same /\ Perform(r, <<Head(entries[r])>>, "directing")
    BY <1>7 DEF PerformDirect
  <2>2. \E pc \in {"direct", "directing", "aborted"} : bpc' = [bpc EXCEPT ![r] = pc]
    BY <2>1 DEF Perform, AccountType
  <2>3. ASSUME NEW pc \in {"direct", "directing", "aborted"}, bpc' = [bpc EXCEPT ![r] = pc]
        PROVE  AuxInv'
    BY <1>0, <2>1, <2>3, AuxMoves
  <2> QED
    BY <2>2, <2>3
<1>8. CASE PerformResponse(r)
  <2> DEFINE keys  == Head(todo[r]).keys
             batch == [i \in DOMAIN keys |-> tensor_table[r][keys[i]]]
  <2>1. /\ bpc[r] = "respond" /\ todo[r] # <<>>
        /\ UNCHANGED <<message_queue, buffer, kept, gather, bcast, inbox, responses>>
        /\ UNCHANGED todo \/ todo' = [todo EXCEPT ![r] = Tail(todo[r])]
        /\ \/ bpc' = [bpc EXCEPT ![r] = "aborted"]
           \/ bpc' = bpc
           \/ Perform(r, batch, "responding")
    BY <1>8 DEF PerformResponse
  <2> HIDE DEF batch
  <2>2. \E pc \in {"respond", "responding", "aborted"} : bpc' = [bpc EXCEPT ![r] = pc]
    BY <2>1 DEF Perform, AccountType
  <2>3. PICK pc \in {"respond", "responding", "aborted"} :
           \A q \in Rank : bpc'[q] = IF q = r THEN pc ELSE bpc[q]
    BY <2>2 DEF AccountType
  <2>4. \A q \in Rank : todo'[q] = todo[q] \/ q = r
    BY <2>1 DEF AccountType
  <2>5. OriginInv' /\ SingleInv'
    BY <2>1 DEF AuxInv, OriginInv, SingleInv, RequestsOf
  <2>6. StageInv'
    BY <1>0, <2>1, <2>3, <2>4 DEF AuxInv, StageInv
  <2> QED
    BY <2>5, <2>6 DEF AuxInv
<1>9. CASE Complete(r)
  <2>1. PICK pc \in {"direct", "respond", "aborted"} :
          /\ bpc[r] \in {"directing", "responding"} /\ Same /\ bpc' = [bpc EXCEPT ![r] = pc]
          /\ pc # "aborted" => \/ bpc[r] = "directing" /\ pc = "direct"
                               \/ bpc[r] = "responding" /\ pc = "respond"
    BY <1>9 DEF Complete
  <2>2. \/ bpc[r] = "directing" /\ pc = "direct"
        \/ bpc[r] = "responding" /\ pc = "respond"
        \/ pc = "aborted"
    BY <2>1
  <2> QED
    BY <1>0, <2>1, <2>2, AuxMoves
<1>10. CASE DirectDone(r)
  <2>1. ~skip[r]
    BY DEF Negotiating
  <2>2. CASE r # Master
    <3>1. /\ bpc[r] = "direct" /\ bpc' = [bpc EXCEPT ![r] = "send"]
          /\ kept' = [kept EXCEPT ![r] = kept[r]]
          /\ UNCHANGED <<message_queue, buffer, todo, gather, bcast, inbox, responses>>
      BY <1>10, <2>1, <2>2 DEF DirectDone
    <3>2. kept' = kept
      BY <3>1 DEF AccountType
    <3> QED
      BY <1>0, <2>2, <3>1, <3>2, AuxMoves
  <2>3. CASE r = Master
    <3>1. /\ bpc[r] = "direct" /\ bpc' = [bpc EXCEPT ![r] = "count"]
          /\ kept' = [kept EXCEPT ![r] = <<>>] /\ inbox' = kept[r]
          /\ UNCHANGED <<message_queue, buffer, todo, gather, bcast, responses>>
      BY <1>10, <2>1, <2>3 DEF DirectDone
    <3>2. \A q \in Rank : /\ bpc'[q] = IF q = r THEN "count" ELSE bpc[q]
                          /\ kept'[q] = IF q = r THEN <<>> ELSE kept[q]
      BY <3>1 DEF AccountType
    <3>3. \A q \in Rank : kept'[q] \in Seq(RequestsOf(q))
      BY <3>2, EmptySeq DEF AuxInv, OriginInv
    <3>4. OriginInv' /\ SingleInv'
      BY <3>1, <3>3 DEF AuxInv, OriginInv, SingleInv, RequestsOf
    <3>5. StageInv'
      BY <1>0, <2>3, <3>1, <3>2 DEF AuxInv, StageInv
    <3> QED
      BY <3>4, <3>5 DEF AuxInv
  <2> QED
    BY <2>2, <2>3
<1>11. CASE SlaveSend(r)
  <2> DEFINE list == [requests |-> kept[r], shutdown |-> ShutdownFlag(r),
                      change_topo |-> should_change_topo[r]]
  <2>1. /\ bpc[r] = "send" /\ bpc' = [bpc EXCEPT ![r] = "recv"]
        /\ kept' = [kept EXCEPT ![r] = <<>>]
        /\ gather' = [gather EXCEPT ![r] = Append(gather[r], list)]
        /\ UNCHANGED <<message_queue, buffer, todo, bcast, inbox, responses>>
    BY <1>11 DEF SlaveSend
  <2>2. r # Master /\ gather[r] = <<>>
    BY <2>1 DEF ShutdownInv, PlaceInv, GatherInv, Workers
  <2>3. Head(<<list>>).requests = kept[r]
    OBVIOUS
  <2> HIDE DEF list
  <2>4. \A q \in Rank : /\ bpc'[q] = IF q = r THEN "recv" ELSE bpc[q]
                        /\ kept'[q] = IF q = r THEN <<>> ELSE kept[q]
                        /\ gather'[q] = IF q = r THEN <<list>> ELSE gather[q]
    BY <2>1, <2>2 DEF AccountType
  <2>5. \A q \in Rank : /\ kept'[q] \in Seq(RequestsOf(q))
                        /\ gather'[q] # <<>> => Head(gather'[q]).requests \in Seq(RequestsOf(q))
    BY <2>3, <2>4, EmptySeq DEF AuxInv, OriginInv
  <2>6. OriginInv' /\ SingleInv'
    BY <2>1, <2>5 DEF AuxInv, OriginInv, SingleInv, RequestsOf
  <2>7. StageInv'
    BY <1>0, <2>1, <2>2, <2>4 DEF AuxInv, StageInv
  <2> QED
    BY <2>6, <2>7 DEF AuxInv
<1>12. CASE SlaveRecv(r)
  <2>1. /\ bpc[r] = "recv" /\ bpc' = [bpc EXCEPT ![r] = "respond"]
        /\ bcast' = [bcast EXCEPT ![r] = Tail(bcast[r])]
        /\ todo' = [todo EXCEPT ![r] = ToExecute(Head(bcast[r]))]
        /\ UNCHANGED <<message_queue, buffer, kept, gather, inbox, responses>>
    BY <1>12 DEF SlaveRecv
  <2>2. r # Master
    BY <2>1 DEF ShutdownInv, PlaceInv
  <2>3. \A q \in Rank : /\ bpc'[q] = IF q = r THEN "respond" ELSE bpc[q]
                        /\ q # r => todo'[q] = todo[q] /\ bcast'[q] = bcast[q]
    BY <2>1 DEF AccountType
  <2>4. OriginInv' /\ SingleInv'
    BY <2>1 DEF AuxInv, OriginInv, SingleInv, RequestsOf
  <2>5. StageInv'
    BY <1>0, <2>1, <2>2, <2>3 DEF AuxInv, StageInv
  <2> QED
    BY <2>4, <2>5 DEF AuxInv
<1>13. CASE RespondDone(r)
  <2> DEFINE pc == IF should_change_topo[r] THEN "park" ELSE NextCycle(r)
  <2>1. bpc[r] = "respond" /\ todo[r] = <<>> /\ Same /\ bpc' = [bpc EXCEPT ![r] = pc]
    BY <1>13 DEF RespondDone, EndCycle
  <2> HIDE DEF pc
  <2> QED
    BY <1>0, <2>1, AuxMoves
<1>14. CASE Unpark(r)
  <2>1. bpc[r] = "park" /\ bpc' = [bpc EXCEPT ![r] = "unpark"] /\ Same
    BY <1>14 DEF Unpark
  <2> QED
    BY <1>0, <2>1, AuxMoves
<1>15. CASE Unparked(r)
  <2>1. bpc[r] = "unpark" /\ bpc' = [bpc EXCEPT ![r] = NextCycle(r)] /\ Same
    BY <1>15 DEF Unparked
  <2> QED
    BY <1>0, <2>1, AuxMoves
<1>16. CASE Exit(r)
  <2>1. bpc[r] = "exit" /\ bpc' = [bpc EXCEPT ![r] = "finalize"] /\ Same
    BY <1>16 DEF Exit
  <2> QED
    BY <1>0, <2>1, AuxMoves
<1>17. CASE FinalizeTensorQueue(r)
  <2>1. /\ bpc[r] = "finalize" /\ bpc' = [bpc EXCEPT ![r] = "down"]
        /\ message_queue' = [message_queue EXCEPT ![r] = <<>>]
        /\ UNCHANGED <<buffer, kept, todo, gather, bcast, inbox, responses>>
    BY <1>17 DEF FinalizeTensorQueue
  <2>2. \A q \in Rank : /\ bpc'[q] = IF q = r THEN "down" ELSE bpc[q]
                        /\ message_queue'[q] = IF q = r THEN <<>> ELSE message_queue[q]
    BY <2>1 DEF AccountType
  <2>3. \A q \in Rank : message_queue'[q] \in Seq(RequestsOf(q))
    BY <2>2, EmptySeq DEF AuxInv, OriginInv
  <2>4. OriginInv' /\ SingleInv'
    BY <2>1, <2>3 DEF AuxInv, OriginInv, SingleInv, RequestsOf
  <2>5. StageInv'
    BY <1>0, <2>1, <2>2 DEF AuxInv, StageInv
  <2> QED
    BY <2>4, <2>5 DEF AuxInv
<1> QED
  BY <1>1, <1>2, <1>3, <1>4, <1>5, <1>6, <1>7, <1>8, <1>9, <1>10, <1>11, <1>12,
     <1>13, <1>14, <1>15, <1>16, <1>17 DEF BackgroundStep

\* The answer to the requests of a name is one for that name.
LEMMA ConstructedKeys ==
    ASSUME NEW k, NEW reqs
    PROVE  ConstructResponse(k, reqs).keys = <<k>>
BY DEF ConstructResponse

LEMMA AuxCoordinator ==
    ASSUME IndInv, AccountType, ShutdownInv, AuxInv, CoordinatorStep
    PROVE  AuxInv'
<1> USE MasterRank
<1> USE DEF MasterGoto, coordUnchanged, queueVars, countVars, fuseVars
<1>0. responses \in Seq(Response) /\ \A i \in DOMAIN responses : Len(responses[i].keys) = 1
  BY DEF AccountType, AuxInv, SingleInv
<1>1. CASE CountRequest
  <2>1. /\ bpc[Master] = "count"
        /\ UNCHANGED <<message_queue, buffer, kept, todo, gather, bcast, responses, bpc>>
    BY <1>1 DEF CountRequest
  <2> QED
    BY <2>1 DEF AuxInv, OriginInv, StageInv, SingleInv, RequestsOf
<1>2. CASE NextList
  <2> DEFINE s == from + 1
  <2>1. /\ bpc[Master] = "count" /\ s \in Workers
        /\ gather' = [gather EXCEPT ![s] = Tail(gather[s])]
        /\ UNCHANGED <<message_queue, buffer, kept, todo, bcast, responses, bpc>>
    BY <1>2 DEF NextList
  <2>2. gather[s] # <<>>
    <3>1. s > from
      BY DEF IndInv, TypeOK, CountOK, Rank
    <3> QED
      BY <1>2, <2>1, <3>1 DEF NextList
  <2>3. s \in Rank /\ s # Master
    BY <2>1 DEF Workers
  <2>4. Tail(gather[s]) = <<>>
    <3>1. Len(gather[s]) = 1 /\ gather[s] \in Seq(RequestList)
      BY <2>1, <2>2, <2>3 DEF ShutdownInv, GatherInv, AccountType
    <3> QED
      BY <3>1, SingleMessage
  <2> HIDE DEF s
  <2>5. \A q \in Rank : gather'[q] = IF q = s THEN <<>> ELSE gather[q]
    BY <2>1, <2>4 DEF AccountType
  <2>6. OriginInv' /\ SingleInv'
    BY <2>1, <2>5 DEF AuxInv, OriginInv, SingleInv, RequestsOf
  <2>7. StageInv'
    BY <2>1, <2>3, <2>5 DEF AuxInv, StageInv
  <2> QED
    BY <2>6, <2>7 DEF AuxInv
<1>3. CASE CountDone
  <2>1. /\ bpc[Master] = "count" /\ inbox = <<>> /\ bpc' = [bpc EXCEPT ![Master] = "construct"]
        /\ UNCHANGED <<message_queue, buffer, kept, todo, gather, bcast, inbox, responses>>
    BY <1>3 DEF CountDone
  <2>2. buffer[Master] = <<>> /\ kept[Master] = <<>> /\ todo[Master] = <<>>
    BY <2>1 DEF AuxInv, StageInv
  <2> QED
    BY <2>1, <2>2, AuxMoves
<1>4. CASE ConstructNext
  <2> DEFINE x == ConstructResponse(Head(ready_to_reduce), message_table[Head(ready_to_reduce)])
  <2>1. /\ bpc[Master] = "construct" /\ ready_to_reduce # <<>>
        /\ responses' = Append(responses, x)
        /\ UNCHANGED <<message_queue, buffer, kept, todo, gather, bcast, inbox, bpc>>
    BY <1>4 DEF ConstructNext
  <2>2. Len(x.keys) = 1
    BY ConstructedKeys, SMTT(30)
  <2> HIDE DEF x
  <2>3. SingleInv'
    <3> SUFFICES ASSUME NEW i \in DOMAIN responses' PROVE Len(responses'[i].keys) = 1
      BY DEF SingleInv
    <3>1. /\ DOMAIN responses' = 1 .. Len(responses) + 1 /\ DOMAIN responses = 1 .. Len(responses)
          /\ responses'[Len(responses) + 1] = x
          /\ \A j \in 1 .. Len(responses) : responses'[j] = responses[j]
      BY <1>0, <2>1, AppendProperties, LenProperties
    <3> QED
      BY <1>0, <2>2, <3>1, LenProperties
  <2>4. OriginInv'
    BY <2>1 DEF AuxInv, OriginInv, RequestsOf
  <2>5. StageInv'
    BY <2>1 DEF AuxInv, StageInv
  <2> QED
    BY <2>3, <2>4, <2>5 DEF AuxInv
<1>5. CASE ConstructDone
  <2>1. /\ bpc[Master] = "construct" /\ bpc' = [bpc EXCEPT ![Master] = "fuse"]
        /\ UNCHANGED <<message_queue, buffer, kept, todo, gather, bcast, inbox, responses>>
    BY <1>5 DEF ConstructDone
  <2>2. buffer[Master] = <<>> /\ kept[Master] = <<>> /\ todo[Master] = <<>> /\ inbox = <<>>
    BY <2>1 DEF AuxInv, StageInv
  <2> QED
    BY <2>1, <2>2, AuxMoves
<1>6. CASE FuseNext
  <2>1. /\ bpc[Master] = "fuse" /\ responses # <<>>
        /\ \/ bpc' = bpc /\ responses' = Tail(responses)
           \/ bpc' = [bpc EXCEPT ![Master] = "aborted"] /\ UNCHANGED responses
        /\ UNCHANGED <<message_queue, buffer, kept, todo, gather, bcast, inbox>>
    BY <1>6 DEF FuseNext
  <2>2. CASE bpc' = bpc /\ responses' = Tail(responses)
    <3>1. \A i \in DOMAIN Tail(responses) :
             i + 1 \in DOMAIN responses /\ Tail(responses)[i] = responses[i + 1]
      BY <1>0, <2>1, HeadTailProperties, LenProperties, EmptySeq
    <3>2. SingleInv'
      BY <1>0, <2>2, <3>1 DEF SingleInv
    <3>3. OriginInv' /\ StageInv'
      BY <2>1, <2>2 DEF AuxInv, OriginInv, StageInv, RequestsOf
    <3> QED
      BY <3>2, <3>3 DEF AuxInv
  <2>3. CASE bpc' = [bpc EXCEPT ![Master] = "aborted"] /\ UNCHANGED responses
    <3>1. buffer[Master] = <<>> /\ kept[Master] = <<>> /\ todo[Master] = <<>> /\ inbox = <<>>
      BY <2>1 DEF AuxInv, StageInv
    <3> QED
      BY <2>1, <2>3, <3>1, AuxMoves
  <2> QED
    BY <2>1, <2>2, <2>3
<1>7. CASE Broadcast
  <2>1. /\ bpc[Master] = "fuse" /\ bpc' = [bpc EXCEPT ![Master] = "respond"]
        /\ responses = <<>>
        /\ bcast'[Master] = bcast[Master]
        /\ todo' = [todo EXCEPT ![Master] = response_list]
        /\ UNCHANGED <<message_queue, buffer, kept, gather, inbox, responses>>
    BY <1>7 DEF Broadcast, Workers
  <2>2. \A q \in Rank : /\ bpc'[q] = IF q = Master THEN "respond" ELSE bpc[q]
                        /\ q # Master => todo'[q] = todo[q]
    BY <2>1 DEF AccountType
  <2>3. OriginInv' /\ SingleInv'
    BY <2>1 DEF AuxInv, OriginInv, SingleInv, RequestsOf
  <2>4. StageInv'
    BY <2>1, <2>2 DEF AuxInv, StageInv
  <2> QED
    BY <2>3, <2>4 DEF AuxInv
<1> QED
  BY <1>1, <1>2, <1>3, <1>4, <1>5, <1>6, <1>7 DEF CoordinatorStep

-----------------------------------------------------------------------------
(* The accounts *)

LEMMA AccountFrame ==
    ASSUME AccountInv,
           UNCHANGED <<tensor_table, message_queue, buffer, kept, gather, bcast, todo,
                       inbox, message_table, responses, response_list>>,
           \A q \in Rank : bpc'[q] # "down" => bpc[q] # "down"
    PROVE  AccountInv'
<1> SUFFICES ASSUME NEW q \in Rank, bpc'[q] # "down", NEW k \in NegotiatedKey
             PROVE  Asked(q, k)' + Replied(q, k)' = Owed(q, k)'
  BY DEF AccountInv
<1>1. Asked(q, k)' = Asked(q, k) /\ Replied(q, k)' = Replied(q, k)
  BY SameCounts
<1> QED
  BY <1>1 DEF AccountInv, Owed

\* A step that concerns the account of one rank only.
LEMMA AccountLocal ==
    ASSUME NEW r \in Rank, AccountInv,
           \A q \in Rank \ {r} :
              /\ bpc'[q] = bpc[q] /\ tensor_table'[q] = tensor_table[q]
              /\ message_queue'[q] = message_queue[q] /\ buffer'[q] = buffer[q]
              /\ kept'[q] = kept[q] /\ gather'[q] = gather[q]
              /\ bcast'[q] = bcast[q] /\ todo'[q] = todo[q],
           UNCHANGED <<inbox, message_table, responses, response_list>>,
           bpc'[r] # "down" =>
              \A k \in NegotiatedKey : Asked(r, k)' + Replied(r, k)' = Owed(r, k)'
    PROVE  AccountInv'
<1> SUFFICES ASSUME NEW q \in Rank, bpc'[q] # "down", NEW k \in NegotiatedKey
             PROVE  Asked(q, k)' + Replied(q, k)' = Owed(q, k)'
  BY DEF AccountInv
<1>1. CASE q # r
  <2>1. Asked(q, k)' = Asked(q, k) /\ Replied(q, k)' = Replied(q, k)
    BY <1>1, SameCounts
  <2> QED
    BY <1>1, <2>1 DEF AccountInv, Owed
<1> QED
  BY <1>1

\* Requests of another rank are not counted.
LEMMA CountForeign ==
    ASSUME NEW p, NEW q, p # q, NEW k, NEW s \in Seq(RequestsOf(p))
    PROVE  Count(s, Wanted(q, k)) = 0
<1>1. \A i \in DOMAIN s : s[i] \in RequestsOf(p)
  BY ElementOfSeq, LenProperties
<1>2. \A i \in DOMAIN s : s[i] \notin Wanted(q, k)
  BY <1>1 DEF RequestsOf, Wanted
<1> QED
  BY <1>2, CountPositive

LEMMA AccountUser ==
    ASSUME NEW r \in Rank, IndInv, AccountType, NoOverlap, AccountInv, UserStep(r)
    PROVE  AccountInv'
<1>1. CASE ~AddToTensorQueue(r)
  BY <1>1, UserFrame, AccountFrame DEF queueVars, backgroundVars, localVars, execVars,
     countVars, fuseVars
<1>2. CASE AddToTensorQueue(r)
  <2> DEFINE op == Head(program[r]).op
             e  == [key |-> Key(op), op |-> op, handle |-> Len(status[r])]
  <2>1. op \in Op /\ mpc[r] = "add"
    BY <1>2, AddedOp DEF AddToTensorQueue, At
  <2>2. UNCHANGED <<buffer, kept, todo, gather, bcast, inbox, message_table, responses,
                    response_list, bpc>>
    BY <1>2 DEF AddToTensorQueue, backgroundVars, localVars, execVars, countVars, fuseVars,
       mpiVars
  <2>3. CASE IsDuplicate(r, op)
    BY <1>2, <2>2, <2>3, AccountFrame DEF AddToTensorQueue, queueVars
  <2>4. CASE ~IsDuplicate(r, op)
    <3>1. /\ tensor_table' = [tensor_table EXCEPT ![r] = Emplace(tensor_table[r], e)]
          /\ message_queue' = [message_queue EXCEPT ![r] =
                                 Append(message_queue[r], RequestOf(r, op))]
      BY <1>2, <2>4 DEF AddToTensorQueue
    <3>2. Key(op) \notin DOMAIN tensor_table[r]
      BY <2>1, <2>4 DEF NoOverlap
    <3>3. DOMAIN Emplace(tensor_table[r], e) = DOMAIN tensor_table[r] \cup {Key(op)}
      BY <3>2 DEF Emplace, Put
    <3> HIDE DEF e, op
    <3>4. RequestOf(r, op) \in Request /\ RequestOf(r, op).rank = r
          /\ RequestOf(r, op).key = Key(op)
      BY <2>1, RequestOfType DEF RequestOf
    <3>5. /\ DOMAIN tensor_table'[r] = DOMAIN tensor_table[r] \cup {Key(op)}
          /\ message_queue'[r] = Append(message_queue[r], RequestOf(r, op))
          /\ \A q \in Rank \ {r} : /\ tensor_table'[q] = tensor_table[q]
                                   /\ message_queue'[q] = message_queue[q]
      BY <3>1, <3>3 DEF AccountType
    <3>6. ASSUME NEW k \in NegotiatedKey, bpc'[r] # "down"
          PROVE  Asked(r, k)' + Replied(r, k)' = Owed(r, k)'
      <4>1. Queued(r, k)' = Queued(r, k) + (IF k = Key(op) THEN 1 ELSE 0)
        <5>1. RequestOf(r, op) \in Wanted(r, k) <=> k = Key(op)
          BY <3>4 DEF Wanted
        <5>2. message_queue[r] \in Seq(Request)
          BY DEF AccountType
        <5>3. Queued(r, k)' = Count(Append(message_queue[r], RequestOf(r, op)), Wanted(r, k))
          BY <3>5 DEF Queued
        <5> QED
          BY <3>4, <5>1, <5>2, <5>3, CountAppend DEF Queued
      <4>2. /\ Popped(r, k)' = Popped(r, k) /\ Kept(r, k)' = Kept(r, k)
            /\ Sent(r, k)' = Sent(r, k) /\ Parsed(r, k)' = Parsed(r, k)
            /\ Tabled(r, k)' = Tabled(r, k) /\ Replied(r, k)' = Replied(r, k)
        BY <2>2 DEF Popped, Kept, Sent, Parsed, Tabled, Replied, Built, Listed, Answered, Due
      <4>3. Owed(r, k)' = Owed(r, k) + (IF k = Key(op) THEN 1 ELSE 0)
        BY <3>2, <3>5 DEF Owed
      <4>4. Asked(r, k) + Replied(r, k) = Owed(r, k)
        BY <2>2, <3>6 DEF AccountInv
      <4> QED
        BY <4>1, <4>2, <4>3, <4>4, CountsAreNat DEF Asked, Replied
    <3> QED
      BY <2>2, <3>5, <3>6, AccountLocal
  <2> QED
    BY <2>3, <2>4
<1> QED
  BY <1>1, <1>2

\* A response that is executed answers exactly the names it erases.
LEMMA AccountResponse ==
    ASSUME NEW r \in Rank, AccountType, AccountInv, PerformResponse(r)
    PROVE  AccountInv'
<1> DEFINE head == Head(todo[r])
           keys == head.keys
<1>1. /\ bpc[r] = "respond" /\ todo[r] # <<>>
      /\ UNCHANGED <<message_queue, buffer, kept, gather, bcast, inbox, message_table,
                     responses, response_list>>
  BY DEF PerformResponse, localVars, masterVars, countVars, fuseVars
<1>2. bpc[r] # "down" /\ \A q \in Rank \ {r} : bpc'[q] = bpc[q]
  BY <1>1 DEF PerformResponse, Perform, BGoto, AccountType
<1>3. CASE UNCHANGED <<tensor_table, todo>>
  BY <1>1, <1>2, <1>3, AccountFrame
<1>4. CASE /\ tensor_table' = [tensor_table EXCEPT ![r] = EraseAll(tensor_table[r], keys)]
           /\ todo' = [todo EXCEPT ![r] = Tail(todo[r])]
           /\ \A i \in DOMAIN keys : keys[i] \in DOMAIN tensor_table[r]
  <2>1. head \in Response /\ todo[r] \in Seq(Response)
    BY <1>1, HeadTailProperties DEF AccountType
  <2> HIDE DEF head
  <2>2. /\ DOMAIN tensor_table'[r] = DOMAIN tensor_table[r] \ {keys[i] : i \in DOMAIN keys}
        /\ todo'[r] = Tail(todo[r])
        /\ \A q \in Rank \ {r} : tensor_table'[q] = tensor_table[q] /\ todo'[q] = todo[q]
    BY <1>4 DEF EraseAll, AccountType
  <2>3. ASSUME NEW k \in NegotiatedKey PROVE Asked(r, k)' + Replied(r, k)' = Owed(r, k)'
    <3> DEFINE named == \E i \in DOMAIN keys : keys[i] = k
    <3>1. head \in Answering(k) <=> named
      BY <2>1 DEF Answering
    <3>2. Due(r, k) = Due(r, k)' + (IF named THEN 1 ELSE 0)
      <4>1. Count(todo[r], Answering(k))
              = Count(Tail(todo[r]), Answering(k)) + (IF head \in Answering(k) THEN 1 ELSE 0)
        BY <1>1, <2>1, CountTail DEF head
      <4>2. Due(r, k)' = Count(Tail(todo[r]), Answering(k))
        BY <2>2 DEF Due
      <4> QED
        BY <3>1, <4>1, <4>2 DEF Due
    <3>3. /\ Asked(r, k)' = Asked(r, k) /\ Built(k)' = Built(k)
          /\ Listed(k)' = Listed(k) /\ Answered(r, k)' = Answered(r, k)
      BY <1>1 DEF Asked, Queued, Popped, Kept, Sent, Parsed, Tabled, Built, Listed, Answered
    <3>4. Due(r, k)' \in Nat
      <4>1. Tail(todo[r]) \in Seq(Response)
        BY <1>1, <2>1, HeadTailProperties
      <4> QED
        BY <2>2, <4>1, CountType DEF Due
    <3>5. Owed(r, k) = Owed(r, k)' + (IF named THEN 1 ELSE 0)
      <4>1. CASE named
        <5>1. k \in DOMAIN tensor_table[r] /\ k \notin DOMAIN tensor_table'[r]
          BY <1>4, <2>2, <4>1
        <5> QED
          BY <4>1, <5>1 DEF Owed
      <4>2. CASE ~named
        <5>1. k \in DOMAIN tensor_table'[r] <=> k \in DOMAIN tensor_table[r]
          BY <2>2, <4>2
        <5> QED
          BY <4>2, <5>1 DEF Owed
      <4> QED
        BY <4>1, <4>2
    <3>6. Asked(r, k) + Replied(r, k) = Owed(r, k)
      BY <1>1 DEF AccountInv
    <3> HIDE DEF named
    <3>7. Asked(r, k) \in Nat
      BY CountsAreNat DEF Asked
    <3>8. Owed(r, k)' \in Nat
      BY DEF Owed
    <3>9. Built(k) \in Nat /\ Listed(k) \in Nat /\ Answered(r, k) \in Nat /\ Due(r, k) \in Nat
      BY CountsAreNat
    <3>10. /\ Replied(r, k) = Built(k) + Listed(k) + Answered(r, k) + Due(r, k)
           /\ Replied(r, k)' = Built(k) + Listed(k) + Answered(r, k) + Due(r, k)'
      BY <3>3 DEF Replied
    <3> DEFINE d == IF named THEN 1 ELSE 0
    <3>11. Due(r, k) = Due(r, k)' + d /\ Owed(r, k) = Owed(r, k)' + d /\ d \in Nat
      BY <3>2, <3>5
    <3> HIDE DEF d
    <3> QED
      BY <3>3, <3>4, <3>6, <3>7, <3>8, <3>9, <3>10, <3>11
  <2> QED
    BY <1>1, <1>2, <2>2, <2>3, AccountLocal
<1> QED
  BY <1>3, <1>4 DEF PerformResponse

LEMMA AccountBackground ==
    ASSUME NEW r \in Rank, AccountType, ShutdownInv, Negotiating, AuxInv, AccountInv,
           \A i \in Nat : i > 0 /\ i <= Len(buffer[r]) => buffer[r][i] \in RequestsOf(r),
           index[r] \in Nat \ {0}, BackgroundStep(r)
    PROVE  AccountInv'
<1> USE MasterRank
<1> USE DEF BGoto, userVars, queueVars, localVars, execVars, masterVars, countVars, fuseVars,
            mpiVars
<1> DEFINE Same == UNCHANGED <<tensor_table, message_queue, buffer, kept, gather, bcast, todo,
                               inbox, message_table, responses, response_list>>
<1>0. ASSUME NEW k \in NegotiatedKey, bpc[r] # "down"
      PROVE  Asked(r, k) + Replied(r, k) = Owed(r, k)
  BY <1>0 DEF AccountInv
<1>1. CASE ReadFlags(r)
  BY <1>1, AccountFrame DEF ReadFlags, AccountType
<1>2. CASE PopMessagesFromQueue(r)
  <2>1. /\ bpc[r] = "pop" /\ bpc' = [bpc EXCEPT ![r] = "convert"]
        /\ buffer' = [buffer EXCEPT ![r] = message_queue[r]]
        /\ message_queue' = [message_queue EXCEPT ![r] = <<>>]
        /\ UNCHANGED <<tensor_table, kept, todo, gather, bcast, inbox, message_table, responses,
                       response_list>>
    BY <1>2 DEF PopMessagesFromQueue
  <2>2. buffer[r] = <<>>
    BY <2>1 DEF AuxInv, StageInv
  <2>3. /\ buffer'[r] = message_queue[r] /\ message_queue'[r] = <<>>
        /\ \A q \in Rank \ {r} : /\ bpc'[q] = bpc[q] /\ buffer'[q] = buffer[q]
                                 /\ message_queue'[q] = message_queue[q]
    BY <2>1 DEF AccountType
  <2>4. ASSUME NEW k \in NegotiatedKey PROVE Asked(r, k)' + Replied(r, k)' = Owed(r, k)'
    <3>1. /\ Popped(r, k)' = Queued(r, k) /\ Queued(r, k)' = 0 /\ Popped(r, k) = 0
      BY <2>2, <2>3, CountEmpty DEF Queued, Popped
    <3>2. /\ Kept(r, k)' = Kept(r, k) /\ Sent(r, k)' = Sent(r, k)
          /\ Parsed(r, k)' = Parsed(r, k) /\ Tabled(r, k)' = Tabled(r, k)
          /\ Replied(r, k)' = Replied(r, k) /\ Owed(r, k)' = Owed(r, k)
      BY <2>1 DEF Kept, Sent, Parsed, Tabled, Replied, Built, Listed, Answered, Due, Owed
    <3> QED
      <4>1. /\ Queued(r, k) \in Nat /\ Popped(r, k) \in Nat /\ Kept(r, k) \in Nat
            /\ Sent(r, k) \in Nat /\ Parsed(r, k) \in Nat /\ Tabled(r, k) \in Nat
        BY CountsAreNat
      <4>2. Asked(r, k)' = Asked(r, k)
        BY <3>1, <3>2, <4>1 DEF Asked
      <4>3. Asked(r, k) + Replied(r, k) = Owed(r, k)
        BY <1>0, <2>1
      <4> QED
        BY <3>2, <4>2, <4>3
  <2> QED
    BY <2>1, <2>3, <2>4, AccountLocal
<1>3. CASE ConvertNext(r)
  <2> DEFINE req == buffer[r][index[r]]
  <2>1. /\ bpc[r] = "convert" /\ index[r] <= Len(buffer[r])
        /\ UNCHANGED <<message_queue, buffer, kept, todo, gather, bcast, inbox, message_table,
                       responses, response_list>>
        /\ bpc' = bpc \/ bpc' = [bpc EXCEPT ![r] = "aborted"]
        /\ \/ UNCHANGED tensor_table
           \/ Direct(r, req) /\ tensor_table' = [tensor_table EXCEPT
                                                   ![r] = Erase(tensor_table[r], req.key)]
    BY <1>3 DEF ConvertNext
  <2>2. \A q \in Rank : bpc'[q] # "down" => bpc[q] # "down"
    BY <2>1 DEF AccountType
  <2>3. CASE UNCHANGED tensor_table
    BY <2>1, <2>2, <2>3, AccountFrame
  <2>4. CASE Direct(r, req) /\ tensor_table' = [tensor_table EXCEPT
                                                  ![r] = Erase(tensor_table[r], req.key)]
    <3>1. req \in RequestsOf(r)
      BY <2>1
    <3> HIDE DEF req
    <3>2. req.key \notin NegotiatedKey
      BY <2>4, <3>1 DEF Direct, Negotiating, RequestsOf
    <3>3. /\ DOMAIN tensor_table'[r] = DOMAIN tensor_table[r] \ {req.key}
          /\ \A q \in Rank \ {r} : tensor_table'[q] = tensor_table[q]
      BY <2>4 DEF Erase, AccountType
    <3>4. ASSUME NEW k \in NegotiatedKey PROVE Asked(r, k)' + Replied(r, k)' = Owed(r, k)'
      <4>1. Asked(r, k)' = Asked(r, k) /\ Replied(r, k)' = Replied(r, k)
        BY <2>1, SameCounts
      <4>2. Owed(r, k)' = Owed(r, k)
        BY <3>2, <3>3 DEF Owed
      <4> QED
        BY <1>0, <2>1, <4>1, <4>2
    <3>5. \A q \in Rank \ {r} : bpc'[q] = bpc[q]
      BY <2>1 DEF AccountType
    <3> QED
      BY <2>1, <3>3, <3>4, <3>5, AccountLocal
  <2> QED
    BY <2>1, <2>3, <2>4
<1>4. CASE ConvertDone(r)
  BY <1>4, AccountFrame DEF ConvertDone, AccountType
<1>5. CASE RemoveNext(r)
  <2> DEFINE head == Head(buffer[r])
  <2>1. /\ bpc[r] = "remove" /\ buffer[r] # <<>>
        /\ buffer' = [buffer EXCEPT ![r] = Tail(buffer[r])]
        /\ kept' = [kept EXCEPT ![r] = IF Direct(r, head) THEN kept[r] ELSE Append(kept[r], head)]
        /\ UNCHANGED <<bpc, tensor_table, message_queue, todo, gather, bcast, inbox,
                       message_table, responses, response_list>>
    BY <1>5 DEF RemoveNext
  <2>2. head \in RequestsOf(r) /\ buffer[r] \in Seq(RequestsOf(r)) /\ kept[r] \in Seq(RequestsOf(r))
    BY <2>1, HeadTailProperties DEF AuxInv, OriginInv
  <2>3. ASSUME NEW k
        PROVE  Popped(r, k) = Popped(r, k)' + (IF head \in Wanted(r, k) THEN 1 ELSE 0)
    <3>1. Count(buffer[r], Wanted(r, k))
            = Count(Tail(buffer[r]), Wanted(r, k)) + (IF head \in Wanted(r, k) THEN 1 ELSE 0)
      BY <2>1, <2>2, CountTail
    <3>2. buffer'[r] = Tail(buffer[r])
      BY <2>1 DEF AccountType
    <3> QED
      BY <3>1, <3>2 DEF Popped
  <2> HIDE DEF head
  <2>4. ASSUME NEW k \in NegotiatedKey
        PROVE  Kept(r, k)' = Kept(r, k) + (IF head \in Wanted(r, k) THEN 1 ELSE 0)
    <3>1. CASE Direct(r, head)
      <4>1. head \notin Wanted(r, k)
        BY <2>2, <3>1 DEF Direct, Negotiating, RequestsOf, Wanted
      <4>2. kept'[r] = kept[r]
        BY <2>1, <3>1 DEF AccountType
      <4> QED
        BY <4>1, <4>2, CountsAreNat DEF Kept
    <3>2. CASE ~Direct(r, head)
      <4>1. kept'[r] = Append(kept[r], head)
        BY <2>1, <3>2 DEF AccountType
      <4> QED
        BY <2>2, <4>1, CountAppend DEF Kept
    <3> QED
      BY <3>1, <3>2
  <2>5. ASSUME NEW k \in NegotiatedKey PROVE Asked(r, k)' + Replied(r, k)' = Owed(r, k)'
    <3>1. /\ Queued(r, k)' = Queued(r, k) /\ Sent(r, k)' = Sent(r, k)
          /\ Parsed(r, k)' = Parsed(r, k) /\ Tabled(r, k)' = Tabled(r, k)
          /\ Replied(r, k)' = Replied(r, k) /\ Owed(r, k)' = Owed(r, k)
      BY <2>1 DEF Queued, Sent, Parsed, Tabled, Replied, Built, Listed, Answered, Due, Owed
    <3>2. Popped(r, k)' \in Nat
      <4>1. buffer'[r] \in Seq(RequestsOf(r))
        BY <2>1, <2>2, HeadTailProperties DEF AccountType
      <4> QED
        BY <4>1, CountType DEF Popped
    <3> DEFINE d == IF head \in Wanted(r, k) THEN 1 ELSE 0
    <3>3. Popped(r, k) = Popped(r, k)' + d /\ Kept(r, k)' = Kept(r, k) + d /\ d \in Nat
      BY <2>3, <2>4
    <3>4. /\ Queued(r, k) \in Nat /\ Popped(r, k) \in Nat /\ Kept(r, k) \in Nat
          /\ Sent(r, k) \in Nat /\ Parsed(r, k) \in Nat /\ Tabled(r, k) \in Nat
      BY CountsAreNat
    <3> HIDE DEF d
    <3>5. Asked(r, k)' = Asked(r, k)
      BY <3>1, <3>2, <3>3, <3>4 DEF Asked
    <3> QED
      BY <1>0, <2>1, <3>1, <3>5
  <2>6. \A q \in Rank \ {r} : buffer'[q] = buffer[q] /\ kept'[q] = kept[q]
    BY <2>1 DEF AccountType
  <2> QED
    BY <2>1, <2>5, <2>6, AccountLocal
<1>6. CASE RemoveDone(r)
  BY <1>6, AccountFrame DEF RemoveDone, AccountType
<1>7. CASE PerformDirect(r)
  <2>1. bpc[r] = "direct" /\ Same
    BY <1>7 DEF PerformDirect
  <2>2. \A q \in Rank \ {r} : bpc'[q] = bpc[q]
    BY <1>7 DEF PerformDirect, Perform, AccountType
  <2> QED
    BY <2>1, <2>2, AccountFrame
<1>8. CASE PerformResponse(r)
  BY <1>8, AccountResponse
<1>9. CASE Complete(r)
  <2>1. bpc[r] \in {"directing", "responding"} /\ Same
    BY <1>9 DEF Complete
  <2>2. \A q \in Rank \ {r} : bpc'[q] = bpc[q]
    BY <1>9 DEF Complete, AccountType
  <2> QED
    BY <2>1, <2>2, AccountFrame
<1>10. CASE DirectDone(r)
  <2>1. ~skip[r]
    BY DEF Negotiating
  <2>2. CASE r # Master
    <3>1. /\ bpc[r] = "direct" /\ bpc' = [bpc EXCEPT ![r] = "send"]
          /\ kept' = [kept EXCEPT ![r] = kept[r]]
          /\ UNCHANGED <<tensor_table, message_queue, buffer, todo, gather, bcast, inbox,
                         message_table, responses, response_list>>
      BY <1>10, <2>1, <2>2 DEF DirectDone
    <3>2. kept' = kept /\ \A q \in Rank : bpc'[q] # "down" => bpc[q] # "down"
      BY <3>1 DEF AccountType
    <3> QED
      BY <3>1, <3>2, AccountFrame
  <2>3. CASE r = Master
    <3>1. /\ bpc[r] = "direct" /\ bpc' = [bpc EXCEPT ![r] = "count"]
          /\ kept' = [kept EXCEPT ![r] = <<>>] /\ inbox' = kept[r]
          /\ UNCHANGED <<tensor_table, message_queue, buffer, todo, gather, bcast,
                         message_table, responses, response_list>>
      BY <1>10, <2>1, <2>3 DEF DirectDone
    <3>2. inbox = <<>>
      BY <2>3, <3>1 DEF AuxInv, StageInv
    <3>3. \A q \in Rank : /\ kept'[q] = IF q = r THEN <<>> ELSE kept[q]
                          /\ bpc'[q] # "down" => bpc[q] # "down"
      BY <3>1 DEF AccountType
    <3> SUFFICES ASSUME NEW q \in Rank, bpc'[q] # "down", NEW k \in NegotiatedKey
                 PROVE  Asked(q, k)' + Replied(q, k)' = Owed(q, k)'
      BY DEF AccountInv
    <3>4. /\ Queued(q, k)' = Queued(q, k) /\ Popped(q, k)' = Popped(q, k)
          /\ Sent(q, k)' = Sent(q, k) /\ Tabled(q, k)' = Tabled(q, k)
          /\ Replied(q, k)' = Replied(q, k) /\ Owed(q, k)' = Owed(q, k)
      BY <3>1 DEF Queued, Popped, Sent, Tabled, Replied, Built, Listed, Answered, Due, Owed
    <3>5. Parsed(q, k) = 0
      BY <3>2, CountEmpty DEF Parsed
    <3>6. Kept(q, k)' + Parsed(q, k)' = Kept(q, k)
      <4>1. CASE q = r
        BY <3>1, <3>3, <4>1, CountEmpty, CountsAreNat, SMTT(30) DEF Kept, Parsed
      <4>2. CASE q # r
        <5>1. kept[r] \in Seq(RequestsOf(r))
          BY DEF AuxInv, OriginInv
        <5>2. Parsed(q, k)' = 0
          BY <3>1, <4>2, <5>1, CountForeign DEF Parsed
        <5> QED
          BY <3>3, <4>2, <5>2, CountsAreNat DEF Kept
      <4> QED
        BY <4>1, <4>2
    <3>7. Kept(q, k)' \in Nat /\ Parsed(q, k)' \in Nat
      <4>1. kept'[q] \in Seq(NegotiatedRequest) /\ inbox' \in Seq(NegotiatedRequest)
        BY <3>1, <3>3, EmptySeq DEF AccountType
      <4> QED
        BY <4>1, CountType DEF Kept, Parsed
    <3>8. Asked(q, k) + Replied(q, k) = Owed(q, k)
      BY <3>3 DEF AccountInv
    <3>9. /\ Queued(q, k) \in Nat /\ Popped(q, k) \in Nat /\ Kept(q, k) \in Nat
          /\ Sent(q, k) \in Nat /\ Tabled(q, k) \in Nat
      BY CountsAreNat
    <3>10. Asked(q, k)' = Asked(q, k)
      BY <3>4, <3>5, <3>6, <3>7, <3>9 DEF Asked
    <3> QED
      BY <3>4, <3>8, <3>10
  <2> QED
    BY <2>2, <2>3
<1>11. CASE SlaveSend(r)
  <2> DEFINE list == [requests |-> kept[r], shutdown |-> ShutdownFlag(r),
                      change_topo |-> should_change_topo[r]]
  <2>1. /\ bpc[r] = "send" /\ bpc' = [bpc EXCEPT ![r] = "recv"]
        /\ kept' = [kept EXCEPT ![r] = <<>>]
        /\ gather' = [gather EXCEPT ![r] = Append(gather[r], list)]
        /\ UNCHANGED <<tensor_table, message_queue, buffer, todo, bcast, inbox,
                       message_table, responses, response_list>>
    BY <1>11 DEF SlaveSend
  <2>2. gather[r] = <<>>
    BY <2>1 DEF ShutdownInv, PlaceInv, GatherInv, Workers
  <2>3. Head(<<list>>).requests = kept[r] /\ <<list>> # <<>>
    OBVIOUS
  <2> HIDE DEF list
  <2>4. /\ kept'[r] = <<>> /\ gather'[r] = <<list>>
        /\ \A q \in Rank \ {r} : /\ bpc'[q] = bpc[q] /\ kept'[q] = kept[q]
                                 /\ gather'[q] = gather[q]
    BY <2>1, <2>2 DEF AccountType
  <2>5. ASSUME NEW k \in NegotiatedKey PROVE Asked(r, k)' + Replied(r, k)' = Owed(r, k)'
    <3>1. Kept(r, k)' = 0 /\ Sent(r, k)' = Kept(r, k) /\ Sent(r, k) = 0
      BY <2>2, <2>3, <2>4, CountEmpty DEF Kept, Sent
    <3>2. /\ Queued(r, k)' = Queued(r, k) /\ Popped(r, k)' = Popped(r, k)
          /\ Parsed(r, k)' = Parsed(r, k) /\ Tabled(r, k)' = Tabled(r, k)
          /\ Replied(r, k)' = Replied(r, k) /\ Owed(r, k)' = Owed(r, k)
      BY <2>1 DEF Queued, Popped, Parsed, Tabled, Replied, Built, Listed, Answered, Due, Owed
    <3> QED
      <4>1. /\ Queued(r, k) \in Nat /\ Popped(r, k) \in Nat /\ Kept(r, k) \in Nat
            /\ Sent(r, k) \in Nat /\ Parsed(r, k) \in Nat /\ Tabled(r, k) \in Nat
        BY CountsAreNat
      <4>2. Asked(r, k)' = Asked(r, k)
        BY <3>1, <3>2, <4>1 DEF Asked
      <4>3. Asked(r, k) + Replied(r, k) = Owed(r, k)
        BY <1>0, <2>1
      <4> QED
        BY <3>2, <4>2, <4>3
  <2> QED
    BY <2>1, <2>4, <2>5, AccountLocal
<1>12. CASE SlaveRecv(r)
  <2>1. /\ bpc[r] = "recv" /\ bpc' = [bpc EXCEPT ![r] = "respond"]
        /\ bcast[r] # <<>>
        /\ bcast' = [bcast EXCEPT ![r] = Tail(bcast[r])]
        /\ todo' = [todo EXCEPT ![r] = Head(bcast[r]).responses]
        /\ UNCHANGED <<tensor_table, message_queue, buffer, kept, gather, inbox,
                       message_table, responses, response_list>>
    BY <1>12 DEF SlaveRecv, ToExecute
  <2>2. Tail(bcast[r]) = <<>> /\ todo[r] = <<>>
    <3>1. r \in Workers /\ Len(bcast[r]) = 1 /\ bcast[r] \in Seq(ResponseList)
      BY <2>1 DEF ShutdownInv, PlaceInv, BcastInv, Workers, AccountType
    <3> QED
      BY <2>1, <3>1, SingleMessage DEF AuxInv, StageInv
  <2>3. /\ bcast'[r] = <<>> /\ todo'[r] = Head(bcast[r]).responses
        /\ \A q \in Rank \ {r} : /\ bpc'[q] = bpc[q] /\ bcast'[q] = bcast[q]
                                 /\ todo'[q] = todo[q]
    BY <2>1, <2>2 DEF AccountType
  <2>4. ASSUME NEW k \in NegotiatedKey PROVE Asked(r, k)' + Replied(r, k)' = Owed(r, k)'
    <3>1. Answered(r, k)' = 0 /\ Due(r, k)' = Answered(r, k) /\ Due(r, k) = 0
      BY <2>1, <2>2, <2>3, CountEmpty DEF Answered, Due
    <3>2. /\ Asked(r, k)' = Asked(r, k) /\ Built(k)' = Built(k) /\ Listed(k)' = Listed(k)
          /\ Owed(r, k)' = Owed(r, k)
      BY <2>1 DEF Asked, Queued, Popped, Kept, Sent, Parsed, Tabled, Built, Listed, Owed
    <3>3. Built(k) \in Nat /\ Listed(k) \in Nat /\ Answered(r, k) \in Nat
      BY CountsAreNat
    <3>4. Replied(r, k)' = Replied(r, k)
      BY <3>1, <3>2, <3>3 DEF Replied
    <3>5. Asked(r, k) + Replied(r, k) = Owed(r, k)
      BY <1>0, <2>1
    <3> QED
      BY <3>2, <3>4, <3>5
  <2> QED
    BY <2>1, <2>3, <2>4, AccountLocal
<1>13. CASE RespondDone(r)
  <2>1. bpc[r] = "respond" /\ Same /\ \A q \in Rank \ {r} : bpc'[q] = bpc[q]
    BY <1>13 DEF RespondDone, EndCycle, AccountType
  <2> QED
    BY <2>1, AccountFrame
<1>14. CASE Unpark(r)
  BY <1>14, AccountFrame DEF Unpark, AccountType
<1>15. CASE Unparked(r)
  <2>1. bpc[r] = "unpark" /\ Same /\ \A q \in Rank \ {r} : bpc'[q] = bpc[q]
    BY <1>15 DEF Unparked, AccountType
  <2> QED
    BY <2>1, AccountFrame
<1>16. CASE Exit(r)
  BY <1>16, AccountFrame DEF Exit, AccountType
<1>17. CASE FinalizeTensorQueue(r)
  <2>1. /\ bpc' = [bpc EXCEPT ![r] = "down"]
        /\ tensor_table' = [tensor_table EXCEPT ![r] = <<>>]
        /\ message_queue' = [message_queue EXCEPT ![r] = <<>>]
        /\ UNCHANGED <<buffer, kept, todo, gather, bcast, inbox, message_table, responses,
                       response_list>>
    BY <1>17 DEF FinalizeTensorQueue
  <2>2. /\ bpc'[r] = "down"
        /\ \A q \in Rank \ {r} : /\ bpc'[q] = bpc[q] /\ tensor_table'[q] = tensor_table[q]
                                 /\ message_queue'[q] = message_queue[q]
    BY <2>1 DEF AccountType
  <2> QED
    BY <2>1, <2>2, AccountLocal
<1> QED
  BY <1>1, <1>2, <1>3, <1>4, <1>5, <1>6, <1>7, <1>8, <1>9, <1>10, <1>11, <1>12,
     <1>13, <1>14, <1>15, <1>16, <1>17 DEF BackgroundStep

-----------------------------------------------------------------------------
(* The coordinator's share *)

\* The message table has every request under its own name.
TableInv ==
    \A k \in DOMAIN message_table : \A i \in DOMAIN message_table[k] :
        message_table[k][i].key = k

LEMMA TableInit == Init => TableInv
BY DEF Init, TableInv

\* The names of the message table after one more request.
LEMMA TableAfterRequest ==
    ASSUME NEW t, NEW req, req \in NegotiatedRequest
    PROVE  /\ DOMAIN WithRequest(t, req) = DOMAIN t \cup {req.key}
           /\ \A k \in DOMAIN t \ {req.key} : WithRequest(t, req)[k] = t[k]
           /\ req.key \in DOMAIN t => WithRequest(t, req)[req.key] = Append(t[req.key], req)
           /\ req.key \notin DOMAIN t => WithRequest(t, req)[req.key] = <<req>>
BY DEF WithRequest, Put

LEMMA TableStep ==
    ASSUME AccountType, TableInv, [Next]_vars
    PROVE  TableInv'
<1>1. CASE UNCHANGED message_table
  BY <1>1 DEF TableInv
<1>2. CASE CountRequest
  <2> DEFINE req == Head(inbox)
  <2>1. message_table' = WithRequest(message_table, req) /\ req \in NegotiatedRequest
    BY <1>2, HeadTailProperties DEF CountRequest, AccountType
  <2> HIDE DEF req
  <2> SUFFICES ASSUME NEW k \in DOMAIN message_table', NEW i \in DOMAIN message_table'[k]
               PROVE  message_table'[k][i].key = k
    BY DEF TableInv
  <2>2. CASE k # req.key
    <3>1. DOMAIN message_table' = DOMAIN message_table \cup {req.key}
      BY <2>1, TableAfterRequest
    <3>2. k \in DOMAIN message_table \ {req.key}
      BY <2>2, <3>1
    <3>3. message_table'[k] = message_table[k]
      BY <2>1, <3>2, TableAfterRequest
    <3> QED
      BY <3>2, <3>3 DEF TableInv
  <2>3. CASE k = req.key /\ k \notin DOMAIN message_table
    <3>1. message_table'[k] = <<req>>
      BY <2>1, <2>3, TableAfterRequest
    <3> QED
      BY <2>3, <3>1
  <2>4. CASE k = req.key /\ k \in DOMAIN message_table
    <3>1. message_table'[k] = Append(message_table[k], req)
      BY <2>1, <2>4, TableAfterRequest
    <3>2. message_table[k] \in Seq(NegotiatedRequest)
      BY <2>4 DEF AccountType
    <3>3. /\ DOMAIN message_table'[k] = 1 .. Len(message_table[k]) + 1
          /\ DOMAIN message_table[k] = 1 .. Len(message_table[k])
          /\ message_table'[k][Len(message_table[k]) + 1] = req
          /\ \A j \in 1 .. Len(message_table[k]) : message_table'[k][j] = message_table[k][j]
      BY <2>1, <3>1, <3>2, AppendProperties, LenProperties
    <3>4. i = Len(message_table[k]) + 1 \/ i \in DOMAIN message_table[k]
      BY <3>2, <3>3, LenProperties
    <3> QED
      BY <2>4, <3>3, <3>4 DEF TableInv
  <2> QED
    BY <2>2, <2>3, <2>4
<1>3. CASE ConstructNext
  <2>1. message_table' = Erase(message_table, Head(ready_to_reduce))
    BY <1>3 DEF ConstructNext
  <2>2. \A k \in DOMAIN message_table' :
           k \in DOMAIN message_table /\ message_table'[k] = message_table[k]
    BY <2>1 DEF Erase
  <2> QED
    BY <2>2 DEF TableInv
<1>4. ASSUME CoordinatorStep, ~CountRequest, ~ConstructNext PROVE UNCHANGED message_table
  BY <1>4 DEF CoordinatorStep, NextList, CountDone, ConstructDone, FuseNext, Broadcast, countVars
<1>5. ASSUME NEW r \in Rank, UserStep(r) PROVE UNCHANGED message_table
  BY <1>5 DEF UserStep, EnqueueFail, EnqueueBegin, AddToTensorQueue, Synchronize,
     SetTopologyRefused, SetTopologyBegin, SetTopologyUnfinished, SetTopologyEnter,
     SetTopologyLeave, ClosePause, SkipNegotiateNow, SkipNegotiateBegin,
     SkipNegotiateApply, SuspendOrResume, Shutdown, Join, RequestPause, backgroundVars, countVars
<1>6. ASSUME NEW r \in Rank, BackgroundStep(r) PROVE UNCHANGED message_table
  BY <1>6 DEF BackgroundStep, ReadFlags, PopMessagesFromQueue, ConvertNext, ConvertDone,
     RemoveNext, RemoveDone, PerformDirect, PerformResponse, Complete, DirectDone,
     SlaveSend, SlaveRecv, RespondDone, Unpark, Unparked, Exit, FinalizeTensorQueue,
     masterVars, countVars
<1>7. ASSUME Terminating \/ UNCHANGED vars PROVE UNCHANGED message_table
  BY <1>7 DEF Terminating, vars, countVars
<1> QED
  BY <1>1, <1>2, <1>3, <1>4, <1>5, <1>6, <1>7 DEF Next

\* As many requests as ranks, and no two of a rank: one of each.
LEMMA OneEach ==
    ASSUME NEW k, NEW reqs \in Seq(NegotiatedRequest), Len(reqs) >= Size,
           \A i \in DOMAIN reqs : reqs[i].key = k,
           \A q \in Rank : Count(reqs, Wanted(q, k)) <= 1
    PROVE  \A q \in Rank : Count(reqs, Wanted(q, k)) = 1
<1> DEFINE I == 1 .. Len(reqs)
           f == [i \in I |-> reqs[i].rank]
<1>1. \A i \in I : reqs[i] \in Request
  BY ElementOfSeq DEF NegotiatedRequest
<1>2. DOMAIN reqs = I /\ Len(reqs) \in Nat
  BY LenProperties
<1>3. \A i \in I : \A q \in Rank : reqs[i] \in Wanted(q, k) <=> reqs[i].rank = q
  BY <1>1, <1>2 DEF Wanted
<1>4. \A i \in I : reqs[i].rank \in Rank
  BY <1>1 DEF Request
<1>5. \A i, j \in I : f[i] = f[j] => i = j
  <2> SUFFICES ASSUME NEW i \in I, NEW j \in I, reqs[i].rank = reqs[j].rank PROVE i = j
    OBVIOUS
  <2> DEFINE q == reqs[i].rank
  <2>1. q \in Rank /\ reqs[i] \in Wanted(q, k) /\ reqs[j] \in Wanted(q, k)
    BY <1>3, <1>4
  <2> HIDE DEF q
  <2> QED
    BY <1>2, <2>1, CountPositive
<1>6. f \in Injection(I, Rank)
  <2>1. f \in [I -> Rank]
    BY <1>4
  <2> HIDE DEF f, I
  <2> QED
    BY <1>5, <2>1 DEF Injection, IsInjective
<1>7. IsFiniteSet(Rank) /\ Cardinality(Rank) = Size
  <2>1. Cardinality(0 .. Size - 1) = IF 0 > Size - 1 THEN 0 ELSE Size - 1 - 0 + 1
    BY SizeAssumption, FS_Interval
  <2> QED
    BY <2>1, SizeAssumption, FS_Interval DEF Rank
<1>8. Cardinality(I) = Len(reqs)
  BY <1>2, FS_Interval, SizeAssumption
<1>9. f \in Surjection(I, Rank)
  <2> HIDE DEF f, I
  <2>1. /\ Cardinality(I) <= Cardinality(Rank)
        /\ Cardinality(I) = Cardinality(Rank) => f \in Surjection(I, Rank)
    BY <1>6, <1>7, FS_Injection
  <2>2. Len(reqs) = Size
    BY <1>2, <1>7, <1>8, <2>1, SizeAssumption
  <2> QED
    BY <1>7, <1>8, <2>1, <2>2
<1> SUFFICES ASSUME NEW q \in Rank PROVE Count(reqs, Wanted(q, k)) = 1
  OBVIOUS
<1>10. PICK i \in I : f[i] = q
  BY <1>9 DEF Surjection
<1>11. reqs[i] \in Wanted(q, k)
  BY <1>3, <1>10
<1>12. Count(reqs, Wanted(q, k)) # 0 /\ Count(reqs, Wanted(q, k)) \in Nat
  BY <1>2, <1>11, CountPositive, CountType
<1> QED
  BY <1>12

LEMMA AccountCount ==
    ASSUME AccountType, AccountInv, CountRequest
    PROVE  AccountInv'
<1> DEFINE req == Head(inbox)
<1>1. /\ inbox # <<>> /\ inbox' = Tail(inbox)
      /\ message_table' = WithRequest(message_table, req)
      /\ UNCHANGED <<bpc, tensor_table, message_queue, buffer, kept, todo, gather, bcast,
                     responses, response_list>>
  BY DEF CountRequest, coordUnchanged, queueVars, fuseVars
<1>2. /\ inbox \in Seq(NegotiatedRequest) /\ req \in NegotiatedRequest
      /\ Tail(inbox) \in Seq(NegotiatedRequest)
  BY <1>1, HeadTailProperties DEF AccountType
<1> SUFFICES ASSUME NEW q \in Rank, bpc'[q] # "down", NEW k \in NegotiatedKey
             PROVE  Asked(q, k)' + Replied(q, k)' = Owed(q, k)'
  BY DEF AccountInv
<1> DEFINE d == IF req \in Wanted(q, k) THEN 1 ELSE 0
<1>3. Parsed(q, k) = Parsed(q, k)' + d
  BY <1>1, <1>2, CountTail DEF Parsed
<1>4. Parsed(q, k)' \in Nat
  BY <1>1, <1>2, CountType DEF Parsed
<1> HIDE DEF req
<1>5. Tabled(q, k)' = Tabled(q, k) + d
  <2>0. DOMAIN message_table' = DOMAIN message_table \cup {req.key}
    BY <1>1, <1>2, TableAfterRequest
  <2>1. CASE k # req.key
    <3>1. d = 0
      BY <2>1 DEF Wanted
    <3>2. k \in DOMAIN message_table' <=> k \in DOMAIN message_table
      BY <2>0, <2>1
    <3>3. k \in DOMAIN message_table => message_table'[k] = message_table[k]
      <4>1. \A x \in DOMAIN message_table \ {req.key} :
              WithRequest(message_table, req)[x] = message_table[x]
        BY <1>2, TableAfterRequest
      <4> QED
        BY <1>1, <2>1, <4>1
    <3>4. Tabled(q, k)' = Tabled(q, k)
      BY <3>2, <3>3 DEF Tabled
    <3> QED
      BY <3>1, <3>4, CountsAreNat
  <2>2. CASE k = req.key /\ k \in DOMAIN message_table
    <3>1. message_table'[k] = Append(message_table[k], req) /\ k \in DOMAIN message_table'
      BY <1>1, <1>2, <2>0, <2>2, TableAfterRequest
    <3>2. message_table[k] \in Seq(NegotiatedRequest)
      BY <2>2 DEF AccountType
    <3>3. Count(Append(message_table[k], req), Wanted(q, k))
            = Count(message_table[k], Wanted(q, k)) + d
      BY <1>2, <3>2, CountAppend
    <3> QED
      BY <2>2, <3>1, <3>3 DEF Tabled
  <2>3. CASE k = req.key /\ k \notin DOMAIN message_table
    <3>1. message_table'[k] = <<req>> /\ k \in DOMAIN message_table'
      BY <1>1, <1>2, <2>0, <2>3, TableAfterRequest
    <3>2. Count(Append(<<>>, req), Wanted(q, k)) = Count(<<>>, Wanted(q, k)) + d
      <4>1. <<>> \in Seq(NegotiatedRequest)
        BY EmptySeq
      <4> QED
        BY <1>2, <4>1, CountAppend
    <3>3. Append(<<>>, req) = <<req>>
      OBVIOUS
    <3>4. Count(<<req>>, Wanted(q, k)) = 0 + d
      BY <3>2, <3>3, CountEmpty
    <3>5. Tabled(q, k)' = 0 + d /\ Tabled(q, k) = 0
      BY <2>3, <3>1, <3>4 DEF Tabled
    <3> QED
      BY <3>5
  <2> QED
    BY <2>1, <2>2, <2>3
<1>6. d \in Nat
  OBVIOUS
<1> HIDE DEF d
<1>7. /\ Queued(q, k)' = Queued(q, k) /\ Popped(q, k)' = Popped(q, k)
      /\ Kept(q, k)' = Kept(q, k) /\ Sent(q, k)' = Sent(q, k)
      /\ Replied(q, k)' = Replied(q, k) /\ Owed(q, k)' = Owed(q, k)
  BY <1>1 DEF Queued, Popped, Kept, Sent, Replied, Built, Listed, Answered, Due, Owed
<1>8. /\ Queued(q, k) \in Nat /\ Popped(q, k) \in Nat /\ Kept(q, k) \in Nat
      /\ Sent(q, k) \in Nat /\ Tabled(q, k) \in Nat
  BY CountsAreNat
<1>9. Asked(q, k)' = Asked(q, k)
  BY <1>3, <1>4, <1>5, <1>6, <1>7, <1>8 DEF Asked
<1>10. Asked(q, k) + Replied(q, k) = Owed(q, k)
  BY <1>1 DEF AccountInv
<1> QED
  BY <1>7, <1>9, <1>10

LEMMA AccountNextList ==
    ASSUME from \in Rank, AccountType, ShutdownInv, AuxInv, AccountInv, NextList
    PROVE  AccountInv'
<1> DEFINE s == from + 1
<1>1. /\ bpc[Master] = "count" /\ s \in Workers /\ inbox = <<>>
      /\ inbox' = Head(gather[s]).requests
      /\ gather' = [gather EXCEPT ![s] = Tail(gather[s])]
      /\ UNCHANGED <<bpc, tensor_table, message_queue, buffer, kept, todo, bcast,
                     message_table, responses, response_list>>
  BY DEF NextList, coordUnchanged, queueVars, fuseVars
<1>2. gather[s] # <<>>
  <2>1. s > from
    BY DEF Rank
  <2> QED
    BY <1>1, <2>1 DEF NextList
<1>3. s \in Rank
  BY <1>1 DEF Workers
<1>4. Tail(gather[s]) = <<>>
  <2>1. Len(gather[s]) = 1 /\ gather[s] \in Seq(RequestList)
    BY <1>1, <1>2, <1>3 DEF ShutdownInv, GatherInv, AccountType
  <2> QED
    BY <2>1, SingleMessage
<1>5. inbox' \in Seq(RequestsOf(s))
  BY <1>1, <1>2, <1>3 DEF AuxInv, OriginInv
<1> HIDE DEF s
<1>6. \A q \in Rank : gather'[q] = IF q = s THEN <<>> ELSE gather[q]
  BY <1>1, <1>4 DEF AccountType
<1> SUFFICES ASSUME NEW q \in Rank, bpc'[q] # "down", NEW k \in NegotiatedKey
             PROVE  Asked(q, k)' + Replied(q, k)' = Owed(q, k)'
  BY DEF AccountInv
<1>7. Parsed(q, k) = 0
  BY <1>1, CountEmpty DEF Parsed
<1>8. Sent(q, k)' + Parsed(q, k)' = Sent(q, k) /\ Sent(q, k)' \in Nat /\ Parsed(q, k)' \in Nat
  <2>1. CASE q = s
    <3>1. Sent(q, k)' = 0
      BY <1>6, <2>1 DEF Sent
    <3>2. Parsed(q, k)' = Sent(q, k)
      BY <1>1, <1>2, <2>1 DEF Parsed, Sent
    <3> QED
      BY <3>1, <3>2, CountsAreNat
  <2>2. CASE q # s
    <3>1. Sent(q, k)' = Sent(q, k)
      BY <1>6, <2>2 DEF Sent
    <3>2. Parsed(q, k)' = 0
      BY <1>5, <2>2, CountForeign DEF Parsed
    <3> QED
      BY <3>1, <3>2, CountsAreNat
  <2> QED
    BY <2>1, <2>2
<1>9. /\ Queued(q, k)' = Queued(q, k) /\ Popped(q, k)' = Popped(q, k)
      /\ Kept(q, k)' = Kept(q, k) /\ Tabled(q, k)' = Tabled(q, k)
      /\ Replied(q, k)' = Replied(q, k) /\ Owed(q, k)' = Owed(q, k)
  BY <1>1 DEF Queued, Popped, Kept, Tabled, Replied, Built, Listed, Answered, Due, Owed
<1>10. /\ Queued(q, k) \in Nat /\ Popped(q, k) \in Nat /\ Kept(q, k) \in Nat
       /\ Sent(q, k) \in Nat /\ Tabled(q, k) \in Nat
  BY CountsAreNat
<1>11. Asked(q, k)' = Asked(q, k)
  BY <1>7, <1>8, <1>9, <1>10 DEF Asked
<1>12. Asked(q, k) + Replied(q, k) = Owed(q, k)
  BY <1>1 DEF AccountInv
<1> QED
  BY <1>9, <1>11, <1>12

LEMMA AccountConstruct ==
    ASSUME IndInv, AccountType, ShutdownInv, TableInv, AccountInv, ConstructNext
    PROVE  AccountInv'
<1> DEFINE c == Head(ready_to_reduce)
           x == ConstructResponse(c, message_table[c])
<1>1. /\ bpc[Master] = "construct" /\ ready_to_reduce # <<>>
      /\ responses' = Append(responses, x)
      /\ message_table' = Erase(message_table, c)
      /\ UNCHANGED <<bpc, tensor_table, message_queue, buffer, kept, todo, gather, bcast,
                     inbox, response_list>>
  BY DEF ConstructNext, coordUnchanged, queueVars
<1>2. /\ c \in DOMAIN message_table /\ Len(message_table[c]) >= Size /\ c \in KeySet
  <2>1. ready_to_reduce \in Seq(KeySet)
    BY DEF IndInv, TypeOK, CountOK
  <2>2. c = ready_to_reduce[1] /\ 1 \in DOMAIN ready_to_reduce /\ c \in KeySet
    BY <1>1, <2>1, HeadTailProperties, LenProperties, EmptySeq
  <2> QED
    BY <2>2 DEF IndInv, ReadyInTable
<1>3. message_table[c] \in Seq(NegotiatedRequest)
  BY <1>2 DEF AccountType
<1>4. x \in Response /\ x.keys = <<c>>
  BY <1>2, <1>3, ConstructResponseType, ConstructedKeys
<1> HIDE DEF c, x
<1>5. \A p \in Rank : bpc[p] # "down"
  BY <1>1, NobodyLeft
<1> SUFFICES ASSUME NEW q \in Rank, NEW k \in NegotiatedKey
             PROVE  Asked(q, k)' + Replied(q, k)' = Owed(q, k)'
  BY DEF AccountInv
<1>6. ASSUME NEW p \in Rank PROVE Asked(p, k) + Replied(p, k) = Owed(p, k)
  BY <1>5 DEF AccountInv
<1> DEFINE d == IF k = c THEN 1 ELSE 0
<1>7. Built(k)' = Built(k) + d
  <2>1. x \in Answering(k) <=> k = c
    BY <1>4 DEF Answering
  <2>2. Count(Append(responses, x), Answering(k))
          = Count(responses, Answering(k)) + (IF x \in Answering(k) THEN 1 ELSE 0)
    BY <1>4, CountAppend DEF AccountType
  <2> QED
    BY <1>1, <2>1, <2>2 DEF Built
<1>8. Tabled(q, k) = Tabled(q, k)' + d /\ Tabled(q, k)' \in Nat
  <2>0. DOMAIN message_table' = DOMAIN message_table \ {c}
        /\ \A y \in DOMAIN message_table \ {c} : message_table'[y] = message_table[y]
    BY <1>1 DEF Erase
  <2>1. CASE k # c
    <3>1. Tabled(q, k)' = Tabled(q, k)
      BY <2>0, <2>1 DEF Tabled
    <3> QED
      BY <2>1, <3>1, CountsAreNat
  <2>2. CASE k = c
    <3>1. Tabled(q, k)' = 0
      BY <2>0, <2>2 DEF Tabled
    <3>2. \A p \in Rank : Tabled(p, k) = Count(message_table[k], Wanted(p, k))
      BY <1>2, <2>2 DEF Tabled
    <3>3. ASSUME NEW p \in Rank PROVE Count(message_table[k], Wanted(p, k)) <= 1
      <4>1. Owed(p, k) <= 1
        BY DEF Owed
      <4>2. Tabled(p, k) <= Owed(p, k)
        <5>1. Asked(p, k) + Replied(p, k) = Owed(p, k)
          BY <1>6
        <5> QED
          BY <5>1, CountsAreNat DEF Asked, Replied
      <4>3. Owed(p, k) \in Nat
        BY DEF Owed
      <4> QED
        BY <3>2, <4>1, <4>2, <4>3, CountsAreNat
    <3>4. \A i \in DOMAIN message_table[k] : message_table[k][i].key = k
      BY <1>2, <2>2 DEF TableInv
    <3>5. Count(message_table[k], Wanted(q, k)) = 1
      BY <1>2, <1>3, <2>2, <3>3, <3>4, OneEach
    <3> QED
      BY <2>2, <3>1, <3>2, <3>5
  <2> QED
    BY <2>1, <2>2
<1>9. d \in Nat
  OBVIOUS
<1> HIDE DEF d
<1>10. /\ Queued(q, k)' = Queued(q, k) /\ Popped(q, k)' = Popped(q, k)
       /\ Kept(q, k)' = Kept(q, k) /\ Sent(q, k)' = Sent(q, k)
       /\ Parsed(q, k)' = Parsed(q, k) /\ Listed(k)' = Listed(k)
       /\ Answered(q, k)' = Answered(q, k) /\ Due(q, k)' = Due(q, k)
       /\ Owed(q, k)' = Owed(q, k)
  BY <1>1 DEF Queued, Popped, Kept, Sent, Parsed, Listed, Answered, Due, Owed
<1>11. /\ Queued(q, k) \in Nat /\ Popped(q, k) \in Nat /\ Kept(q, k) \in Nat
       /\ Sent(q, k) \in Nat /\ Parsed(q, k) \in Nat /\ Tabled(q, k) \in Nat
       /\ Built(k) \in Nat /\ Listed(k) \in Nat /\ Answered(q, k) \in Nat /\ Due(q, k) \in Nat
  BY CountsAreNat
<1>12. Asked(q, k) = Asked(q, k)' + d /\ Replied(q, k)' = Replied(q, k) + d
  BY <1>7, <1>8, <1>9, <1>10, <1>11 DEF Asked, Replied
<1>13. Asked(q, k)' \in Nat /\ Replied(q, k) \in Nat
  BY <1>8, <1>10, <1>11 DEF Asked, Replied
<1>14. Asked(q, k) + Replied(q, k) = Owed(q, k)
  BY <1>6
<1> QED
  BY <1>9, <1>10, <1>12, <1>13, <1>14

\* A response extended by one name answers that name as well.
LEMMA WithKeyAnswers ==
    ASSUME NEW x \in Response, NEW c \in KeySet
    PROVE  /\ WithKey(x, c) \in Response
           /\ \A k : WithKey(x, c) \in Answering(k) <=> x \in Answering(k) \/ k = c
<1>1. x.keys \in Seq(KeySet) /\ x.type \in ResponseType /\ x.devices \in Seq(Int)
  BY DEF Response
<1>2. /\ Append(x.keys, c) \in Seq(KeySet) /\ Append(x.keys, c) # <<>>
      /\ DOMAIN Append(x.keys, c) = 1 .. Len(x.keys) + 1
      /\ Append(x.keys, c)[Len(x.keys) + 1] = c
      /\ \A i \in 1 .. Len(x.keys) : Append(x.keys, c)[i] = x.keys[i]
      /\ DOMAIN x.keys = 1 .. Len(x.keys) /\ Len(x.keys) \in Nat
  BY <1>1, AppendProperties, LenProperties
<1>3. WithKey(x, c).keys = Append(x.keys, c)
  BY DEF WithKey
<1>4. WithKey(x, c) \in Response
  BY <1>1, <1>2 DEF WithKey, Response
<1>5. ASSUME NEW k
      PROVE  (\E j \in DOMAIN WithKey(x, c).keys : WithKey(x, c).keys[j] = k)
             <=> (\E j \in DOMAIN x.keys : x.keys[j] = k) \/ k = c
  <2>1. ASSUME NEW j \in DOMAIN x.keys, x.keys[j] = k
        PROVE  \E i \in DOMAIN Append(x.keys, c) : Append(x.keys, c)[i] = k
    <3>1. j \in DOMAIN Append(x.keys, c) /\ Append(x.keys, c)[j] = k
      BY <1>2, <2>1
    <3> QED
      BY <3>1
  <2>2. ASSUME k = c
        PROVE  \E i \in DOMAIN Append(x.keys, c) : Append(x.keys, c)[i] = k
    <3>1. Len(x.keys) + 1 \in DOMAIN Append(x.keys, c)
      BY <1>2
    <3> QED
      BY <1>2, <2>2, <3>1
  <2>3. ASSUME NEW j \in DOMAIN Append(x.keys, c), Append(x.keys, c)[j] = k
        PROVE  (\E i \in DOMAIN x.keys : x.keys[i] = k) \/ k = c
    <3>1. j \in DOMAIN x.keys \/ j = Len(x.keys) + 1
      BY <1>2
    <3> QED
      BY <1>2, <2>3, <3>1
  <2> QED
    BY <1>3, <2>1, <2>2, <2>3
<1> QED
  BY <1>4, <1>5 DEF Answering

LEMMA AccountFuse ==
    ASSUME AccountType, AuxInv, AccountInv, FuseNext
    PROVE  AccountInv'
<1> USE MasterRank
<1> DEFINE new == Head(responses)
           c   == new.keys[1]
           n   == Len(response_list)
<1>1. /\ bpc[Master] = "fuse" /\ responses # <<>>
      /\ UNCHANGED <<tensor_table, message_queue, buffer, kept, todo, gather, bcast,
                     inbox, message_table>>
  BY DEF FuseNext, coordUnchanged, queueVars, countVars
<1>2. CASE bpc' = [bpc EXCEPT ![Master] = "aborted"] /\ UNCHANGED fuseVars
  BY <1>1, <1>2, AccountFrame DEF AccountType, fuseVars
<1>3. CASE /\ responses' = Tail(responses) /\ UNCHANGED bpc
           /\ \/ /\ Extending
                 /\ response_list' = [response_list EXCEPT ![n] = WithKey(Last, c)]
              \/ response_list' = Append(response_list, new)
  <2>1. responses \in Seq(Response) /\ response_list \in Seq(Response)
        /\ new \in Response /\ Tail(responses) \in Seq(Response)
    BY <1>1, HeadTailProperties DEF AccountType
  <2>2. new.keys = <<c>> /\ c \in KeySet
    <3>1. new = responses[1] /\ 1 \in DOMAIN responses
      BY <1>1, <2>1, HeadTailProperties, LenProperties, EmptySeq
    <3>2. Len(new.keys) = 1 /\ new.keys \in Seq(KeySet)
      BY <2>1, <3>1 DEF AuxInv, SingleInv, Response
    <3> QED
      BY <3>2, LenProperties, SeqDef
  <2> HIDE DEF new, c, n
  <2>3. \A k : new \in Answering(k) <=> k = c
    BY <2>1, <2>2 DEF Answering
  <2> SUFFICES ASSUME NEW q \in Rank, bpc'[q] # "down", NEW k \in NegotiatedKey
               PROVE  Asked(q, k)' + Replied(q, k)' = Owed(q, k)'
    BY DEF AccountInv
  <2> DEFINE d == IF k = c THEN 1 ELSE 0
  <2>4. Built(k) = Built(k)' + d /\ Built(k)' \in Nat
    <3>1. Count(responses, Answering(k))
            = Count(Tail(responses), Answering(k)) + (IF new \in Answering(k) THEN 1 ELSE 0)
      BY <1>1, <2>1, CountTail DEF new
    <3> QED
      BY <1>3, <2>1, <2>3, <3>1, CountType DEF Built
  <2>5. d \in Nat /\ (d = 0 <=> k # c)
    OBVIOUS
  <2>6. Asked(q, k) + Replied(q, k) = Owed(q, k)
    BY <1>3 DEF AccountInv
  <2>7. Asked(q, k) \in Nat /\ Owed(q, k) <= 1 /\ Owed(q, k) \in Nat
    BY CountsAreNat DEF Asked, Owed
  <2>8. /\ Built(k) \in Nat /\ Listed(k) \in Nat /\ Answered(q, k) \in Nat /\ Due(q, k) \in Nat
    BY CountsAreNat
  <2>9. Listed(k)' = Listed(k) + d
    <3>1. CASE Extending /\ response_list' = [response_list EXCEPT ![n] = WithKey(Last, c)]
      <4>1. response_list # <<>> /\ Last = response_list[n]
        BY <3>1 DEF Extending, Last, n
      <4>2. Last \in Response
        BY <2>1, <4>1, CountReplace DEF n
      <4>3. WithKey(Last, c) \in Response
            /\ (WithKey(Last, c) \in Answering(k) <=> Last \in Answering(k) \/ k = c)
        BY <2>2, <4>2, WithKeyAnswers
      <4>4. Count(response_list', Answering(k)) + (IF Last \in Answering(k) THEN 1 ELSE 0)
            = Count(response_list, Answering(k)) + (IF WithKey(Last, c) \in Answering(k) THEN 1 ELSE 0)
        <5> DEFINE w == WithKey(Last, c)
                   P == Answering(k)
        <5>1. w \in Response /\ response_list' = [response_list EXCEPT ![Len(response_list)] = w]
          BY <3>1, <4>3 DEF n
        <5>2. Last = response_list[Len(response_list)]
          BY <4>1 DEF n
        <5>3. \A x \in Response :
                Count([response_list EXCEPT ![Len(response_list)] = x], P)
                  + (IF response_list[Len(response_list)] \in P THEN 1 ELSE 0)
                = Count(response_list, P) + (IF x \in P THEN 1 ELSE 0)
          <6> HIDE DEF P
          <6> QED
            BY <2>1, <4>1, CountReplace
        <5> HIDE DEF w, P
        <5>4. Count(response_list', P) + (IF Last \in P THEN 1 ELSE 0)
              = Count(response_list, P) + (IF w \in P THEN 1 ELSE 0)
          BY <5>1, <5>2, <5>3
        <5> QED
          BY <5>4 DEF w, P
      <4>5. Last \in Answering(k) => Listed(k) # 0
        <5>1. n \in DOMAIN response_list
          BY <2>1, <4>1, LenProperties, EmptySeq DEF n
        <5> QED
          BY <2>1, <4>1, <5>1, CountPositive DEF Listed
      <4>6. ~(Last \in Answering(k) /\ k = c)
        <5> SUFFICES ASSUME Last \in Answering(k), k = c PROVE FALSE
          OBVIOUS
        <5>1. Listed(k) >= 1 /\ Built(k) >= 1
          BY <2>4, <2>8, <4>5
        <5> HIDE DEF d
        <5> QED
          BY <2>6, <2>7, <2>8, <5>1 DEF Replied
      <4>7. Count(response_list', Answering(k)) \in Nat
        <5>1. response_list' \in Seq(Response)
          <6>1. n \in 1 .. Len(response_list)
            BY <2>1, <4>1, LenProperties, EmptySeq DEF n
          <6> QED
            BY <2>1, <3>1, <4>3, <6>1, ExceptSeq
        <5> QED
          BY <5>1, CountType
      <4>8. CASE k = c
        BY <2>8, <4>3, <4>4, <4>6, <4>7, <4>8 DEF Listed
      <4>9. CASE k # c
        BY <2>8, <4>3, <4>4, <4>6, <4>7, <4>9 DEF Listed
      <4> QED
        BY <4>8, <4>9
    <3>2. CASE response_list' = Append(response_list, new)
      <4>1. Count(response_list', Answering(k))
              = Count(response_list, Answering(k)) + (IF new \in Answering(k) THEN 1 ELSE 0)
        BY <2>1, <3>2, CountAppend
      <4> QED
        BY <2>3, <4>1 DEF Listed
    <3> QED
      BY <1>3, <3>1, <3>2
  <2> HIDE DEF d
  <2>10. /\ Asked(q, k)' = Asked(q, k) /\ Answered(q, k)' = Answered(q, k)
         /\ Due(q, k)' = Due(q, k) /\ Owed(q, k)' = Owed(q, k)
    BY <1>1 DEF Asked, Queued, Popped, Kept, Sent, Parsed, Tabled, Answered, Due, Owed
  <2>11. Replied(q, k)' = Replied(q, k)
    BY <2>4, <2>5, <2>8, <2>9, <2>10 DEF Replied
  <2> QED
    BY <2>6, <2>10, <2>11
<1>4. \/ bpc' = [bpc EXCEPT ![Master] = "aborted"] /\ UNCHANGED fuseVars
      \/ /\ responses' = Tail(responses) /\ UNCHANGED bpc
         /\ \/ /\ Extending
               /\ response_list' = [response_list EXCEPT ![n] = WithKey(Last, c)]
            \/ response_list' = Append(response_list, new)
  <2>1. \/ MasterGoto("aborted") /\ UNCHANGED fuseVars
        \/ /\ responses' = Tail(responses) /\ UNCHANGED bpc
           /\ Fuses(new)
           /\ response_list' = [response_list EXCEPT ![Len(response_list)] = WithKey(Last, new.keys[1])]
        \/ /\ responses' = Tail(responses) /\ UNCHANGED bpc
           /\ response_list' = Append(response_list, new)
    BY Zenon DEF FuseNext
  <2>2. Fuses(new) => Extending
    BY Zenon DEF Fuses
  <2> QED
    BY <2>1, <2>2 DEF MasterGoto
<1> QED
  BY <1>2, <1>3, <1>4

LEMMA AccountBroadcast ==
    ASSUME AccountType, ShutdownInv, AuxInv, AccountInv, Broadcast
    PROVE  AccountInv'
<1> USE MasterRank
<1> DEFINE list == [responses   |-> response_list,
                    shutdown    |-> should_shut_down[Master],
                    change_topo |-> should_change_topo[Master]]
<1>1. /\ bpc[Master] = "fuse" /\ bpc' = [bpc EXCEPT ![Master] = "respond"]
      /\ bcast' = [s \in Rank |-> IF s \in Workers THEN Append(bcast[s], list) ELSE bcast[s]]
      /\ todo' = [todo EXCEPT ![Master] = response_list]
      /\ response_list' = <<>>
      /\ UNCHANGED <<tensor_table, message_queue, buffer, kept, gather, inbox, message_table,
                     responses>>
  BY DEF Broadcast, MasterGoto, coordUnchanged, queueVars, countVars
<1>2. \A s \in Workers : bcast[s] = <<>> /\ bpc[s] = "recv"
  BY <1>1 DEF ShutdownInv, CountedInv, Counted
<1>3. Head(<<list>>).responses = response_list /\ <<list>> # <<>>
      /\ Append(<<>>, list) = <<list>>
  OBVIOUS
<1> HIDE DEF list
<1>4. /\ \A s \in Workers : bcast'[s] = <<list>> /\ todo'[s] = todo[s] /\ todo[s] = <<>>
      /\ bcast'[Master] = <<>> /\ bcast[Master] = <<>>
      /\ todo'[Master] = response_list /\ todo[Master] = <<>>
  BY <1>1, <1>2, <1>3 DEF Workers, AccountType, AuxInv, StageInv
<1>5. \A q \in Rank : bpc'[q] # "down" => bpc[q] # "down"
  BY <1>1 DEF AccountType
<1> SUFFICES ASSUME NEW q \in Rank, bpc'[q] # "down", NEW k \in NegotiatedKey
             PROVE  Asked(q, k)' + Replied(q, k)' = Owed(q, k)'
  BY DEF AccountInv
<1>6. Listed(k)' = 0 /\ Built(k)' = Built(k)
  BY <1>1, CountEmpty DEF Listed, Built
<1>7. Answered(q, k) = 0 /\ Due(q, k) = 0
  BY <1>2, <1>4, CountEmpty DEF Answered, Due, Workers
<1>8. Answered(q, k)' + Due(q, k)' = Listed(k)
  <2>1. CASE q = Master
    <3>1. Answered(q, k)' = 0 /\ Due(q, k)' = Listed(k)
      BY <1>4, <2>1 DEF Answered, Due, Listed
    <3> QED
      BY <3>1, CountsAreNat
  <2>2. CASE q # Master
    <3>1. Answered(q, k)' = Listed(k) /\ Due(q, k)' = 0
      BY <1>3, <1>4, <2>2, CountEmpty DEF Answered, Due, Listed, Workers
    <3> QED
      BY <3>1, CountsAreNat
  <2> QED
    BY <2>1, <2>2
<1>9. Answered(q, k)' \in Nat /\ Due(q, k)' \in Nat
  <2>1. Listed(k) \in Nat
    BY CountsAreNat
  <2>2. Answered(q, k)' \in {0, Listed(k)}
    BY <1>3, <1>4 DEF Answered, Listed, Workers
  <2>3. Due(q, k)' \in {0, Listed(k)}
    BY <1>4, CountEmpty DEF Due, Listed, Workers
  <2> QED
    BY <2>1, <2>2, <2>3
<1>10. Asked(q, k)' = Asked(q, k) /\ Owed(q, k)' = Owed(q, k)
  BY <1>1 DEF Asked, Queued, Popped, Kept, Sent, Parsed, Tabled, Owed
<1>11. Replied(q, k)' = Replied(q, k)
  <2>1. Built(k) \in Nat /\ Listed(k) \in Nat
    BY CountsAreNat
  <2> QED
    BY <1>6, <1>7, <1>8, <1>9, <2>1 DEF Replied
<1>12. Asked(q, k) + Replied(q, k) = Owed(q, k)
  BY <1>5 DEF AccountInv
<1> QED
  BY <1>10, <1>11, <1>12

LEMMA AccountCoordinator ==
    ASSUME IndInv, AccountType, ShutdownInv, AuxInv, TableInv, AccountInv, CoordinatorStep
    PROVE  AccountInv'
<1> USE MasterRank
<1>1. CASE CountDone
  BY <1>1, AccountFrame DEF CountDone, MasterGoto, coordUnchanged, queueVars, countVars,
     fuseVars, AccountType
<1>2. CASE ConstructDone
  BY <1>2, AccountFrame DEF ConstructDone, MasterGoto, coordUnchanged, queueVars, countVars,
     fuseVars, AccountType
<1>3. from \in Rank
  BY DEF IndInv, TypeOK, CountOK
<1> QED
  BY <1>1, <1>2, <1>3, AccountCount, AccountNextList, AccountConstruct, AccountFuse,
     AccountBroadcast DEF CoordinatorStep

-----------------------------------------------------------------------------
(* The account *)

LEMMA AccountInit == Init => AccountInv
<1> SUFFICES ASSUME Init, NEW q \in Rank, NEW k \in NegotiatedKey
             PROVE  Asked(q, k) + Replied(q, k) = Owed(q, k)
  BY DEF AccountInv
<1>1. /\ message_queue[q] = <<>> /\ buffer[q] = <<>> /\ kept[q] = <<>> /\ gather[q] = <<>>
      /\ bcast[q] = <<>> /\ todo[q] = <<>> /\ inbox = <<>> /\ responses = <<>>
      /\ response_list = <<>> /\ DOMAIN message_table = {} /\ DOMAIN tensor_table[q] = {}
  BY DEF Init
<1>2. /\ Queued(q, k) = 0 /\ Popped(q, k) = 0 /\ Kept(q, k) = 0 /\ Sent(q, k) = 0
      /\ Parsed(q, k) = 0 /\ Tabled(q, k) = 0 /\ Built(k) = 0 /\ Listed(k) = 0
      /\ Answered(q, k) = 0 /\ Due(q, k) = 0 /\ Owed(q, k) = 0
  BY <1>1, CountEmpty DEF Queued, Popped, Kept, Sent, Parsed, Tabled, Built, Listed, Answered,
     Due, Owed
<1> QED
  BY <1>2 DEF Asked, Replied

NegotiationInv == AuxInv /\ TableInv /\ AccountInv

LEMMA AccountStep ==
    IndInv /\ ShutdownInv /\ Negotiating /\ NoOverlap /\ NegotiationInv /\ [Next]_vars
        => NegotiationInv'
<1> SUFFICES ASSUME IndInv, ShutdownInv, Negotiating, NoOverlap, AuxInv, TableInv, AccountInv,
                    [Next]_vars
             PROVE  AuxInv' /\ AccountInv'
  BY AccountTypes, TableStep DEF IndInv, NegotiationInv
<1>1. AccountType
  BY AccountTypes DEF IndInv
<1>2. CASE UNCHANGED vars
  <2>1. UNCHANGED <<tensor_table, message_queue, buffer, kept, gather, bcast, todo, inbox,
                    message_table, responses, response_list, bpc>>
    BY <1>2 DEF vars, queueVars, backgroundVars, localVars, execVars, countVars, fuseVars,
       mpiVars
  <2> QED
    BY <2>1, AuxFrame, AccountFrame
<1>3. CASE Terminating
  BY <1>2, <1>3 DEF Terminating
<1>4. ASSUME NEW r \in Rank, UserStep(r) PROVE AuxInv' /\ AccountInv'
  BY <1>1, <1>4, AuxUser, AccountUser
<1>5. ASSUME NEW r \in Rank, BackgroundStep(r) PROVE AuxInv' /\ AccountInv'
  <2>1. buffer[r] \in Seq(RequestsOf(r))
    BY DEF AuxInv, OriginInv
  <2>2. \A i \in Nat : i > 0 /\ i <= Len(buffer[r]) => buffer[r][i] \in RequestsOf(r)
    BY <2>1, ElementOfSeq, LenProperties
  <2>3. index[r] \in Nat \ {0}
    BY DEF IndInv, TypeOK, LocalOK
  <2>4. AuxInv'
    BY <1>1, <1>5, AuxBackground
  <2>5. AccountInv'
    BY <1>1, <1>5, <2>2, <2>3, AccountBackground
  <2> QED
    BY <2>4, <2>5
<1>6. CASE CoordinatorStep
  BY <1>1, <1>6, AuxCoordinator, AccountCoordinator
<1> QED
  BY <1>2, <1>3, <1>4, <1>5, <1>6 DEF Next

LEMMA AccountSafe == TypeOK /\ AccountInv => RequestAccounting
<1> SUFFICES ASSUME TypeOK, AccountInv, NEW r \in Rank, bpc[r] # "down", NEW k \in NegotiatedKey
             PROVE  RequestsFor(r, k) + ResponsesFor(r, k)
                    = IF k \in DOMAIN tensor_table[r] THEN 1 ELSE 0
  BY Zenon DEF RequestAccounting, NegotiatedKey
<1>1. RequestsFor(r, k) = Asked(r, k) /\ ResponsesFor(r, k) = Replied(r, k)
  BY AskedIs, AccountTypes
<1>2. Asked(r, k) + Replied(r, k) = Owed(r, k)
  BY DEF AccountInv
<1> QED
  BY <1>1, <1>2 DEF Owed

\* Every entry of a negotiated operation in the tensor table of a rank has
\* exactly one request or response travelling for it, from PushMessageToQueue
\* through the coordinator's message table to GetTensorEntriesFromResponse, and
\* nothing travels for an entry that is gone.  It holds as long as no rank skips
\* the negotiation and no entry is dropped by emplace under a taken name.
THEOREM RequestsAccounted == Spec /\ []Negotiating /\ []NoOverlap => []RequestAccounting
<1>1. Init => IndInv /\ ShutdownInv /\ NegotiationInv
  BY IndInit, ShutdownInit, AuxInit, TableInit, AccountInit DEF NegotiationInv
<1>2. IndInv /\ [Next]_vars => IndInv'
  BY IndStep
<1>3. TypeOK /\ ShutdownInv /\ Negotiating /\ [Next]_vars => ShutdownInv'
  BY ShutdownStep
<1>4. IndInv /\ ShutdownInv /\ Negotiating /\ NoOverlap /\ NegotiationInv /\ [Next]_vars
        => NegotiationInv'
  BY AccountStep
<1>5. IndInv => TypeOK
  BY DEF IndInv
<1>6. TypeOK /\ NegotiationInv => RequestAccounting
  BY AccountSafe DEF NegotiationInv
<1> QED
  BY <1>1, <1>2, <1>3, <1>4, <1>5, <1>6, PTL DEF Spec

-----------------------------------------------------------------------------
(* Programs that keep the hypotheses *)

\* The operations of a program are all on tensors, none on windows: their
\* message name is the name the duplicate check looks for.
TensorOnly(p) == \A i \in DOMAIN p : p[i].call = "enqueue" => p[i].op.type \notin WindowType

TensorJob == \A r \in Rank : TensorOnly(program[r])

LEMMA TensorJobStep == IndInv /\ TensorJob /\ [Next]_vars => TensorJob'
<1> SUFFICES ASSUME IndInv, TensorJob, [Next]_vars PROVE TensorJob'
  OBVIOUS
<1>0. program \in [Rank -> Seq(Call)]
  BY DEF IndInv, TypeOK, UserOK
<1>1. \/ UNCHANGED program
      \/ \E r \in Rank : program[r] # <<>> /\ program' = [program EXCEPT ![r] = Tail(program[r])]
  <2>1. ASSUME NEW r \in Rank, UserStep(r)
        PROVE  program' = program
               \/ (program[r] # <<>> /\ program' = [program EXCEPT ![r] = Tail(program[r])])
    BY <2>1 DEF IndInv, CallInv, UserStep, EnqueueFail, EnqueueBegin, AddToTensorQueue,
       Synchronize, SetTopologyRefused, SetTopologyBegin, SetTopologyUnfinished,
       SetTopologyEnter, SetTopologyLeave, ClosePause, SkipNegotiateNow,
       SkipNegotiateBegin, SkipNegotiateApply, SuspendOrResume, Shutdown, Join,
       RequestPause, EndPause, Goto, Return, Calls, Paused, At
  <2>2. ASSUME NEW r \in Rank, BackgroundStep(r) PROVE UNCHANGED program
    BY <2>2 DEF BackgroundStep, ReadFlags, PopMessagesFromQueue, ConvertNext, ConvertDone,
       RemoveNext, RemoveDone, PerformDirect, PerformResponse, Complete, DirectDone,
       SlaveSend, SlaveRecv, RespondDone, Unpark, Unparked, Exit, FinalizeTensorQueue,
       userVars
  <2>3. CoordinatorStep => UNCHANGED program
    BY DEF CoordinatorStep, CountRequest, NextList, CountDone, ConstructNext, ConstructDone,
       FuseNext, Broadcast, coordUnchanged, userVars
  <2>4. Terminating \/ UNCHANGED vars => UNCHANGED program
    BY DEF Terminating, vars, userVars
  <2> QED
    BY <2>1, <2>2, <2>3, <2>4 DEF Next
<1>2. ASSUME NEW r \in Rank, program[r] # <<>>,
             program' = [program EXCEPT ![r] = Tail(program[r])]
      PROVE  TensorJob'
  <2>1. \A i \in DOMAIN Tail(program[r]) :
          i + 1 \in DOMAIN program[r] /\ Tail(program[r])[i] = program[r][i + 1]
    BY <1>0, <1>2, HeadTailProperties, LenProperties, EmptySeq
  <2>2. TensorOnly(Tail(program[r]))
    BY <2>1 DEF TensorJob, TensorOnly
  <2> QED
    BY <1>0, <1>2, <2>2 DEF TensorJob
<1> QED
  BY <1>1, <1>2 DEF TensorJob

LEMMA TensorJobOverlap == IndInv /\ TensorJob => NoOverlap
<1> SUFFICES ASSUME IndInv, TensorJob, NEW r \in Rank, mpc[r] = "add",
                    Key(Head(program[r]).op) \in DOMAIN tensor_table[r]
             PROVE  IsDuplicate(r, Head(program[r]).op)
  BY DEF NoOverlap
<1>1. program[r] # <<>> /\ Head(program[r]).call = "enqueue" /\ program[r] \in Seq(Call)
  BY DEF IndInv, CallInv, TypeOK, UserOK
<1>2. 1 \in DOMAIN program[r] /\ Head(program[r]) = program[r][1]
  BY <1>1, HeadTailProperties, LenProperties, EmptySeq
<1>3. Head(program[r]).op.type \notin WindowType
  BY <1>1, <1>2 DEF TensorJob, TensorOnly
<1> QED
  BY <1>3 DEF IsDuplicate, Key, TensorName

\* The hypotheses of RequestsAccounted are ones about the programs: they hold in
\* every job whose programs enqueue operations on tensors only and never call
\* SetSkipNegotiateStageState.
THEOREM RequestsAccountedTensors ==
    ASSUME \A p \in Programs : \A r \in Rank : NeverSkip(p[r]) /\ TensorOnly(p[r])
    PROVE  Spec => []RequestAccounting
<1>1. Init => SkipFree /\ TensorJob
  BY DEF Init, SkipFree, Negotiating, TensorJob
<1>2. IndInv /\ SkipFree /\ [Next]_vars => SkipFree'
  BY SkipFreeStep
<1>3. IndInv /\ TensorJob /\ [Next]_vars => TensorJob'
  BY TensorJobStep
<1>4. IndInv /\ SkipFree /\ TensorJob => Negotiating /\ NoOverlap
  BY TensorJobOverlap DEF SkipFree
<1>5. Init => IndInv
  BY IndInit
<1>6. IndInv /\ [Next]_vars => IndInv'
  BY IndStep
<1>7. Spec /\ []Negotiating /\ []NoOverlap => []RequestAccounting
  BY RequestsAccounted
<1> QED
  BY <1>1, <1>2, <1>3, <1>4, <1>5, <1>6, <1>7, PTL DEF Spec

-----------------------------------------------------------------------------
(* Handles *)

\* The entries that call back handle h, and how many of them are where.
Entries(h) == {e \in Entry : e.handle = h}
InTable(r, h)   == Count(tensor_table[r], Entries(h))
InEntries(r, h) == Count(entries[r], Entries(h))
InRunning(r, h) == Count(running[r], Entries(h))
InCall(r, h)    == IF mpc[r] = "add" /\ h = Len(status[r]) THEN 1 ELSE 0

Stored(r, h)  == InTable(r, h) + InEntries(r, h) + InRunning(r, h)
Held(r, h)    == Stored(r, h) + InCall(r, h)
Pending(r, h) == IF h \in DOMAIN status[r] /\ status[r][h] = "pending" THEN 1 ELSE 0

\* Every handle is held once while it is pending; no other number is a handle.
HandlesOf(r) == \A h \in Nat \ {0} : Held(r, h) = Pending(r, h)

\* A thread that has aborted may have dropped the entries it was to execute.
HandleInv == \A r \in Rank : bpc[r] # "aborted" => HandlesOf(r)

\* Tables are finite, and entries are under way only inside a collective call.
IdleInv ==
    \A r \in Rank : /\ IsFiniteSet(DOMAIN tensor_table[r])
                    /\ running[r] # <<>> => bpc[r] \in {"directing", "responding"}

\* No response names a tensor twice.
DistinctKeys(x) == \A i, j \in DOMAIN x.keys : x.keys[i] = x.keys[j] => i = j

\* The coordinator answers a name once in a cycle.
AnswerInv ==
    /\ responses # <<>> => bpc[Master] \in {"construct", "fuse", "aborted"}
    /\ ready_to_reduce # <<>> => bpc[Master] \in {"count", "construct"}
    /\ \A i \in DOMAIN responses :
          /\ Len(responses[i].keys) = 1
          /\ \A j \in DOMAIN responses : responses[i].keys[1] = responses[j].keys[1] => i = j
          /\ \A j \in DOMAIN ready_to_reduce : responses[i].keys[1] # ready_to_reduce[j]
          /\ \A j \in DOMAIN response_list : \A n \in DOMAIN response_list[j].keys :
                responses[i].keys[1] # response_list[j].keys[n]

DistinctInv ==
    /\ \A i \in DOMAIN response_list : DistinctKeys(response_list[i])
    /\ \A r \in Rank :
          /\ \A i \in DOMAIN todo[r] : DistinctKeys(todo[r][i])
          /\ \A n \in DOMAIN bcast[r] : \A i \in DOMAIN bcast[r][n].responses :
                DistinctKeys(bcast[r][n].responses[i])

-----------------------------------------------------------------------------
(* Counting the values of a finite map *)

LEMMA CountMap ==
    ASSUME NEW t, IsFiniteSet(DOMAIN t), NEW P
    PROVE  IsFiniteSet({i \in DOMAIN t : t[i] \in P}) /\ Count(t, P) \in Nat
<1>1. {i \in DOMAIN t : t[i] \in P} \in SUBSET DOMAIN t
  OBVIOUS
<1> QED
  BY <1>1, FS_Subset, FS_CardinalityType DEF Count

LEMMA CountPut ==
    ASSUME NEW t, IsFiniteSet(DOMAIN t), NEW k, k \notin DOMAIN t, NEW v, NEW P
    PROVE  /\ IsFiniteSet(DOMAIN Put(t, k, v))
           /\ Count(Put(t, k, v), P) = Count(t, P) + (IF v \in P THEN 1 ELSE 0)
<1> DEFINE u == Put(t, k, v)
           I == {i \in DOMAIN t : t[i] \in P}
           J == {i \in DOMAIN u : u[i] \in P}
<1>1. DOMAIN u = DOMAIN t \cup {k} /\ u[k] = v /\ \A i \in DOMAIN t : u[i] = t[i]
  BY DEF Put
<1>2. IsFiniteSet(I) /\ Cardinality(I) \in Nat
  BY CountMap DEF Count
<1>3. Count(u, P) = Cardinality(J) /\ Count(t, P) = Cardinality(I)
  BY DEF Count
<1> HIDE DEF u
<1>4. k \notin I /\ J = IF v \in P THEN I \cup {k} ELSE I
  BY <1>1
<1> HIDE DEF I, J
<1>5. Cardinality(I \cup {k}) = Cardinality(I) + 1
  BY <1>2, <1>4, FS_AddElement
<1>6. Count(u, P) = Count(t, P) + (IF v \in P THEN 1 ELSE 0)
  BY <1>2, <1>3, <1>4, <1>5
<1>7. IsFiniteSet(DOMAIN u)
  BY <1>1, FS_AddElement
<1> QED
  BY <1>6, <1>7 DEF u

LEMMA CountErase ==
    ASSUME NEW t, IsFiniteSet(DOMAIN t), NEW k \in DOMAIN t, NEW P
    PROVE  /\ IsFiniteSet(DOMAIN Erase(t, k))
           /\ Count(t, P) = Count(Erase(t, k), P) + (IF t[k] \in P THEN 1 ELSE 0)
<1> DEFINE u == Erase(t, k)
           I == {i \in DOMAIN t : t[i] \in P}
           J == {i \in DOMAIN u : u[i] \in P}
<1>1. DOMAIN u = DOMAIN t \ {k} /\ \A i \in DOMAIN u : u[i] = t[i]
  BY DEF Erase
<1>2. IsFiniteSet(I) /\ Cardinality(I) \in Nat
  BY CountMap DEF Count
<1>3. Count(u, P) = Cardinality(J) /\ Count(t, P) = Cardinality(I)
  BY DEF Count
<1> HIDE DEF u
<1>4. (k \in I <=> t[k] \in P) /\ J = I \ {k}
  BY <1>1
<1> HIDE DEF I, J
<1>5. IsFiniteSet(J) /\ Cardinality(J) = IF k \in I THEN Cardinality(I) - 1 ELSE Cardinality(I)
  BY <1>2, <1>4, FS_RemoveElement
<1>6. Count(t, P) = Count(u, P) + (IF t[k] \in P THEN 1 ELSE 0)
  BY <1>2, <1>3, <1>4, <1>5
<1>7. IsFiniteSet(DOMAIN u)
  BY <1>1, FS_RemoveElement
<1> QED
  BY <1>6, <1>7 DEF u

\* The entries that a response takes out of the table are those it executes.
LEMMA CountEraseAll ==
    ASSUME NEW t, IsFiniteSet(DOMAIN t), NEW S, NEW keys \in Seq(S), NEW P,
           \A i \in DOMAIN keys : keys[i] \in DOMAIN t,
           \A i, j \in DOMAIN keys : keys[i] = keys[j] => i = j
    PROVE  /\ IsFiniteSet(DOMAIN EraseAll(t, keys))
           /\ Count(t, P) = Count(EraseAll(t, keys), P)
                            + Count([i \in DOMAIN keys |-> t[keys[i]]], P)
<1> DEFINE u == EraseAll(t, keys)
           b == [i \in DOMAIN keys |-> t[keys[i]]]
           K == {keys[i] : i \in DOMAIN keys}
           I == {i \in DOMAIN t : t[i] \in P}
           J == {i \in DOMAIN u : u[i] \in P}
           B == {i \in DOMAIN b : b[i] \in P}
           f == [i \in B |-> keys[i]]
<1>1. DOMAIN u = DOMAIN t \ K /\ \A i \in DOMAIN u : u[i] = t[i]
  BY DEF EraseAll
<1>2. DOMAIN b = DOMAIN keys /\ \A i \in DOMAIN keys : b[i] = t[keys[i]]
  OBVIOUS
<1>3. IsFiniteSet(DOMAIN u)
  <2>1. DOMAIN u \in SUBSET DOMAIN t
    BY <1>1
  <2> HIDE DEF u
  <2> QED
    BY <2>1, FS_Subset
<1>4. IsFiniteSet(DOMAIN b)
  <2>1. DOMAIN b = 1 .. Len(keys) /\ Len(keys) \in Nat
    BY <1>2, LenProperties
  <2> HIDE DEF b
  <2> QED
    BY <2>1, FS_Interval
<1>5. Count(u, P) = Cardinality(J) /\ Count(t, P) = Cardinality(I) /\ Count(b, P) = Cardinality(B)
  BY DEF Count
<1> HIDE DEF u, b
<1>6. /\ IsFiniteSet(I) /\ IsFiniteSet(J) /\ IsFiniteSet(B)
      /\ Cardinality(I) \in Nat /\ Cardinality(J) \in Nat /\ Cardinality(B) \in Nat
  BY <1>3, <1>4, CountMap DEF Count
<1>7. J \subseteq I /\ \A x \in I \ J : x \in K
  BY <1>1
<1>8. f \in Bijection(B, I \ J)
  <2>1. f \in [B -> I \ J]
    BY <1>1, <1>2
  <2>2. \A x, y \in B : f[x] = f[y] => x = y
    BY <1>2
  <2>3. \A x \in I \ J : \E i \in B : f[i] = x
    <3> TAKE x \in I \ J
    <3>1. PICK i \in DOMAIN keys : keys[i] = x
      BY <1>7
    <3>2. i \in B /\ f[i] = x
      BY <1>2, <3>1
    <3> QED
      BY <3>2
  <2> HIDE DEF f, B, I, J
  <2> QED
    BY <2>1, <2>2, <2>3 DEF Bijection, Injection, Surjection, IsInjective
<1> HIDE DEF f, I, J, B
<1>9. Cardinality(I \ J) = Cardinality(B)
  BY <1>6, <1>8, FS_Bijection DEF ExistsBijection
<1>10. Cardinality(I) = Cardinality(J) + Cardinality(I \ J)
  <2>1. I \cap J = J
    BY <1>7
  <2>2. Cardinality(I \ J) = Cardinality(I) - Cardinality(I \cap J)
    BY <1>6, FS_Difference
  <2>3. Cardinality(I \cap J) = Cardinality(J)
    BY <2>1
  <2> QED
    BY <1>6, <2>2, <2>3
<1>11. Count(t, P) = Count(u, P) + Count(b, P)
  BY <1>5, <1>6, <1>9, <1>10
<1> QED
  BY <1>3, <1>11 DEF u, b

LEMMA CountSingle == \A e, P : Count(<<e>>, P) = IF e \in P THEN 1 ELSE 0
<1> SUFFICES ASSUME NEW e, NEW P PROVE Count(<<e>>, P) = IF e \in P THEN 1 ELSE 0
  OBVIOUS
<1>0. <<>> \in Seq({e}) /\ e \in {e}
  BY EmptySeq
<1>1. Count(Append(<<>>, e), P) = Count(<<>>, P) + (IF e \in P THEN 1 ELSE 0)
  BY <1>0, CountAppend
<1>2. Append(<<>>, e) = <<e>> /\ Count(<<>>, P) = 0
  BY CountEmpty
<1> QED
  BY <1>1, <1>2

-----------------------------------------------------------------------------
(* The coordinator answers a name once *)

\* What a background thread does to the responses on their way to it.
LEMMA BackgroundMoves ==
    ASSUME NEW r \in Rank, TypeOK, BackgroundStep(r)
    PROVE  /\ bpc[r] \notin {"count", "construct", "fuse", "aborted"}
           /\ \A q \in Rank : q # r => bpc'[q] = bpc[q]
           /\ UNCHANGED <<responses, response_list, ready_to_reduce>>
           /\ \/ UNCHANGED <<todo, bcast>>
              \/ todo' = [todo EXCEPT ![r] = Tail(todo[r])] /\ todo[r] # <<>> /\ UNCHANGED bcast
              \/ /\ bcast[r] # <<>>
                 /\ todo' = [todo EXCEPT ![r] = Head(bcast[r]).responses]
                 /\ bcast' = [bcast EXCEPT ![r] = Tail(bcast[r])]
<1> USE DEF BGoto, masterVars, countVars, fuseVars, execVars, mpiVars
<1>0. DOMAIN bpc = Rank
  BY DEF TypeOK, LocalOK
<1>1. CASE ReadFlags(r) \/ PopMessagesFromQueue(r)
  BY <1>0, <1>1 DEF ReadFlags, PopMessagesFromQueue
<1>2. CASE ConvertNext(r) \/ ConvertDone(r) \/ RemoveNext(r) \/ RemoveDone(r)
  BY <1>0, <1>2 DEF ConvertNext, ConvertDone, RemoveNext, RemoveDone
<1>3. CASE PerformDirect(r)
  BY <1>0, <1>3 DEF PerformDirect, Perform
<1>4. CASE PerformResponse(r)
  BY <1>0, <1>4 DEF PerformResponse, Perform
<1>5. CASE Complete(r)
  BY <1>0, <1>5 DEF Complete
<1>6. CASE DirectDone(r)
  BY <1>0, <1>6 DEF DirectDone, EndCycle
<1>7. CASE SlaveSend(r) \/ SlaveRecv(r)
  BY <1>0, <1>7 DEF SlaveSend, SlaveRecv, ToExecute
<1>8. CASE RespondDone(r) \/ Unpark(r) \/ Unparked(r)
  BY <1>0, <1>8 DEF RespondDone, Unpark, Unparked, EndCycle
<1>9. CASE Exit(r) \/ FinalizeTensorQueue(r)
  BY <1>0, <1>9 DEF Exit, FinalizeTensorQueue
<1> QED
  BY <1>1, <1>2, <1>3, <1>4, <1>5, <1>6, <1>7, <1>8, <1>9 DEF BackgroundStep

LEMMA AnswerFrame ==
    /\ AnswerInv /\ UNCHANGED <<responses, response_list, ready_to_reduce, bpc>> => AnswerInv'
    /\ DistinctInv /\ UNCHANGED <<response_list, todo, bcast>> => DistinctInv'
<1>1. AnswerInv /\ UNCHANGED <<responses, response_list, ready_to_reduce, bpc>> => AnswerInv'
  BY DEF AnswerInv
<1>2. DistinctInv /\ UNCHANGED <<response_list, todo, bcast>> => DistinctInv'
  BY DEF DistinctInv
<1> QED
  BY <1>1, <1>2

LEMMA AnswerUser ==
    ASSUME NEW r \in Rank, AnswerInv, DistinctInv, UserStep(r)
    PROVE  AnswerInv' /\ DistinctInv'
<1>1. UNCHANGED <<responses, response_list, ready_to_reduce, bpc, todo, bcast>>
  <2>1. CASE AddToTensorQueue(r)
    BY <2>1 DEF AddToTensorQueue, backgroundVars, localVars, execVars, countVars, fuseVars, mpiVars
  <2>2. CASE ~AddToTensorQueue(r)
    BY <2>2, UserFrame DEF backgroundVars, localVars, execVars, countVars, fuseVars
  <2> QED
    BY <2>1, <2>2
<1> QED
  BY <1>1, AnswerFrame

LEMMA AnswerBackground ==
    ASSUME NEW r \in Rank, TypeOK, AnswerInv, DistinctInv, BackgroundStep(r)
    PROVE  AnswerInv' /\ DistinctInv'
<1> USE MasterRank
<1>1. /\ bpc[r] \notin {"count", "construct", "fuse", "aborted"}
      /\ \A q \in Rank : q # r => bpc'[q] = bpc[q]
      /\ UNCHANGED <<responses, response_list, ready_to_reduce>>
      /\ \/ UNCHANGED <<todo, bcast>>
         \/ todo' = [todo EXCEPT ![r] = Tail(todo[r])] /\ todo[r] # <<>> /\ UNCHANGED bcast
         \/ /\ bcast[r] # <<>>
            /\ todo' = [todo EXCEPT ![r] = Head(bcast[r]).responses]
            /\ bcast' = [bcast EXCEPT ![r] = Tail(bcast[r])]
  BY BackgroundMoves
<1>2. AnswerInv'
  <2>1. /\ responses # <<>> => bpc'[Master] = bpc[Master]
        /\ ready_to_reduce # <<>> => bpc'[Master] = bpc[Master]
    BY <1>1 DEF AnswerInv
  <2> QED
    BY <1>1, <2>1 DEF AnswerInv
<1>3. todo \in [Rank -> Seq(Response)] /\ bcast \in [Rank -> Seq(ResponseList)]
  BY DEF TypeOK, ExecOK, MpiOK
<1>4. CASE UNCHANGED <<todo, bcast>>
  BY <1>1, <1>4, AnswerFrame, <1>2
<1>5. CASE todo' = [todo EXCEPT ![r] = Tail(todo[r])] /\ todo[r] # <<>> /\ UNCHANGED bcast
  <2>1. \A i \in DOMAIN Tail(todo[r]) : i + 1 \in DOMAIN todo[r] /\ Tail(todo[r])[i] = todo[r][i + 1]
    BY <1>3, <1>5, HeadTailProperties, LenProperties, EmptySeq
  <2>2. \A q \in Rank : todo'[q] = IF q = r THEN Tail(todo[r]) ELSE todo[q]
    BY <1>3, <1>5
  <2>3. \A q \in Rank : \A i \in DOMAIN todo'[q] : DistinctKeys(todo'[q][i])
    BY <2>1, <2>2 DEF DistinctInv
  <2> QED
    BY <1>1, <1>2, <1>5, <2>3 DEF DistinctInv, DistinctKeys
<1>6. CASE /\ bcast[r] # <<>>
           /\ todo' = [todo EXCEPT ![r] = Head(bcast[r]).responses]
           /\ bcast' = [bcast EXCEPT ![r] = Tail(bcast[r])]
  <2>1. /\ \A n \in DOMAIN Tail(bcast[r]) :
             n + 1 \in DOMAIN bcast[r] /\ Tail(bcast[r])[n] = bcast[r][n + 1]
        /\ 1 \in DOMAIN bcast[r] /\ Head(bcast[r]) = bcast[r][1]
    BY <1>3, <1>6, HeadTailProperties, LenProperties, EmptySeq
  <2>2. \A q \in Rank : /\ todo'[q] = IF q = r THEN bcast[r][1].responses ELSE todo[q]
                        /\ bcast'[q] = IF q = r THEN Tail(bcast[r]) ELSE bcast[q]
    BY <1>3, <1>6, <2>1
  <2>3. \A q \in Rank : \A i \in DOMAIN todo'[q] : DistinctKeys(todo'[q][i])
    BY <2>1, <2>2 DEF DistinctInv
  <2>4. \A q \in Rank : \A n \in DOMAIN bcast'[q] : \A i \in DOMAIN bcast'[q][n].responses :
          DistinctKeys(bcast'[q][n].responses[i])
    <3> SUFFICES ASSUME NEW q \in Rank, NEW n \in DOMAIN bcast'[q],
                        NEW i \in DOMAIN bcast'[q][n].responses
                 PROVE  DistinctKeys(bcast'[q][n].responses[i])
      OBVIOUS
    <3>1. PICK m \in DOMAIN bcast[q] : bcast'[q][n] = bcast[q][m]
      <4>1. CASE q = r
        BY <2>1, <2>2, <4>1
      <4>2. CASE q # r
        BY <2>2, <4>2
      <4> QED
        BY <4>1, <4>2
    <3> QED
      BY <3>1 DEF DistinctInv
  <2> QED
    BY <1>1, <1>2, <2>3, <2>4 DEF DistinctInv, DistinctKeys
<1> QED
  BY <1>1, <1>4, <1>5, <1>6

LEMMA AnswerCoordinator ==
    ASSUME IndInv, AnswerInv, DistinctInv, CoordinatorStep
    PROVE  AnswerInv' /\ DistinctInv'
<1> USE MasterRank
<1> USE DEF MasterGoto, countVars, fuseVars
<1>0. /\ bpc \in [Rank -> BPC] /\ todo \in [Rank -> Seq(Response)]
      /\ bcast \in [Rank -> Seq(ResponseList)]
      /\ responses \in Seq(Response) /\ response_list \in Seq(Response)
      /\ ready_to_reduce \in Seq(KeySet)
      /\ response_list # <<>> => bpc[Master] \in {"fuse", "aborted"}
  BY DEF IndInv, TypeOK, LocalOK, ExecOK, MpiOK, FuseOK, CountOK, FuseInv
<1>1. CASE CountRequest
  <2>1. bpc[Master] = "count" /\ UNCHANGED <<responses, response_list, bpc, todo, bcast>>
    BY <1>1 DEF CountRequest
  <2>2. responses = <<>>
    BY <2>1 DEF AnswerInv
  <2> QED
    BY <2>1, <2>2, AnswerFrame DEF AnswerInv
<1>2. CASE NextList
  BY <1>2, AnswerFrame DEF NextList
<1>3. CASE CountDone
  <2>1. /\ bpc[Master] = "count" /\ bpc'[Master] = "construct"
        /\ UNCHANGED <<responses, response_list, ready_to_reduce, todo, bcast>>
    BY <1>0, <1>3 DEF CountDone
  <2> QED
    BY <2>1, AnswerFrame DEF AnswerInv
<1>4. CASE ConstructNext
  <2> DEFINE k == Head(ready_to_reduce)
             x == ConstructResponse(k, message_table[k])
  <2>1. /\ bpc[Master] = "construct" /\ ready_to_reduce # <<>>
        /\ responses' = Append(responses, x)
        /\ ready_to_reduce' = Tail(ready_to_reduce)
        /\ UNCHANGED <<bpc, response_list, todo, bcast>>
    BY <1>4 DEF ConstructNext
  <2>2. x.keys = <<k>>
    BY ConstructedKeys
  <2>3. Len(x.keys) = 1 /\ x.keys[1] = k
    BY <2>2
  <2> HIDE DEF x
  <2>4. response_list = <<>>
    BY <1>0, <2>1
  <2>5. /\ 1 \in DOMAIN ready_to_reduce /\ k = ready_to_reduce[1]
        /\ \A j \in DOMAIN Tail(ready_to_reduce) :
             /\ j + 1 \in DOMAIN ready_to_reduce /\ j + 1 # 1
             /\ Tail(ready_to_reduce)[j] = ready_to_reduce[j + 1]
    BY <1>0, <2>1, HeadTailProperties, LenProperties, EmptySeq
  <2> HIDE DEF k
  <2>6. \A j \in DOMAIN ready_to_reduce' : ready_to_reduce'[j] # k
    BY <2>1, <2>5 DEF IndInv, ReadyInTable
  <2>7. \A i \in DOMAIN responses' : \/ i \in DOMAIN responses /\ responses'[i] = responses[i]
                                     \/ i = Len(responses) + 1 /\ responses'[i] = x
    BY <1>0, <2>1
  <2>8. \A i \in DOMAIN responses : responses[i].keys[1] # k
    BY <2>5 DEF AnswerInv
  <2>9. \A i \in DOMAIN responses' :
          /\ Len(responses'[i].keys) = 1
          /\ \A j \in DOMAIN responses' : responses'[i].keys[1] = responses'[j].keys[1] => i = j
          /\ \A j \in DOMAIN ready_to_reduce' : responses'[i].keys[1] # ready_to_reduce'[j]
    <3> SUFFICES ASSUME NEW i \in DOMAIN responses'
                 PROVE  /\ Len(responses'[i].keys) = 1
                        /\ \A j \in DOMAIN responses' :
                              responses'[i].keys[1] = responses'[j].keys[1] => i = j
                        /\ \A j \in DOMAIN ready_to_reduce' :
                              responses'[i].keys[1] # ready_to_reduce'[j]
      OBVIOUS
    <3>1. Len(responses'[i].keys) = 1
      BY <2>3, <2>7 DEF AnswerInv
    <3>2. \A j \in DOMAIN responses' : responses'[i].keys[1] = responses'[j].keys[1] => i = j
      BY <2>3, <2>7, <2>8 DEF AnswerInv
    <3>3. \A j \in DOMAIN ready_to_reduce' : responses'[i].keys[1] # ready_to_reduce'[j]
      <4>1. \A j \in DOMAIN ready_to_reduce' :
              \E n \in DOMAIN ready_to_reduce : ready_to_reduce'[j] = ready_to_reduce[n]
        BY <2>1, <2>5
      <4> QED
        BY <2>3, <2>6, <2>7, <4>1 DEF AnswerInv
    <3> QED
      BY <3>1, <3>2, <3>3
  <2> QED
    BY <2>1, <2>4, <2>9, AnswerFrame DEF AnswerInv
<1>5. CASE ConstructDone
  <2>1. /\ bpc'[Master] = "fuse" /\ ready_to_reduce = <<>>
        /\ UNCHANGED <<responses, response_list, ready_to_reduce, todo, bcast>>
    BY <1>0, <1>5 DEF ConstructDone
  <2> QED
    BY <2>1, AnswerFrame DEF AnswerInv
<1>6. CASE FuseNext
  <2> DEFINE new == Head(responses)
             c   == new.keys[1]
             n   == Len(response_list)
  <2>1. /\ bpc[Master] = "fuse" /\ responses # <<>>
        /\ UNCHANGED <<ready_to_reduce, todo, bcast>>
    BY <1>6 DEF FuseNext
  <2>2. \/ bpc' = [bpc EXCEPT ![Master] = "aborted"] /\ UNCHANGED <<responses, response_list>>
        \/ /\ responses' = Tail(responses) /\ UNCHANGED bpc
           /\ Extending
           /\ response_list' = [response_list EXCEPT ![n] = WithKey(Last, c)]
        \/ /\ responses' = Tail(responses) /\ UNCHANGED bpc
           /\ response_list' = Append(response_list, new)
    <3>1. \/ MasterGoto("aborted") /\ UNCHANGED fuseVars
          \/ /\ responses' = Tail(responses) /\ UNCHANGED bpc
             /\ Fuses(new)
             /\ response_list' = [response_list EXCEPT
                   ![Len(response_list)] = WithKey(Last, new.keys[1])]
          \/ /\ responses' = Tail(responses) /\ UNCHANGED bpc
             /\ response_list' = Append(response_list, new)
      BY <1>6, Zenon DEF FuseNext
    <3>2. Fuses(new) => Extending
      BY Zenon DEF Fuses
    <3> QED
      BY <3>1, <3>2
  <2>3. ready_to_reduce = <<>>
    BY <2>1 DEF AnswerInv
  <2>4. CASE bpc' = [bpc EXCEPT ![Master] = "aborted"] /\ UNCHANGED <<responses, response_list>>
    <3>1. bpc'[Master] = "aborted"
      BY <1>0, <2>4
    <3> QED
      BY <2>1, <2>3, <2>4, <3>1, AnswerFrame DEF AnswerInv
  <2>5. /\ 1 \in DOMAIN responses /\ new = responses[1]
        /\ \A j \in DOMAIN Tail(responses) : /\ j + 1 \in DOMAIN responses /\ j + 1 # 1
                                             /\ Tail(responses)[j] = responses[j + 1]
        /\ \A i, j \in DOMAIN Tail(responses) : i + 1 = j + 1 => i = j
    BY <1>0, <2>1, HeadTailProperties, LenProperties, EmptySeq
  <2>6. Len(new.keys) = 1 /\ new \in Response /\ new.keys \in Seq(KeySet)
    <3>1. new \in Response
      BY <1>0, <2>5, ElementOfSeq, LenProperties
    <3> QED
      BY <2>5, <3>1 DEF AnswerInv, Response
  <2>7. new.keys = <<c>> /\ DOMAIN new.keys = {1}
    BY <2>6, LenProperties, SeqDef
  <2> HIDE DEF new, c, n
  \* What is left of responses has none of the names the list has after the step.
  <2>8. ASSUME responses' = Tail(responses), UNCHANGED bpc,
               \A j \in DOMAIN response_list' : \A m \in DOMAIN response_list'[j].keys :
                   \/ response_list'[j].keys[m] = c
                   \/ \E p \in DOMAIN response_list : \E o \in DOMAIN response_list[p].keys :
                         response_list'[j].keys[m] = response_list[p].keys[o]
        PROVE  AnswerInv'
    <3> SUFFICES ASSUME NEW i \in DOMAIN responses'
                 PROVE  /\ Len(responses'[i].keys) = 1
                        /\ \A j \in DOMAIN responses' :
                              responses'[i].keys[1] = responses'[j].keys[1] => i = j
                        /\ \A j \in DOMAIN response_list' : \A m \in DOMAIN response_list'[j].keys :
                              responses'[i].keys[1] # response_list'[j].keys[m]
      BY <2>1, <2>3, <2>8 DEF AnswerInv
    <3>1. i + 1 \in DOMAIN responses /\ responses'[i] = responses[i + 1]
      BY <2>5, <2>8
    <3>2. Len(responses'[i].keys) = 1
      BY <3>1 DEF AnswerInv
    <3>3. \A j \in DOMAIN responses' : responses'[i].keys[1] = responses'[j].keys[1] => i = j
      BY <2>5, <2>8, <3>1 DEF AnswerInv
    <3>4. responses[i + 1].keys[1] # c
      <4>1. i + 1 # 1
        BY <2>5, <2>8
      <4> QED
        BY <2>5, <3>1, <4>1 DEF AnswerInv, c
    <3>5. \A j \in DOMAIN response_list' : \A m \in DOMAIN response_list'[j].keys :
            responses'[i].keys[1] # response_list'[j].keys[m]
      BY <2>8, <3>1, <3>4 DEF AnswerInv
    <3> QED
      BY <3>2, <3>3, <3>5
  <2>9. CASE /\ responses' = Tail(responses) /\ UNCHANGED bpc
             /\ response_list' = Append(response_list, new)
    <3>1. \A j \in DOMAIN response_list' :
            \/ j \in DOMAIN response_list /\ response_list'[j] = response_list[j]
            \/ response_list'[j] = new
      BY <1>0, <2>6, <2>9
    <3>2. AnswerInv'
      BY <2>7, <2>8, <2>9, <3>1
    <3>3. DistinctKeys(new)
      BY <2>7 DEF DistinctKeys
    <3>4. \A j \in DOMAIN response_list' : DistinctKeys(response_list'[j])
      BY <3>1, <3>3 DEF DistinctInv
    <3> QED
      BY <2>1, <3>2, <3>4 DEF DistinctInv, DistinctKeys
  <2>10. CASE /\ responses' = Tail(responses) /\ UNCHANGED bpc
              /\ Extending
              /\ response_list' = [response_list EXCEPT ![n] = WithKey(Last, c)]
    <3> DEFINE w == WithKey(Last, c)
    <3>1. n \in DOMAIN response_list /\ Last = response_list[n] /\ Last \in Response
      BY <1>0, <2>10, LenProperties, EmptySeq, ElementOfSeq DEF Extending, Last, n
    <3>2. w.keys = Append(Last.keys, c) /\ Last.keys \in Seq(KeySet) /\ c \in KeySet
      BY <2>6, <3>1, ElementOfSeq DEF WithKey, Response, c
    <3>3. \A m \in DOMAIN w.keys : \/ m \in DOMAIN Last.keys /\ w.keys[m] = Last.keys[m]
                                   \/ m = Len(Last.keys) + 1 /\ w.keys[m] = c
      BY <3>2
    <3> HIDE DEF w
    <3>4. \A j \in DOMAIN response_list' :
            j \in DOMAIN response_list /\ response_list'[j] = IF j = n THEN w ELSE response_list[j]
      BY <2>10, <3>1 DEF w
    <3>5. AnswerInv'
      BY <2>8, <2>10, <3>1, <3>3, <3>4
    <3>6. \A m \in DOMAIN Last.keys : Last.keys[m] # c
      BY <2>5, <3>1 DEF AnswerInv, c
    <3>7. DistinctKeys(w)
      BY <3>1, <3>3, <3>6 DEF DistinctInv, DistinctKeys
    <3>8. \A j \in DOMAIN response_list' : DistinctKeys(response_list'[j])
      BY <3>4, <3>7 DEF DistinctInv
    <3> QED
      BY <2>1, <3>5, <3>8 DEF DistinctInv, DistinctKeys
  <2> QED
    BY <2>2, <2>4, <2>9, <2>10
<1>7. CASE Broadcast
  <2> DEFINE list == [responses   |-> response_list,
                      shutdown    |-> should_shut_down[Master],
                      change_topo |-> should_change_topo[Master]]
  <2>1. /\ responses = <<>> /\ bpc[Master] = "fuse" /\ response_list' = <<>>
        /\ todo' = [todo EXCEPT ![Master] = response_list]
        /\ bcast' = [s \in Rank |-> IF s \in Workers THEN Append(bcast[s], list) ELSE bcast[s]]
        /\ UNCHANGED <<responses, ready_to_reduce>>
    BY <1>7 DEF Broadcast
  <2>2. AnswerInv'
    BY <2>1 DEF AnswerInv
  <2>3. list.responses = response_list /\ list \in ResponseList
    <3>1. should_shut_down[Master] \in BOOLEAN /\ should_change_topo[Master] \in BOOLEAN
      BY DEF IndInv, TypeOK, LocalOK
    <3> QED
      BY <1>0, <3>1 DEF ResponseList
  <2> HIDE DEF list
  <2>4. \A q \in Rank : \A i \in DOMAIN todo'[q] : DistinctKeys(todo'[q][i])
    BY <1>0, <2>1 DEF DistinctInv
  <2>5. \A q \in Rank : \A n \in DOMAIN bcast'[q] :
          (n \in DOMAIN bcast[q] /\ bcast'[q][n] = bcast[q][n]) \/ bcast'[q][n] = list
    BY <1>0, <2>1, <2>3
  <2>6. \A q \in Rank : \A n \in DOMAIN bcast'[q] : \A i \in DOMAIN bcast'[q][n].responses :
          DistinctKeys(bcast'[q][n].responses[i])
    <3> SUFFICES ASSUME NEW q \in Rank, NEW n \in DOMAIN bcast'[q],
                        NEW i \in DOMAIN bcast'[q][n].responses
                 PROVE  DistinctKeys(bcast'[q][n].responses[i])
      OBVIOUS
    <3>1. CASE n \in DOMAIN bcast[q] /\ bcast'[q][n] = bcast[q][n]
      BY <3>1 DEF DistinctInv
    <3>2. CASE bcast'[q][n] = list
      BY <2>3, <3>2 DEF DistinctInv
    <3> QED
      BY <2>5, <3>1, <3>2
  <2> QED
    BY <2>1, <2>2, <2>4, <2>6 DEF DistinctInv, DistinctKeys
<1> QED
  BY <1>1, <1>2, <1>3, <1>4, <1>5, <1>6, <1>7 DEF CoordinatorStep

LEMMA AnswerInit == Init => AnswerInv /\ DistinctInv
<1>1. DOMAIN <<>> = {}
  OBVIOUS
<1> QED
  BY <1>1 DEF Init, AnswerInv, DistinctInv

LEMMA AnswerStep ==
    IndInv /\ AnswerInv /\ DistinctInv /\ [Next]_vars => AnswerInv' /\ DistinctInv'
<1> SUFFICES ASSUME IndInv, AnswerInv, DistinctInv, [Next]_vars
             PROVE  AnswerInv' /\ DistinctInv'
  OBVIOUS
<1>1. CASE UNCHANGED vars
  BY <1>1, AnswerFrame DEF vars, execVars, countVars, fuseVars, mpiVars
<1>2. CASE Terminating
  BY <1>1, <1>2 DEF Terminating
<1>3. TypeOK
  BY DEF IndInv
<1> QED
  BY <1>1, <1>2, <1>3, AnswerUser, AnswerBackground, AnswerCoordinator DEF Next

-----------------------------------------------------------------------------
(* Who holds a handle *)

HandleType ==
    /\ IdleInv
    /\ DOMAIN tensor_table = Rank
    /\ \A r \in Rank : \A k \in DOMAIN tensor_table[r] : tensor_table[r][k] \in Entry
    /\ bpc \in [Rank -> BPC]
    /\ mpc \in [Rank -> MPC]
    /\ entries \in [Rank -> Seq(Entry)]
    /\ running \in [Rank -> Seq(Entry)]
    /\ status \in [Rank -> Seq(Status)]

LEMMA HandleTypes == TypeOK /\ IdleInv => HandleType
BY DEF TypeOK, UserOK, QueueOK, LocalOK, ExecOK, HandleType

LEMMA HeldNat ==
    ASSUME NEW r \in Rank, NEW h, HandleType
    PROVE  /\ InTable(r, h) \in Nat /\ InEntries(r, h) \in Nat /\ InRunning(r, h) \in Nat
           /\ InCall(r, h) \in {0, 1} /\ Pending(r, h) \in {0, 1} /\ Stored(r, h) \in Nat
<1>1. InTable(r, h) \in Nat
  BY CountMap DEF HandleType, IdleInv, InTable
<1>2. InEntries(r, h) \in Nat /\ InRunning(r, h) \in Nat
  BY CountType DEF HandleType, InEntries, InRunning
<1>3. InCall(r, h) \in {0, 1} /\ Pending(r, h) \in {0, 1}
  BY DEF InCall, Pending
<1> QED
  BY <1>1, <1>2, <1>3 DEF Stored

\* A rank whose table, entries and handles stay as they are.
LEMMA HandlesFrame ==
    ASSUME NEW r \in Rank, HandlesOf(r),
           tensor_table'[r] = tensor_table[r], entries'[r] = entries[r],
           running'[r] = running[r], status'[r] = status[r],
           mpc'[r] = "add" <=> mpc[r] = "add"
    PROVE  HandlesOf(r)'
BY DEF HandlesOf, Held, Stored, InTable, InEntries, InRunning, InCall, Pending

\* Entries that change their place.
LEMMA HandlesMove ==
    ASSUME NEW r \in Rank, HandlesOf(r), status'[r] = status[r], mpc'[r] = mpc[r],
           \A h \in Nat \ {0} : Stored(r, h)' = Stored(r, h)
    PROVE  HandlesOf(r)'
BY DEF HandlesOf, Held, InCall, Pending

\* The handles after the callbacks of a batch.
LEMMA CallbackPending ==
    ASSUME NEW r \in Rank, HandleType, NEW batch \in Seq(Entry), NEW st,
           st # "pending", Callback(r, batch, st), NEW h \in Nat \ {0}
    PROVE  /\ DOMAIN status'[r] = DOMAIN status[r]
           /\ Pending(r, h)' = IF Count(batch, Entries(h)) = 0 THEN Pending(r, h) ELSE 0
<1>1. status'[r] = [g \in DOMAIN status[r] |->
                      IF \E i \in DOMAIN batch : batch[i].handle = g THEN st ELSE status[r][g]]
  BY DEF Callback, HandleType
<1>2. Count(batch, Entries(h)) = 0 <=> \A i \in DOMAIN batch : batch[i] \notin Entries(h)
  BY CountPositive
<1>3. \A i \in DOMAIN batch : batch[i] \in Entries(h) <=> batch[i].handle = h
  BY ElementOfSeq, LenProperties DEF Entries
<1>4. DOMAIN status'[r] = DOMAIN status[r]
  BY <1>1
<1>5. CASE h \in DOMAIN status[r]
  <2>1. status'[r][h] = IF Count(batch, Entries(h)) = 0 THEN status[r][h] ELSE st
    BY <1>1, <1>2, <1>3, <1>5
  <2> QED
    BY <1>4, <1>5, <2>1 DEF Pending
<1>6. CASE h \notin DOMAIN status[r]
  BY <1>4, <1>6 DEF Pending
<1> QED
  BY <1>4, <1>5, <1>6

LEMMA HandlesDone ==
    ASSUME NEW r \in Rank, HandleType, HandlesOf(r), NEW batch \in Seq(Entry), NEW st,
           st # "pending", Callback(r, batch, st), mpc'[r] = mpc[r],
           \A h \in Nat \ {0} : /\ Stored(r, h)' \in Nat
                                /\ Stored(r, h) = Stored(r, h)' + Count(batch, Entries(h))
    PROVE  HandlesOf(r)'
<1> SUFFICES ASSUME NEW h \in Nat \ {0} PROVE Held(r, h)' = Pending(r, h)'
  BY DEF HandlesOf
<1>1. /\ DOMAIN status'[r] = DOMAIN status[r]
      /\ Pending(r, h)' = IF Count(batch, Entries(h)) = 0 THEN Pending(r, h) ELSE 0
  BY CallbackPending
<1>2. InCall(r, h)' = InCall(r, h)
  <2>1. status'[r] \in Seq({"pending", "ok", "error", "shutdown", "rejected", st})
        /\ status[r] \in Seq(Status)
    <3>1. status[r] \in Seq(Status)
      BY DEF HandleType
    <3>2. status'[r] = [g \in DOMAIN status[r] |->
            IF \E i \in DOMAIN batch : batch[i].handle = g THEN st ELSE status[r][g]]
      BY DEF Callback, HandleType
    <3>3. \A g \in DOMAIN status[r] :
            status'[r][g] \in {"pending", "ok", "error", "shutdown", "rejected", st}
      BY <3>1, <3>2, ElementOfSeq, LenProperties DEF Status
    <3>4. status'[r] = [g \in DOMAIN status[r] |-> status'[r][g]]
      BY <3>2
    <3> DEFINE f == status'[r]
               T == {"pending", "ok", "error", "shutdown", "rejected", st}
    <3>5. f = [g \in DOMAIN status[r] |-> f[g]] /\ \A g \in DOMAIN status[r] : f[g] \in T
      BY <3>3, <3>4
    <3> HIDE DEF f, T
    <3>6. f \in Seq(T)
      BY <3>1, <3>5, MapSeq
    <3> QED
      BY <3>1, <3>6 DEF f, T
  <2>2. Len(status'[r]) = Len(status[r])
    BY <1>1, <2>1, LenProperties
  <2> QED
    BY <2>2 DEF InCall
<1>3. Count(batch, Entries(h)) \in Nat
  BY CountType
<1>4. /\ Stored(r, h) + InCall(r, h) = Pending(r, h)
      /\ Stored(r, h) = Stored(r, h)' + Count(batch, Entries(h)) /\ Stored(r, h)' \in Nat
  BY DEF HandlesOf, Held
<1>5. InCall(r, h) \in {0, 1} /\ Pending(r, h) \in {0, 1}
  BY HeldNat
<1>6. Stored(r, h)' + InCall(r, h)' = Pending(r, h)'
  BY <1>1, <1>2, <1>3, <1>4, <1>5
<1> QED
  BY <1>6 DEF Held

\* PerformOperation of a batch that has left the table or the entries.
LEMMA HandlesPerform ==
    ASSUME NEW r \in Rank, HandleType, HandlesOf(r), NEW batch \in Seq(Entry), NEW pc,
           Perform(r, batch, pc), bpc'[r] # "aborted", mpc'[r] = mpc[r], running[r] = <<>>,
           \A h \in Nat \ {0} :
              /\ InTable(r, h)' \in Nat /\ InEntries(r, h)' \in Nat
              /\ InTable(r, h) + InEntries(r, h)
                 = InTable(r, h)' + InEntries(r, h)' + Count(batch, Entries(h))
    PROVE  HandlesOf(r)'
<1>1. \A h : InRunning(r, h) = 0
  BY CountEmpty DEF InRunning
<1>2. \/ (Callback(r, batch, "error") \/ Callback(r, batch, "ok")) /\ UNCHANGED running
      \/ running' = [running EXCEPT ![r] = batch] /\ UNCHANGED status
  BY DEF Perform, BGoto, HandleType
<1>3. \A h \in Nat \ {0} : InTable(r, h) \in Nat /\ InEntries(r, h) \in Nat
                           /\ Count(batch, Entries(h)) \in Nat
  BY HeldNat, CountType
<1>4. CASE (Callback(r, batch, "error") \/ Callback(r, batch, "ok")) /\ UNCHANGED running
  <2>1. \A h : InRunning(r, h)' = 0
    BY <1>4, CountEmpty DEF InRunning
  <2>2. \A h \in Nat \ {0} : /\ Stored(r, h)' \in Nat
                             /\ Stored(r, h) = Stored(r, h)' + Count(batch, Entries(h))
    BY <1>1, <1>3, <2>1, SMTT(30) DEF Stored
  <2> QED
    BY <1>4, <2>2, HandlesDone
<1>5. CASE running' = [running EXCEPT ![r] = batch] /\ UNCHANGED status
  <2>1. \A h : InRunning(r, h)' = Count(batch, Entries(h))
    BY <1>5 DEF InRunning, HandleType
  <2>2. ASSUME NEW h \in Nat \ {0} PROVE Stored(r, h)' = Stored(r, h)
    <3>1. /\ InTable(r, h) + InEntries(r, h)
             = InTable(r, h)' + InEntries(r, h)' + Count(batch, Entries(h))
          /\ InRunning(r, h) = 0 /\ InRunning(r, h)' = Count(batch, Entries(h))
      BY <1>1, <2>1
    <3>2. InTable(r, h) \in Nat /\ InEntries(r, h) \in Nat
      BY <1>3
    <3>3. /\ Stored(r, h) = InTable(r, h) + InEntries(r, h) + InRunning(r, h)
          /\ Stored(r, h)' = InTable(r, h)' + InEntries(r, h)' + InRunning(r, h)'
      BY DEF Stored
    <3> QED
      BY <3>1, <3>2, <3>3
  <2> QED
    BY <1>5, <2>2, HandlesMove
<1> QED
  BY <1>2, <1>4, <1>5

\* A step of rank r leaves the handles of the others alone.
LEMMA HandlesLocal ==
    ASSUME NEW r \in Rank, HandleInv,
           \A q \in Rank \ {r} :
              /\ tensor_table'[q] = tensor_table[q] /\ entries'[q] = entries[q]
              /\ running'[q] = running[q] /\ status'[q] = status[q]
              /\ mpc'[q] = mpc[q] /\ bpc'[q] = bpc[q],
           bpc'[r] # "aborted" => HandlesOf(r)'
    PROVE  HandleInv'
<1> SUFFICES ASSUME NEW q \in Rank, bpc'[q] # "aborted" PROVE HandlesOf(q)'
  BY DEF HandleInv
<1>1. CASE q = r
  BY <1>1
<1>2. CASE q # r
  BY <1>2, HandlesFrame DEF HandleInv
<1> QED
  BY <1>1, <1>2

LEMMA IdleFrame ==
    ASSUME IdleInv, UNCHANGED <<tensor_table, running>>,
           \A q \in Rank : running[q] # <<>> => bpc'[q] = bpc[q]
    PROVE  IdleInv'
BY DEF IdleInv

LEMMA HandlesEnqueue ==
    ASSUME NEW r \in Rank, HandleType, HandleInv, EnqueueFail(r) \/ EnqueueBegin(r)
    PROVE  IdleInv' /\ HandleInv'
<1> USE DEF backgroundVars, localVars, execVars, queueVars
<1>1. /\ UNCHANGED <<tensor_table, entries, running, bpc>>
      /\ mpc[r] = "run"
      /\ \/ /\ status' = [status EXCEPT ![r] = Append(status[r], "rejected")]
            /\ mpc' = [mpc EXCEPT ![r] = "run"]
         \/ /\ status' = [status EXCEPT ![r] = Append(status[r], "pending")]
            /\ mpc' = [mpc EXCEPT ![r] = "add"]
  BY DEF EnqueueFail, EnqueueBegin, Calls, At, Allocate, Return, Goto
<1>2. IdleInv'
  BY <1>1, IdleFrame DEF HandleType
<1>3. ASSUME bpc'[r] # "aborted" PROVE HandlesOf(r)'
  <2> SUFFICES ASSUME NEW h \in Nat \ {0} PROVE Held(r, h)' = Pending(r, h)'
    BY DEF HandlesOf
  <2>1. Stored(r, h)' = Stored(r, h)
    BY <1>1 DEF Stored, InTable, InEntries, InRunning
  <2>2. Stored(r, h) + InCall(r, h) = Pending(r, h) /\ InCall(r, h) = 0
    BY <1>1, <1>3 DEF HandleInv, HandlesOf, Held, InCall
  <2>3. Stored(r, h) \in Nat /\ Pending(r, h) \in {0, 1}
    BY HeldNat
  <2>4. status[r] \in Seq(Status) /\ Len(status[r]) \in Nat
        /\ DOMAIN status[r] = 1 .. Len(status[r])
    BY LenProperties DEF HandleType
  <2>5. CASE /\ status' = [status EXCEPT ![r] = Append(status[r], "rejected")]
             /\ mpc' = [mpc EXCEPT ![r] = "run"]
    <3>1. status'[r] = Append(status[r], "rejected") /\ mpc'[r] = "run"
      BY <2>5 DEF HandleType
    <3>2. InCall(r, h)' = 0
      BY <3>1 DEF InCall
    <3>3. Pending(r, h)' = Pending(r, h)
      BY <2>4, <3>1 DEF Pending, Status
    <3> QED
      BY <2>1, <2>2, <2>3, <3>2, <3>3 DEF Held
  <2>6. CASE /\ status' = [status EXCEPT ![r] = Append(status[r], "pending")]
             /\ mpc' = [mpc EXCEPT ![r] = "add"]
    <3>1. status'[r] = Append(status[r], "pending") /\ mpc'[r] = "add"
      BY <2>6 DEF HandleType
    <3>2. InCall(r, h)' = IF h = Len(status[r]) + 1 THEN 1 ELSE 0
      BY <2>4, <3>1 DEF InCall, Status
    <3>3. Pending(r, h)' = IF h = Len(status[r]) + 1 THEN 1 ELSE Pending(r, h)
      BY <2>4, <3>1 DEF Pending, Status
    <3>4. h = Len(status[r]) + 1 => Pending(r, h) = 0
      BY <2>4 DEF Pending
    <3> QED
      BY <2>1, <2>2, <2>3, <3>2, <3>3, <3>4 DEF Held
  <2> QED
    BY <1>1, <2>5, <2>6
<1>4. HandleInv'
  BY <1>1, <1>3, HandlesLocal DEF HandleType
<1> QED
  BY <1>2, <1>4

LEMMA HandlesAdd ==
    ASSUME NEW r \in Rank, IndInv, HandleType, NoOverlap, HandleInv, AddToTensorQueue(r)
    PROVE  IdleInv' /\ HandleInv'
<1> USE DEF backgroundVars, localVars, execVars, queueVars
<1> DEFINE op == Head(program[r]).op
           n  == Len(status[r])
           e  == [key |-> Key(op), op |-> op, handle |-> n]
<1>1. /\ UNCHANGED <<entries, running, bpc>>
      /\ mpc[r] = "add" /\ mpc' = [mpc EXCEPT ![r] = "run"]
      /\ \/ /\ status' = [status EXCEPT ![r][n] = "rejected"] /\ UNCHANGED tensor_table
         \/ /\ ~IsDuplicate(r, op) /\ UNCHANGED status
            /\ tensor_table' = [tensor_table EXCEPT ![r] = Emplace(tensor_table[r], e)]
  BY DEF AddToTensorQueue, At, Return
<1>2. /\ status[r] \in Seq(Status) /\ n \in Nat \ {0} /\ DOMAIN status[r] = 1 .. n
      /\ n \in DOMAIN status[r]
  BY <1>1, LenProperties, EmptySeq DEF HandleType, IndInv, CallInv
<1>3. e \in Entry /\ e.handle = n
  BY <1>1, <1>2, AddedOp, RequestOfType DEF Entry
<1>4. Key(op) \in DOMAIN tensor_table[r] => IsDuplicate(r, op)
  BY <1>1 DEF NoOverlap
<1> HIDE DEF op
<1>5. mpc'[r] = "run"
  BY <1>1 DEF HandleType
<1>6. \A h \in Nat \ {0} : /\ InCall(r, h)' = 0
                           /\ InCall(r, h) = IF h = n THEN 1 ELSE 0
                           /\ InEntries(r, h)' = InEntries(r, h)
                           /\ InRunning(r, h)' = InRunning(r, h)
  BY <1>1, <1>5 DEF InCall, InEntries, InRunning
<1>7. CASE status' = [status EXCEPT ![r][n] = "rejected"] /\ UNCHANGED tensor_table
  <2>1. IdleInv'
    BY <1>1, <1>7, IdleFrame DEF HandleType
  <2>2. status'[r] = [status[r] EXCEPT ![n] = "rejected"]
        /\ \A q \in Rank \ {r} : status'[q] = status[q]
    BY <1>7 DEF HandleType
  <2> HIDE DEF n
  <2>3. ASSUME NEW h \in Nat \ {0}, bpc[r] # "aborted" PROVE Held(r, h)' = Pending(r, h)'
    <3>1. Pending(r, h)' = IF h = n THEN 0 ELSE Pending(r, h)
      BY <1>2, <2>2 DEF Pending
    <3>2. Stored(r, h)' = Stored(r, h)
      BY <1>6, <1>7 DEF Stored, InTable
    <3>3. Stored(r, h) + InCall(r, h) = Pending(r, h)
      BY <2>3 DEF HandleInv, HandlesOf, Held
    <3>4. Stored(r, h) \in Nat /\ Pending(r, h) \in {0, 1}
      BY HeldNat
    <3> QED
      BY <1>6, <3>1, <3>2, <3>3, <3>4 DEF Held
  <2>4. bpc'[r] # "aborted" => HandlesOf(r)'
    BY <1>1, <2>3 DEF HandlesOf
  <2>5. HandleInv'
    BY <1>1, <1>7, <2>2, <2>4, HandlesLocal DEF HandleType
  <2> QED
    BY <2>1, <2>5
<1>8. CASE /\ ~IsDuplicate(r, op) /\ UNCHANGED status
           /\ tensor_table' = [tensor_table EXCEPT ![r] = Emplace(tensor_table[r], e)]
  <2>1. /\ tensor_table'[r] = Put(tensor_table[r], Key(op), e)
        /\ Key(op) \notin DOMAIN tensor_table[r]
        /\ \A q \in Rank \ {r} : tensor_table'[q] = tensor_table[q]
    BY <1>4, <1>8 DEF HandleType, Emplace
  <2> HIDE DEF e
  <2>2. IsFiniteSet(DOMAIN tensor_table[r])
    BY DEF HandleType, IdleInv
  <2>3. /\ IsFiniteSet(DOMAIN tensor_table'[r])
        /\ \A P : Count(tensor_table'[r], P) = Count(tensor_table[r], P) + (IF e \in P THEN 1 ELSE 0)
    BY <2>1, <2>2, CountPut
  <2>4. IdleInv'
    BY <1>1, <2>1, <2>3 DEF HandleType, IdleInv
  <2>5. ASSUME NEW h \in Nat \ {0}, bpc[r] # "aborted" PROVE Held(r, h)' = Pending(r, h)'
    <3>1. InTable(r, h)' = InTable(r, h) + (IF h = n THEN 1 ELSE 0)
      <4>1. e \in Entries(h) <=> h = n
        BY <1>3 DEF Entries
      <4> QED
        BY <2>3, <4>1 DEF InTable
    <3>2. Pending(r, h)' = Pending(r, h)
      BY <1>8 DEF Pending
    <3>3. Stored(r, h) + InCall(r, h) = Pending(r, h)
      BY <2>5 DEF HandleInv, HandlesOf, Held
    <3>4. InTable(r, h) \in Nat /\ InEntries(r, h) \in Nat /\ InRunning(r, h) \in Nat
          /\ Pending(r, h) \in {0, 1}
      BY HeldNat
    <3>5. /\ Stored(r, h) = InTable(r, h) + InEntries(r, h) + InRunning(r, h)
          /\ Held(r, h)' = InTable(r, h)' + InEntries(r, h)' + InRunning(r, h)' + InCall(r, h)'
      BY DEF Held, Stored
    <3>6. /\ InCall(r, h)' = 0 /\ InCall(r, h) = IF h = n THEN 1 ELSE 0
          /\ InEntries(r, h)' = InEntries(r, h) /\ InRunning(r, h)' = InRunning(r, h)
      BY <1>6
    <3> HIDE DEF n
    <3>7. CASE h = n
      BY <3>1, <3>2, <3>3, <3>4, <3>5, <3>6, <3>7
    <3>8. CASE h # n
      BY <3>1, <3>2, <3>3, <3>4, <3>5, <3>6, <3>8
    <3> QED
      BY <3>7, <3>8
  <2>6. bpc'[r] # "aborted" => HandlesOf(r)'
    BY <1>1, <2>5 DEF HandlesOf
  <2>7. HandleInv'
    BY <1>1, <1>8, <2>1, <2>6, HandlesLocal DEF HandleType
  <2> QED
    BY <2>4, <2>7
<1> QED
  BY <1>1, <1>7, <1>8

LEMMA HandlesUser ==
    ASSUME NEW r \in Rank, IndInv, HandleType, NoOverlap, HandleInv, UserStep(r)
    PROVE  IdleInv' /\ HandleInv'
<1>1. CASE EnqueueFail(r) \/ EnqueueBegin(r)
  BY <1>1, HandlesEnqueue
<1>2. CASE AddToTensorQueue(r)
  BY <1>2, HandlesAdd
<1>3. CASE ~(EnqueueFail(r) \/ EnqueueBegin(r) \/ AddToTensorQueue(r))
  <2>1. /\ UNCHANGED status
        /\ mpc[r] # "add"
        /\ \E pc \in MPC \ {"add"} : mpc' = [mpc EXCEPT ![r] = pc]
    BY <1>3 DEF UserStep, Synchronize, SetTopologyRefused, SetTopologyBegin,
       SetTopologyUnfinished, SetTopologyEnter, SetTopologyLeave, ClosePause,
       SkipNegotiateNow, SkipNegotiateBegin, SkipNegotiateApply, SuspendOrResume, Shutdown,
       Join, RequestPause, EndPause, Goto, Return, Calls, Paused, At, MPC
  <2>2. UNCHANGED <<tensor_table, entries, running, bpc>>
    BY <1>3, UserFrame DEF queueVars, backgroundVars, execVars
  <2>3. \A q \in Rank : mpc'[q] = "add" <=> mpc[q] = "add"
    BY <2>1 DEF HandleType
  <2>4. IdleInv'
    BY <2>2, IdleFrame DEF HandleType
  <2>5. HandleInv'
    BY <2>1, <2>2, <2>3, HandlesFrame DEF HandleInv
  <2> QED
    BY <2>4, <2>5
<1> QED
  BY <1>1, <1>2, <1>3

LEMMA HandlesConvert ==
    ASSUME NEW r \in Rank, IndInv, HandleType, HandleInv, ConvertNext(r)
    PROVE  IdleInv' /\ HandleInv'
<1> USE DEF BGoto
<1> DEFINE k == buffer[r][index[r]].key
<1>1. /\ bpc[r] = "convert" /\ UNCHANGED <<status, mpc, running>>
      /\ \/ bpc' = [bpc EXCEPT ![r] = "aborted"] /\ UNCHANGED <<tensor_table, entries>>
         \/ UNCHANGED <<bpc, tensor_table, entries>>
         \/ /\ k \in DOMAIN tensor_table[r] /\ UNCHANGED bpc
            /\ entries' = [entries EXCEPT ![r] = Append(entries[r], tensor_table[r][k])]
            /\ tensor_table' = [tensor_table EXCEPT ![r] = Erase(tensor_table[r], k)]
  BY DEF ConvertNext, userVars
<1> HIDE DEF k
<1>2. running[r] = <<>>
  BY <1>1 DEF HandleType, IdleInv
<1>3. CASE bpc' = [bpc EXCEPT ![r] = "aborted"] /\ UNCHANGED <<tensor_table, entries>>
  <2>1. IdleInv'
    BY <1>1, <1>2, <1>3, IdleFrame DEF HandleType
  <2>2. bpc'[r] = "aborted"
    BY <1>3 DEF HandleType
  <2> QED
    BY <1>1, <1>3, <2>1, <2>2, HandlesLocal DEF HandleType
<1>4. CASE UNCHANGED <<bpc, tensor_table, entries>>
  BY <1>1, <1>4, IdleFrame, HandlesFrame DEF HandleType, HandleInv
<1>5. CASE /\ k \in DOMAIN tensor_table[r] /\ UNCHANGED bpc
           /\ entries' = [entries EXCEPT ![r] = Append(entries[r], tensor_table[r][k])]
           /\ tensor_table' = [tensor_table EXCEPT ![r] = Erase(tensor_table[r], k)]
  <2>1. /\ entries'[r] = Append(entries[r], tensor_table[r][k])
        /\ tensor_table'[r] = Erase(tensor_table[r], k)
        /\ \A q \in Rank \ {r} : entries'[q] = entries[q] /\ tensor_table'[q] = tensor_table[q]
    BY <1>5 DEF HandleType
  <2>2. /\ IsFiniteSet(DOMAIN tensor_table[r]) /\ entries[r] \in Seq(Entry)
        /\ tensor_table[r][k] \in Entry
    BY <1>5 DEF HandleType, IdleInv
  <2>3. IsFiniteSet(DOMAIN tensor_table'[r])
    BY <1>5, <2>1, <2>2, CountErase
  <2>4. IdleInv'
    BY <1>1, <1>5, <2>1, <2>3 DEF HandleType, IdleInv
  <2>5. ASSUME NEW h \in Nat \ {0} PROVE Stored(r, h)' = Stored(r, h)
    <3> DEFINE d == IF tensor_table[r][k] \in Entries(h) THEN 1 ELSE 0
    <3>1. InTable(r, h) = InTable(r, h)' + d
      BY <1>5, <2>1, <2>2, CountErase DEF InTable
    <3>2. InEntries(r, h)' = InEntries(r, h) + d
      BY <2>1, <2>2, CountAppend DEF InEntries
    <3>3. InTable(r, h)' \in Nat
      BY <2>3, CountMap DEF InTable
    <3>4. d \in Nat /\ InRunning(r, h)' = InRunning(r, h)
      BY <1>1 DEF InRunning
    <3>5. InEntries(r, h) \in Nat /\ InRunning(r, h) \in Nat
      BY HeldNat
    <3> HIDE DEF d
    <3>6. /\ Stored(r, h) = InTable(r, h) + InEntries(r, h) + InRunning(r, h)
          /\ Stored(r, h)' = InTable(r, h)' + InEntries(r, h)' + InRunning(r, h)'
      BY DEF Stored
    <3> QED
      BY <3>1, <3>2, <3>3, <3>4, <3>5, <3>6
  <2>6. HandlesOf(r)'
    BY <1>1, <2>5, HandlesMove DEF HandleInv
  <2> QED
    BY <1>1, <1>5, <2>1, <2>4, <2>6, HandlesLocal
<1> QED
  BY <1>1, <1>3, <1>4, <1>5

LEMMA HandlesDirect ==
    ASSUME NEW r \in Rank, HandleType, HandleInv, PerformDirect(r)
    PROVE  IdleInv' /\ HandleInv'
<1> USE DEF BGoto
<1> DEFINE e == Head(entries[r])
<1>1. /\ bpc[r] = "direct" /\ entries[r] # <<>> /\ UNCHANGED <<mpc, tensor_table>>
      /\ entries' = [entries EXCEPT ![r] = Tail(entries[r])]
      /\ Perform(r, <<e>>, "directing")
  BY DEF PerformDirect, queueVars
<1>2. running[r] = <<>>
  BY <1>1 DEF HandleType, IdleInv
<1>3. entries[r] \in Seq(Entry) /\ e \in Entry /\ Tail(entries[r]) \in Seq(Entry)
      /\ <<e>> \in Seq(Entry)
  <2>1. entries[r] \in Seq(Entry) /\ e \in Entry /\ Tail(entries[r]) \in Seq(Entry)
    BY <1>1, HeadTailProperties DEF HandleType
  <2> HIDE DEF e
  <2> QED
    BY <2>1
<1>4. /\ entries'[r] = Tail(entries[r])
      /\ \A q \in Rank \ {r} : entries'[q] = entries[q]
  BY <1>1 DEF HandleType
<1>5. ASSUME NEW h
      PROVE  /\ InTable(r, h)' = InTable(r, h)
             /\ InEntries(r, h) = InEntries(r, h)' + Count(<<e>>, Entries(h))
             /\ InEntries(r, h)' \in Nat /\ InTable(r, h) \in Nat
  <2>1. InTable(r, h)' = InTable(r, h)
    BY <1>1 DEF InTable
  <2>2. Count(entries[r], Entries(h))
          = Count(Tail(entries[r]), Entries(h)) + (IF e \in Entries(h) THEN 1 ELSE 0)
    BY <1>1, <1>3, CountTail
  <2>3. Count(Tail(entries[r]), Entries(h)) \in Nat /\ InTable(r, h) \in Nat
    BY <1>3, CountType, HeldNat
  <2> HIDE DEF e
  <2> QED
    BY <1>4, <2>1, <2>2, <2>3, CountSingle DEF InEntries
<1> HIDE DEF e
<1>6. /\ \A q \in Rank \ {r} : running'[q] = running[q] /\ status'[q] = status[q] /\ bpc'[q] = bpc[q]
      /\ running'[r] # <<>> => bpc'[r] = "directing"
  BY <1>1, <1>2 DEF Perform, HandleType, Callback
<1>7. IdleInv'
  BY <1>1, <1>6 DEF HandleType, IdleInv
<1>8. ASSUME bpc'[r] # "aborted" PROVE HandlesOf(r)'
  <2>1. HandlesOf(r)
    BY <1>1 DEF HandleInv
  <2>2. \A h \in Nat \ {0} :
          /\ InTable(r, h)' \in Nat /\ InEntries(r, h)' \in Nat
          /\ InTable(r, h) + InEntries(r, h)
             = InTable(r, h)' + InEntries(r, h)' + Count(<<e>>, Entries(h))
    <3> TAKE h \in Nat \ {0}
    <3>1. Count(<<e>>, Entries(h)) \in Nat
      BY <1>3, CountType
    <3> QED
      BY <1>5, <3>1
  <2> QED
    BY <1>1, <1>2, <1>3, <1>8, <2>1, <2>2, HandlesPerform
<1> QED
  BY <1>1, <1>4, <1>6, <1>7, <1>8, HandlesLocal DEF HandleType

LEMMA HandlesCompleted ==
    ASSUME NEW r \in Rank, HandleType, HandleInv, Complete(r)
    PROVE  IdleInv' /\ HandleInv'
<1> USE DEF BGoto
<1>1. /\ bpc[r] \in {"directing", "responding"} /\ UNCHANGED <<mpc, tensor_table, entries>>
      /\ running' = [running EXCEPT ![r] = <<>>]
      /\ \/ /\ Callback(r, running[r], "error") \/ Callback(r, running[r], "ok")
            /\ \E pc \in {"direct", "respond"} : bpc' = [bpc EXCEPT ![r] = pc]
         \/ bpc' = [bpc EXCEPT ![r] = "aborted"] /\ UNCHANGED status
  BY DEF Complete, queueVars
<1>2. /\ running'[r] = <<>>
      /\ \A q \in Rank \ {r} : running'[q] = running[q] /\ status'[q] = status[q] /\ bpc'[q] = bpc[q]
  BY <1>1 DEF HandleType, Callback
<1>3. IdleInv'
  BY <1>1, <1>2 DEF HandleType, IdleInv
<1>4. ASSUME NEW h \in Nat \ {0}
      PROVE  /\ Stored(r, h)' \in Nat
             /\ Stored(r, h) = Stored(r, h)' + Count(running[r], Entries(h))
  <2>1. InTable(r, h)' = InTable(r, h) /\ InEntries(r, h)' = InEntries(r, h)
    BY <1>1 DEF InTable, InEntries
  <2>2. InRunning(r, h)' = 0 /\ InRunning(r, h) = Count(running[r], Entries(h))
    BY <1>2, CountEmpty DEF InRunning
  <2>3. InTable(r, h) \in Nat /\ InEntries(r, h) \in Nat /\ InRunning(r, h) \in Nat
    BY HeldNat
  <2>4. /\ Stored(r, h) = InTable(r, h) + InEntries(r, h) + InRunning(r, h)
        /\ Stored(r, h)' = InTable(r, h)' + InEntries(r, h)' + InRunning(r, h)'
    BY DEF Stored
  <2> QED
    BY <2>1, <2>2, <2>3, <2>4
<1>5. bpc'[r] # "aborted" => HandlesOf(r)'
  <2>1. HandlesOf(r) /\ running[r] \in Seq(Entry)
    BY <1>1 DEF HandleInv, HandleType
  <2>2. bpc'[r] # "aborted" => Callback(r, running[r], "error") \/ Callback(r, running[r], "ok")
    BY <1>1 DEF HandleType
  <2> QED
    BY <1>1, <1>4, <2>1, <2>2, HandlesDone
<1> QED
  BY <1>1, <1>2, <1>3, <1>5, HandlesLocal

LEMMA HandlesRespond ==
    ASSUME NEW r \in Rank, IndInv, HandleType, DistinctInv, HandleInv, PerformResponse(r)
    PROVE  IdleInv' /\ HandleInv'
<1> USE DEF BGoto
<1> DEFINE x     == Head(todo[r])
           keys  == x.keys
           batch == [i \in DOMAIN keys |-> tensor_table[r][keys[i]]]
           found == \A i \in DOMAIN keys : keys[i] \in DOMAIN tensor_table[r]
<1>1. /\ bpc[r] = "respond" /\ todo[r] # <<>> /\ UNCHANGED <<mpc, entries>>
      /\ \/ /\ ~found
            /\ bpc' = [bpc EXCEPT ![r] = "aborted"]
            /\ UNCHANGED <<status, tensor_table, running>>
         \/ /\ found
            /\ tensor_table' = [tensor_table EXCEPT ![r] = EraseAll(tensor_table[r], keys)]
            /\ \/ Callback(r, batch, "error") /\ UNCHANGED <<bpc, running>>
               \/ Perform(r, batch, "responding")
  BY DEF PerformResponse
<1>2. running[r] = <<>> /\ IsFiniteSet(DOMAIN tensor_table[r])
  BY <1>1 DEF HandleType, IdleInv
<1>3. keys \in Seq(KeySet) /\ \A i, j \in DOMAIN keys : keys[i] = keys[j] => i = j
  <2>1. todo[r] \in Seq(Response)
    BY DEF IndInv, TypeOK, ExecOK
  <2>2. x \in Response /\ x = todo[r][1] /\ 1 \in DOMAIN todo[r]
    BY <1>1, <2>1, HeadTailProperties, LenProperties, EmptySeq
  <2>3. DistinctKeys(x)
    BY <2>2 DEF DistinctInv
  <2> QED
    BY <2>2, <2>3 DEF Response, DistinctKeys
<1> HIDE DEF x, keys
<1>4. HandlesOf(r)
  BY <1>1 DEF HandleInv
<1>5. CASE /\ ~found
           /\ bpc' = [bpc EXCEPT ![r] = "aborted"]
           /\ UNCHANGED <<status, tensor_table, running>>
  <2>1. IdleInv'
    BY <1>1, <1>2, <1>5, IdleFrame DEF HandleType
  <2>2. bpc'[r] = "aborted"
    BY <1>5 DEF HandleType
  <2> QED
    BY <1>1, <1>5, <2>1, <2>2, HandlesLocal DEF HandleType
<1>6. CASE /\ found
           /\ tensor_table' = [tensor_table EXCEPT ![r] = EraseAll(tensor_table[r], keys)]
           /\ \/ Callback(r, batch, "error") /\ UNCHANGED <<bpc, running>>
              \/ Perform(r, batch, "responding")
  <2>1. batch \in Seq(Entry)
    <3>1. \A i \in DOMAIN keys : batch[i] \in Entry
      BY <1>6 DEF HandleType
    <3>2. batch = [i \in DOMAIN keys |-> batch[i]]
      OBVIOUS
    <3> HIDE DEF batch
    <3> QED
      BY <1>3, <3>1, <3>2, MapSeq
  <2>2. /\ tensor_table'[r] = EraseAll(tensor_table[r], keys)
        /\ \A q \in Rank \ {r} : tensor_table'[q] = tensor_table[q]
    BY <1>6 DEF HandleType
  <2>3. /\ IsFiniteSet(DOMAIN EraseAll(tensor_table[r], keys))
        /\ \A P : Count(tensor_table[r], P)
                  = Count(EraseAll(tensor_table[r], keys), P) + Count(batch, P)
    <3> DEFINE t == tensor_table[r]
    <3>1. \A P : /\ IsFiniteSet(DOMAIN EraseAll(t, keys))
                 /\ Count(t, P) = Count(EraseAll(t, keys), P)
                                  + Count([i \in DOMAIN keys |-> t[keys[i]]], P)
      <4>1. IsFiniteSet(DOMAIN t) /\ \A i \in DOMAIN keys : keys[i] \in DOMAIN t
        BY <1>2, <1>6
      <4> HIDE DEF t
      <4> QED
        BY <1>3, <4>1, CountEraseAll
    <3> QED
      BY <3>1, Zenon
  <2> HIDE DEF batch
  <2>4. ASSUME NEW h
        PROVE  /\ InTable(r, h)' \in Nat /\ InEntries(r, h)' \in Nat
               /\ InTable(r, h) = InTable(r, h)' + Count(batch, Entries(h))
               /\ InEntries(r, h)' = InEntries(r, h)
               /\ Count(batch, Entries(h)) \in Nat
    <3>1. InEntries(r, h)' = InEntries(r, h) /\ InEntries(r, h) \in Nat
      BY <1>1, HeldNat DEF InEntries
    <3>2. Count(EraseAll(tensor_table[r], keys), Entries(h)) \in Nat
          /\ Count(batch, Entries(h)) \in Nat
      BY <2>1, <2>3, CountMap, CountType
    <3> QED
      BY <2>2, <2>3, <3>1, <3>2 DEF InTable
  <2>5. CASE Callback(r, batch, "error") /\ UNCHANGED <<bpc, running>>
    <3>1. IdleInv'
      BY <2>2, <2>3, <2>5 DEF HandleType, IdleInv
    <3>2. ASSUME NEW h \in Nat \ {0}
          PROVE  /\ Stored(r, h)' \in Nat
                 /\ Stored(r, h) = Stored(r, h)' + Count(batch, Entries(h))
      <4>1. InRunning(r, h)' = InRunning(r, h) /\ InRunning(r, h) \in Nat
        BY <2>5, HeldNat DEF InRunning
      <4>2. /\ Stored(r, h) = InTable(r, h) + InEntries(r, h) + InRunning(r, h)
            /\ Stored(r, h)' = InTable(r, h)' + InEntries(r, h)' + InRunning(r, h)'
        BY DEF Stored
      <4> QED
        BY <2>4, <4>1, <4>2
    <3>3. HandlesOf(r)'
      BY <1>1, <1>4, <2>1, <2>5, <3>2, HandlesDone
    <3>4. \A q \in Rank \ {r} : status'[q] = status[q]
      BY <2>5 DEF Callback, HandleType
    <3> QED
      BY <1>1, <2>2, <2>5, <3>1, <3>3, <3>4, HandlesLocal
  <2>6. CASE Perform(r, batch, "responding")
    <3>1. /\ \A q \in Rank \ {r} : running'[q] = running[q] /\ status'[q] = status[q]
                                   /\ bpc'[q] = bpc[q]
          /\ running'[r] # <<>> => bpc'[r] = "responding"
      BY <1>2, <2>6 DEF Perform, HandleType, Callback
    <3>2. IdleInv'
      BY <2>2, <2>3, <3>1 DEF HandleType, IdleInv
    <3>3. ASSUME bpc'[r] # "aborted" PROVE HandlesOf(r)'
      <4>1. \A h \in Nat \ {0} :
              /\ InTable(r, h)' \in Nat /\ InEntries(r, h)' \in Nat
              /\ InTable(r, h) + InEntries(r, h)
                 = InTable(r, h)' + InEntries(r, h)' + Count(batch, Entries(h))
        BY <2>4
      <4> QED
        BY <1>1, <1>2, <1>4, <2>1, <2>6, <3>3, <4>1, HandlesPerform
    <3> QED
      BY <1>1, <2>2, <3>1, <3>2, <3>3, HandlesLocal
  <2> QED
    BY <1>6, <2>5, <2>6
<1> QED
  BY <1>1, <1>5, <1>6

LEMMA HandlesFinalize ==
    ASSUME NEW r \in Rank, HandleType, HandleInv, FinalizeTensorQueue(r)
    PROVE  IdleInv' /\ HandleInv'
<1> USE DEF BGoto
<1> DEFINE t == tensor_table[r]
<1>1. /\ bpc[r] = "finalize" /\ UNCHANGED <<mpc, entries, running>>
      /\ status' = [status EXCEPT ![r] = [h \in DOMAIN status[r] |->
            IF \E k \in DOMAIN t : t[k].handle = h THEN "shutdown" ELSE status[r][h]]]
      /\ tensor_table' = [tensor_table EXCEPT ![r] = <<>>]
      /\ bpc' = [bpc EXCEPT ![r] = "down"]
  BY DEF FinalizeTensorQueue, execVars
<1>2. running[r] = <<>> /\ IsFiniteSet(DOMAIN t)
  BY <1>1 DEF HandleType, IdleInv
<1>3. /\ tensor_table'[r] = <<>>
      /\ status'[r] = [h \in DOMAIN status[r] |->
            IF \E k \in DOMAIN t : t[k].handle = h THEN "shutdown" ELSE status[r][h]]
      /\ \A q \in Rank \ {r} : /\ tensor_table'[q] = tensor_table[q] /\ status'[q] = status[q]
                               /\ bpc'[q] = bpc[q]
  BY <1>1 DEF HandleType
<1>4. IdleInv'
  <2>1. DOMAIN <<>> = {} /\ IsFiniteSet({})
    BY FS_EmptySet
  <2>2. IsFiniteSet(DOMAIN tensor_table'[r])
    BY <1>3, <2>1
  <2> QED
    BY <1>1, <1>2, <1>3, <2>2 DEF HandleType, IdleInv
<1>5. ASSUME NEW h \in Nat \ {0} PROVE Held(r, h)' = Pending(r, h)'
  <2>1. InTable(r, h) = 0 <=> ~ \E k \in DOMAIN t : t[k].handle = h
    <3> DEFINE I == {k \in DOMAIN t : t[k] \in Entries(h)}
    <3>1. IsFiniteSet(I) /\ InTable(r, h) = Cardinality(I)
      BY <1>2, CountMap DEF InTable, Count
    <3>2. I = {} <=> ~ \E k \in DOMAIN t : t[k].handle = h
      BY DEF HandleType, Entries
    <3> HIDE DEF I
    <3> QED
      BY <3>1, <3>2, FS_EmptySet
  <2>2. DOMAIN status'[r] = DOMAIN status[r]
    BY <1>3
  <2>3. Len(status'[r]) = Len(status[r])
    <3>1. status[r] \in Seq(Status) /\ "shutdown" \in Status
      BY DEF HandleType, Status
    <3>2. \A g \in DOMAIN status[r] : status'[r][g] \in Status
      BY <1>3, <3>1, ElementOfSeq, LenProperties
    <3> DEFINE f == status'[r]
    <3>3. f = [g \in DOMAIN status[r] |-> f[g]] /\ \A g \in DOMAIN status[r] : f[g] \in Status
      BY <1>3, <3>2
    <3> HIDE DEF f
    <3>4. Len(f) = Len(status[r])
      BY <3>1, <3>3, MapSeq
    <3> QED
      BY <3>4 DEF f
  <2>4. Pending(r, h)' = IF InTable(r, h) = 0 THEN Pending(r, h) ELSE 0
    BY <1>3, <2>1, <2>2 DEF Pending
  <2>5. /\ InTable(r, h)' = 0 /\ InEntries(r, h)' = InEntries(r, h)
        /\ InRunning(r, h)' = InRunning(r, h) /\ InCall(r, h)' = InCall(r, h)
    BY <1>1, <1>3, <2>3, CountEmpty DEF InTable, InEntries, InRunning, InCall
  <2>6. Stored(r, h) + InCall(r, h) = Pending(r, h)
    BY <1>1 DEF HandleInv, HandlesOf, Held
  <2>7. /\ InTable(r, h) \in Nat /\ InEntries(r, h) \in Nat /\ InRunning(r, h) \in Nat
        /\ InCall(r, h) \in {0, 1} /\ Pending(r, h) \in {0, 1}
    BY HeldNat
  <2>8. /\ Stored(r, h) = InTable(r, h) + InEntries(r, h) + InRunning(r, h)
        /\ Held(r, h)' = InTable(r, h)' + InEntries(r, h)' + InRunning(r, h)' + InCall(r, h)'
    BY DEF Held, Stored
  <2>9. CASE InTable(r, h) = 0
    BY <2>4, <2>5, <2>6, <2>7, <2>8, <2>9
  <2>10. CASE InTable(r, h) # 0
    BY <2>4, <2>5, <2>6, <2>7, <2>8, <2>10
  <2> QED
    BY <2>9, <2>10
<1>6. HandlesOf(r)'
  BY <1>5 DEF HandlesOf
<1> QED
  BY <1>1, <1>3, <1>4, <1>6, HandlesLocal

LEMMA HandlesBackground ==
    ASSUME NEW r \in Rank, IndInv, HandleType, DistinctInv, HandleInv, BackgroundStep(r)
    PROVE  IdleInv' /\ HandleInv'
<1>1. CASE ConvertNext(r) \/ PerformDirect(r) \/ PerformResponse(r) \/ Complete(r)
           \/ FinalizeTensorQueue(r)
  BY <1>1, HandlesConvert, HandlesDirect, HandlesRespond, HandlesCompleted, HandlesFinalize
<1>2. CASE ~(ConvertNext(r) \/ PerformDirect(r) \/ PerformResponse(r) \/ Complete(r)
             \/ FinalizeTensorQueue(r))
  <2>1. /\ UNCHANGED <<tensor_table, entries, running, status, mpc>>
        /\ bpc[r] \notin {"directing", "responding", "aborted"}
    BY <1>2 DEF BackgroundStep, ReadFlags, PopMessagesFromQueue, ConvertDone, RemoveNext,
       RemoveDone, DirectDone, SlaveSend, SlaveRecv, RespondDone, Unpark, Unparked, Exit,
       userVars, queueVars, execVars
  <2>2. \A q \in Rank : q # r => bpc'[q] = bpc[q]
    BY BackgroundMoves DEF IndInv
  <2>3. \A q \in Rank : running[q] # <<>> => bpc'[q] = bpc[q]
    BY <2>1, <2>2 DEF HandleType, IdleInv
  <2>4. IdleInv'
    BY <2>1, <2>3, IdleFrame DEF HandleType
  <2>5. HandlesOf(r)'
    BY <2>1, HandlesFrame DEF HandleInv
  <2> QED
    BY <2>1, <2>2, <2>4, <2>5, HandlesLocal
<1> QED
  BY <1>1, <1>2

LEMMA HandlesCoordinator ==
    ASSUME HandleType, HandleInv, CoordinatorStep
    PROVE  IdleInv' /\ HandleInv'
<1> USE MasterRank
<1>1. /\ UNCHANGED <<tensor_table, entries, running, status, mpc>>
      /\ bpc[Master] \in {"count", "construct", "fuse"}
      /\ UNCHANGED bpc \/ \E pc \in BPC : bpc' = [bpc EXCEPT ![Master] = pc]
  BY DEF CoordinatorStep, CountRequest, NextList, CountDone, ConstructNext, ConstructDone,
     FuseNext, Broadcast, coordUnchanged, MasterGoto, userVars, queueVars, BPC
<1>2. \A q \in Rank : q # Master => bpc'[q] = bpc[q]
  BY <1>1 DEF HandleType
<1>3. \A q \in Rank : running[q] # <<>> => bpc'[q] = bpc[q]
  BY <1>1, <1>2 DEF HandleType, IdleInv
<1>4. IdleInv'
  BY <1>1, <1>3, IdleFrame DEF HandleType
<1>5. HandlesOf(Master)'
  BY <1>1, HandlesFrame DEF HandleInv
<1> QED
  BY <1>1, <1>2, <1>4, <1>5, HandlesLocal

LEMMA HandleInit == Init => IdleInv /\ HandleInv
<1> SUFFICES ASSUME Init PROVE IdleInv /\ HandleInv
  OBVIOUS
<1>1. \A r \in Rank : /\ tensor_table[r] = <<>> /\ entries[r] = <<>> /\ running[r] = <<>>
                      /\ status[r] = <<>> /\ mpc[r] = "run"
  BY DEF Init
<1>2. DOMAIN <<>> = {} /\ IsFiniteSet({})
  BY FS_EmptySet
<1>3. IdleInv
  BY <1>1, <1>2 DEF IdleInv
<1>4. ASSUME NEW r \in Rank, NEW h \in Nat \ {0} PROVE Held(r, h) = Pending(r, h)
  <2>1. InTable(r, h) = 0 /\ InEntries(r, h) = 0 /\ InRunning(r, h) = 0
    BY <1>1, CountEmpty DEF InTable, InEntries, InRunning
  <2>2. InCall(r, h) = 0 /\ Pending(r, h) = 0
    BY <1>1, <1>2 DEF InCall, Pending
  <2> QED
    BY <2>1, <2>2 DEF Held, Stored
<1> QED
  BY <1>3, <1>4 DEF HandleInv, HandlesOf

HandleIndInv == AnswerInv /\ DistinctInv /\ IdleInv /\ HandleInv

LEMMA HandleStep ==
    IndInv /\ NoOverlap /\ HandleIndInv /\ [Next]_vars => HandleIndInv'
<1> SUFFICES ASSUME IndInv, NoOverlap, AnswerInv, DistinctInv, IdleInv, HandleInv, [Next]_vars
             PROVE  IdleInv' /\ HandleInv'
  BY AnswerStep DEF HandleIndInv
<1>1. HandleType
  BY HandleTypes DEF IndInv
<1>2. CASE UNCHANGED vars
  <2>1. UNCHANGED <<tensor_table, entries, running, status, mpc, bpc>>
    BY <1>2 DEF vars, userVars, queueVars, execVars
  <2> QED
    BY <2>1, IdleFrame, HandlesFrame DEF HandleInv
<1>3. CASE Terminating
  BY <1>2, <1>3 DEF Terminating
<1> QED
  BY <1>1, <1>2, <1>3, HandlesUser, HandlesBackground, HandlesCoordinator DEF Next

LEMMA HandleSafe == TypeOK /\ IdleInv /\ HandleInv /\ NoAbort => HandleAccounting
<1> SUFFICES ASSUME TypeOK, IdleInv, HandleInv, NoAbort, NEW r \in Rank, NEW h \in DOMAIN status[r]
             PROVE  Cardinality({i \in DOMAIN tensor_table[r] : tensor_table[r][i].handle = h})
                    + Cardinality({i \in DOMAIN entries[r] : entries[r][i].handle = h})
                    + Cardinality({i \in DOMAIN running[r] : running[r][i].handle = h})
                    + (IF mpc[r] = "add" /\ h = Len(status[r]) THEN 1 ELSE 0)
                    = (IF status[r][h] = "pending" THEN 1 ELSE 0)
  BY DEF HandleAccounting
<1>1. HandleType
  BY HandleTypes
<1>2. Held(r, h) = Pending(r, h)
  <2>1. h \in Nat \ {0}
    BY <1>1, LenProperties DEF HandleType
  <2> QED
    BY <2>1 DEF NoAbort, HandleInv, HandlesOf
<1>3. {i \in DOMAIN tensor_table[r] : tensor_table[r][i].handle = h}
      = {i \in DOMAIN tensor_table[r] : tensor_table[r][i] \in Entries(h)}
  BY <1>1 DEF HandleType, Entries
<1>4. \A s \in Seq(Entry) : {i \in DOMAIN s : s[i].handle = h}
                            = {i \in DOMAIN s : s[i] \in Entries(h)}
  BY ElementOfSeq, LenProperties DEF Entries
<1>5. /\ {i \in DOMAIN entries[r] : entries[r][i].handle = h}
         = {i \in DOMAIN entries[r] : entries[r][i] \in Entries(h)}
      /\ {i \in DOMAIN running[r] : running[r][i].handle = h}
         = {i \in DOMAIN running[r] : running[r][i] \in Entries(h)}
  BY <1>1, <1>4 DEF HandleType
<1>6. Pending(r, h) = (IF status[r][h] = "pending" THEN 1 ELSE 0)
  BY DEF Pending
<1> QED
  BY <1>2, <1>3, <1>5, <1>6 DEF Held, Stored, InTable, InEntries, InRunning, InCall, Count

\* No callback is lost and none runs twice: as long as no background thread
\* throws, a handle is pending exactly as long as one of the enqueue call, the
\* tensor table, the entries executed directly and the operation under way holds
\* its callback, also when the negotiation is skipped.  emplace must not drop an
\* entry under a taken name.
THEOREM HandlesAccounted == Spec /\ []NoOverlap => [](NoAbort => HandleAccounting)
<1>1. Init => IndInv /\ HandleIndInv
  BY IndInit, AnswerInit, HandleInit DEF HandleIndInv
<1>2. IndInv /\ [Next]_vars => IndInv'
  BY IndStep
<1>3. IndInv /\ NoOverlap /\ HandleIndInv /\ [Next]_vars => HandleIndInv'
  BY HandleStep
<1>4. IndInv /\ HandleIndInv => (NoAbort => HandleAccounting)
  BY HandleSafe DEF IndInv, HandleIndInv
<1> QED
  BY <1>1, <1>2, <1>3, <1>4, PTL DEF Spec

\* The same for the handles, in every job that works on tensors only.
THEOREM HandlesAccountedTensors ==
    ASSUME \A p \in Programs : \A r \in Rank : TensorOnly(p[r])
    PROVE  Spec => [](NoAbort => HandleAccounting)
<1>1. Init => TensorJob
  BY DEF Init, TensorJob
<1>2. IndInv /\ TensorJob /\ [Next]_vars => TensorJob'
  BY TensorJobStep
<1>3. IndInv /\ TensorJob => NoOverlap
  BY TensorJobOverlap
<1>4. Init => IndInv
  BY IndInit
<1>5. IndInv /\ [Next]_vars => IndInv'
  BY IndStep
<1>6. Spec /\ []NoOverlap => [](NoAbort => HandleAccounting)
  BY HandlesAccounted
<1> QED
  BY <1>1, <1>2, <1>3, <1>4, <1>5, <1>6, PTL DEF Spec

-----------------------------------------------------------------------------
(* Jobs that meet no exception *)

\* An operation on a tensor; a hierarchical neighbor_allreduce names machines to
\* send to, and there are machines.
SoundOp(op) ==
    /\ op.type \notin WindowType
    /\ ~(/\ op.type = "NEIGHBOR_ALLREDUCE" /\ op.hier
         /\ op.send = <<>> \/ LocalSize < 2)

\* A program that submits only such operations, neither skips the negotiation
\* nor suspends, and waits for what it has submitted before it shuts down.
SoundProgram(p) ==
    \A i \in DOMAIN p :
        /\ p[i].call \notin {"skip", "suspend"}
        /\ p[i].call = "enqueue" => SoundOp(p[i].op)
        /\ p[i].call = "shutdown" /\ i > 1 => p[i - 1].call = "wait"

Settled(r) == \A h \in DOMAIN status[r] : status[r][h] # "pending"

\* Nothing is outstanding on a rank that shuts down.
WaitInv ==
    \A r \in Rank :
        /\ SoundProgram(program[r])
        /\ ~suspended[r]
        /\ mpc[r] # "run" => Head(program[r]).call # "wait"
        /\ program[r] # <<>> /\ Head(program[r]).call = "shutdown" => Settled(r)
        /\ shut_down[r] /\ bpc[r] \notin {"finalize", "down"} =>
              /\ mpc[r] = "join" /\ program[r] # <<>> /\ Head(program[r]).call = "shutdown"

\* Only operations on tensors are queued, asked for and answered.
TensorKey      == {""} \X AnyName
TensorRequest  == {q \in NegotiatedRequest : q.key \in TensorKey}
TensorResponse == {x \in Response : \A i \in DOMAIN x.keys : x.keys[i] \in TensorKey}

AskInv ==
    /\ message_queue \in [Rank -> Seq(TensorRequest)]
    /\ buffer \in [Rank -> Seq(TensorRequest)]
    /\ kept \in [Rank -> Seq(TensorRequest)]
    /\ \A r \in Rank : \A n \in DOMAIN gather[r] : gather[r][n].requests \in Seq(TensorRequest)
    /\ inbox \in Seq(TensorRequest)

ReplyInv ==
    /\ ready_to_reduce \in Seq(TensorKey)
    /\ responses \in Seq(TensorResponse)
    /\ response_list \in Seq(TensorResponse)
    /\ todo \in [Rank -> Seq(TensorResponse)]
    /\ \A r \in Rank : \A n \in DOMAIN bcast[r] : bcast[r][n].responses \in Seq(TensorResponse)

EntryInv ==
    \A r \in Rank : /\ entries[r] = <<>>
                    /\ \A k \in DOMAIN tensor_table[r] : SoundOp(tensor_table[r][k].op)

TensorInv == AskInv /\ ReplyInv /\ EntryInv

-----------------------------------------------------------------------------
LEMMA TensorInit == Init => TensorInv
<1> SUFFICES ASSUME Init PROVE TensorInv
  OBVIOUS
<1>1. \A S : <<>> \in Seq(S)
  BY EmptySeq
<1>2. DOMAIN <<>> = {}
  OBVIOUS
<1>3. AskInv
  BY <1>1, <1>2 DEF Init, AskInv
<1>4. ReplyInv
  BY <1>1, <1>2 DEF Init, ReplyInv
<1>5. EntryInv
  BY <1>2 DEF Init, EntryInv
<1> QED
  BY <1>3, <1>4, <1>5 DEF TensorInv

LEMMA TensorFrame ==
    /\ AskInv /\ UNCHANGED <<message_queue, buffer, kept, gather, inbox>> => AskInv'
    /\ ReplyInv /\ UNCHANGED <<ready_to_reduce, responses, response_list, todo, bcast>> => ReplyInv'
    /\ EntryInv /\ UNCHANGED <<entries, tensor_table>> => EntryInv'
<1>1. AskInv /\ UNCHANGED <<message_queue, buffer, kept, gather, inbox>> => AskInv'
  BY DEF AskInv
<1>2. ReplyInv /\ UNCHANGED <<ready_to_reduce, responses, response_list, todo, bcast>> => ReplyInv'
  BY DEF ReplyInv
<1>3. EntryInv /\ UNCHANGED <<entries, tensor_table>> => EntryInv'
  BY DEF EntryInv
<1> QED
  BY <1>1, <1>2, <1>3

LEMMA TensorUser ==
    ASSUME NEW r \in Rank, IndInv, WaitInv, TensorInv, UserStep(r)
    PROVE  TensorInv'
<1>1. CASE ~AddToTensorQueue(r)
  BY <1>1, UserFrame, TensorFrame DEF queueVars, backgroundVars, localVars, execVars, countVars,
     fuseVars, TensorInv
<1>2. CASE AddToTensorQueue(r)
  <2> DEFINE op == Head(program[r]).op
             e  == [key |-> Key(op), op |-> op, handle |-> Len(status[r])]
  <2>1. op \in Op /\ mpc[r] = "add"
    BY <1>2, AddedOp DEF AddToTensorQueue, At
  <2>2. SoundOp(op)
    <3>1. program[r] # <<>> /\ Head(program[r]).call = "enqueue" /\ program[r] \in Seq(Call)
      BY <2>1 DEF IndInv, CallInv, TypeOK, UserOK
    <3>2. 1 \in DOMAIN program[r] /\ Head(program[r]) = program[r][1]
      BY <3>1, HeadTailProperties, LenProperties, EmptySeq
    <3> QED
      BY <3>1, <3>2 DEF WaitInv, SoundProgram
  <2>3. UNCHANGED <<buffer, kept, gather, inbox, ready_to_reduce, responses, response_list, todo,
                    bcast, entries>>
    BY <1>2 DEF AddToTensorQueue, backgroundVars, localVars, execVars, countVars, fuseVars,
       mpiVars
  <2>4. \/ UNCHANGED <<tensor_table, message_queue>>
        \/ /\ tensor_table' = [tensor_table EXCEPT ![r] = Emplace(tensor_table[r], e)]
           /\ message_queue' = [message_queue EXCEPT ![r] =
                                 Append(message_queue[r], RequestOf(r, op))]
    BY <1>2 DEF AddToTensorQueue, queueVars
  <2>5. RequestOf(r, op) \in TensorRequest
    <3>1. RequestOf(r, op) \in Request
      BY <2>1, RequestOfType
    <3>2. RequestOf(r, op).type = op.type /\ RequestOf(r, op).key = <<"", op.name>>
      BY <2>2 DEF RequestOf, Key, SoundOp
    <3>3. op.type \in NegotiatedType /\ op.name \in AnyName
      BY <2>1, <2>2 DEF Op, OpType, SoundOp, WindowType
    <3>4. <<"", op.name>> \in TensorKey
      BY <3>3 DEF TensorKey
    <3> DEFINE q == RequestOf(r, op)
    <3>5. q \in Request /\ q.type \in NegotiatedType /\ q.key \in TensorKey
      BY <3>1, <3>2, <3>3, <3>4
    <3> HIDE DEF q
    <3>6. q \in TensorRequest
      BY <3>5 DEF TensorRequest, NegotiatedRequest
    <3> QED
      BY <3>6 DEF q
  <2>6. AskInv'
    <3> DEFINE q == RequestOf(r, op)
    <3> HIDE DEF q
    <3>1. UNCHANGED message_queue
          \/ message_queue' = [message_queue EXCEPT ![r] = Append(message_queue[r], q)]
      BY <2>4 DEF q
    <3>0. q \in TensorRequest
      BY <2>5 DEF q
    <3>2. message_queue \in [Rank -> Seq(TensorRequest)]
      BY DEF TensorInv, AskInv
    <3>3. Append(message_queue[r], q) \in Seq(TensorRequest)
      BY <3>0, <3>2, AppendProperties
    <3>4. message_queue' \in [Rank -> Seq(TensorRequest)]
      BY <3>1, <3>2, <3>3
    <3> QED
      BY <2>3, <3>4 DEF TensorInv, AskInv
  <2>7. ReplyInv'
    BY <2>3, TensorFrame DEF TensorInv
  <2>8. EntryInv'
    <3>1. \A k \in DOMAIN Emplace(tensor_table[r], e) : SoundOp(Emplace(tensor_table[r], e)[k].op)
      BY <2>2 DEF Emplace, Put, TensorInv, EntryInv
    <3>2. DOMAIN tensor_table = Rank
      BY DEF IndInv, TypeOK, QueueOK
    <3>3. \A q \in Rank : \A k \in DOMAIN tensor_table'[q] : SoundOp(tensor_table'[q][k].op)
      BY <2>4, <3>1, <3>2 DEF TensorInv, EntryInv
    <3> QED
      BY <2>3, <3>3 DEF TensorInv, EntryInv, SoundOp
  <2> QED
    BY <2>6, <2>7, <2>8 DEF TensorInv
<1> QED
  BY <1>1, <1>2

LEMMA TensorEntries ==
    ASSUME NEW r \in Rank, IndInv, Negotiating, TensorInv, BackgroundStep(r)
    PROVE  EntryInv' /\ ~PerformDirect(r)
           /\ (ConvertNext(r) => UNCHANGED <<bpc, tensor_table, entries>>)
<1>1. entries[r] = <<>> /\ DOMAIN tensor_table = Rank
  BY DEF TensorInv, EntryInv, IndInv, TypeOK, QueueOK
<1>2. ~PerformDirect(r)
  BY <1>1 DEF PerformDirect
<1>3. ASSUME ConvertNext(r) PROVE UNCHANGED <<bpc, tensor_table, entries>>
  <2>1. buffer[r] \in Seq(TensorRequest) /\ index[r] \in Nat \ {0} /\ index[r] <= Len(buffer[r])
    BY <1>3 DEF ConvertNext, TensorInv, AskInv, IndInv, TypeOK, LocalOK
  <2>2. buffer[r][index[r]] \in TensorRequest
    BY <2>1, ElementOfSeq, LenProperties
  <2>3. ~Direct(r, buffer[r][index[r]])
    BY <2>2 DEF Direct, Negotiating, TensorRequest, NegotiatedRequest
  <2> QED
    BY <1>3, <2>3 DEF ConvertNext
<1>4. CASE PerformResponse(r)
  <2>1. /\ UNCHANGED entries
        /\ \/ UNCHANGED tensor_table
           \/ \E ks : tensor_table' = [tensor_table EXCEPT ![r] = EraseAll(tensor_table[r], ks)]
    BY <1>4 DEF PerformResponse
  <2>2. \A q \in Rank : \A k \in DOMAIN tensor_table'[q] :
          k \in DOMAIN tensor_table[q] /\ tensor_table'[q][k] = tensor_table[q][k]
    <3>1. CASE UNCHANGED tensor_table
      BY <3>1
    <3>2. ASSUME NEW ks, tensor_table' = [tensor_table EXCEPT ![r] = EraseAll(tensor_table[r], ks)]
          PROVE  \A q \in Rank : \A k \in DOMAIN tensor_table'[q] :
                   k \in DOMAIN tensor_table[q] /\ tensor_table'[q][k] = tensor_table[q][k]
      <4>1. \A q \in Rank : tensor_table'[q] = IF q = r THEN EraseAll(tensor_table[r], ks)
                                                       ELSE tensor_table[q]
        BY <1>1, <3>2
      <4>2. \A k \in DOMAIN EraseAll(tensor_table[r], ks) :
              k \in DOMAIN tensor_table[r]
              /\ EraseAll(tensor_table[r], ks)[k] = tensor_table[r][k]
        BY DEF EraseAll
      <4> QED
        BY <4>1, <4>2
    <3> QED
      BY <2>1, <3>1, <3>2
  <2> QED
    BY <1>2, <1>3, <2>1, <2>2 DEF TensorInv, EntryInv
<1>5. CASE FinalizeTensorQueue(r)
  <2>1. UNCHANGED entries /\ tensor_table' = [tensor_table EXCEPT ![r] = <<>>]
    BY <1>5 DEF FinalizeTensorQueue, execVars
  <2>2. DOMAIN <<>> = {}
    OBVIOUS
  <2>3. \A q \in Rank : \A k \in DOMAIN tensor_table'[q] :
          k \in DOMAIN tensor_table[q] /\ tensor_table'[q][k] = tensor_table[q][k]
    BY <1>1, <2>1, <2>2
  <2> QED
    BY <1>2, <1>3, <2>1, <2>3 DEF TensorInv, EntryInv
<1>6. CASE ~(PerformResponse(r) \/ FinalizeTensorQueue(r))
  <2>1. UNCHANGED <<tensor_table, entries>>
    BY <1>2, <1>3, <1>6 DEF BackgroundStep, ReadFlags, PopMessagesFromQueue, ConvertDone,
       RemoveNext, RemoveDone, Complete, DirectDone, SlaveSend, SlaveRecv, RespondDone, Unpark,
       Unparked, Exit, queueVars, execVars
  <2> QED
    BY <1>2, <1>3, <2>1, TensorFrame DEF TensorInv
<1> QED
  BY <1>4, <1>5, <1>6

LEMMA TensorAsks ==
    ASSUME NEW r \in Rank, IndInv, TensorInv, BackgroundStep(r)
    PROVE  AskInv'
<1> USE DEF TensorInv, localVars, queueVars, masterVars, countVars, mpiVars
<1>0. /\ message_queue \in [Rank -> Seq(TensorRequest)]
      /\ buffer \in [Rank -> Seq(TensorRequest)]
      /\ kept \in [Rank -> Seq(TensorRequest)]
      /\ gather \in [Rank -> Seq(RequestList)]
      /\ <<>> \in Seq(TensorRequest)
  BY EmptySeq DEF AskInv, IndInv, TypeOK, MpiOK
<1>1. CASE PopMessagesFromQueue(r)
  BY <1>0, <1>1 DEF PopMessagesFromQueue, AskInv
<1>2. CASE RemoveNext(r)
  <2>1. Head(buffer[r]) \in TensorRequest /\ Tail(buffer[r]) \in Seq(TensorRequest)
    BY <1>0, <1>2, HeadTailProperties DEF RemoveNext
  <2>2. Append(kept[r], Head(buffer[r])) \in Seq(TensorRequest)
    BY <1>0, <2>1, AppendProperties
  <2>3. buffer' \in [Rank -> Seq(TensorRequest)]
    BY <1>0, <1>2, <2>1 DEF RemoveNext
  <2>4. kept' \in [Rank -> Seq(TensorRequest)]
    BY <1>0, <1>2, <2>2 DEF RemoveNext
  <2>5. UNCHANGED <<message_queue, gather, inbox>>
    BY <1>2 DEF RemoveNext
  <2> QED
    BY <2>3, <2>4, <2>5 DEF AskInv
<1>3. CASE DirectDone(r)
  <2>1. kept' \in [Rank -> Seq(TensorRequest)]
    BY <1>0, <1>3 DEF DirectDone
  <2>2. inbox' \in Seq(TensorRequest) /\ UNCHANGED <<message_queue, buffer, gather>>
    BY <1>0, <1>3 DEF DirectDone, AskInv
  <2> QED
    BY <2>1, <2>2 DEF AskInv
<1>4. CASE SlaveSend(r)
  <2> DEFINE list == [requests |-> kept[r], shutdown |-> ShutdownFlag(r),
                      change_topo |-> should_change_topo[r]]
  <2>1. /\ gather' = [gather EXCEPT ![r] = Append(gather[r], list)]
        /\ kept' = [kept EXCEPT ![r] = <<>>] /\ UNCHANGED <<message_queue, buffer, inbox>>
    BY <1>4 DEF SlaveSend
  <2>2. list.requests \in Seq(TensorRequest)
    BY <1>0
  <2>3. list \in RequestList
    <3>1. kept[r] \in Seq(NegotiatedRequest) /\ ShutdownFlag(r) \in BOOLEAN
          /\ should_change_topo[r] \in BOOLEAN
      BY DEF IndInv, TypeOK, LocalOK, FlagOK, ShutdownFlag
    <3> QED
      BY <3>1 DEF RequestList
  <2> HIDE DEF list
  <2>4. \A q \in Rank : \A n \in DOMAIN gather'[q] :
          (n \in DOMAIN gather[q] /\ gather'[q][n] = gather[q][n]) \/ gather'[q][n] = list
    BY <1>0, <2>1, <2>3
  <2>5. kept' \in [Rank -> Seq(TensorRequest)]
    BY <1>0, <2>1
  <2>6. \A q \in Rank : \A n \in DOMAIN gather'[q] : gather'[q][n].requests \in Seq(TensorRequest)
    BY <2>2, <2>4 DEF AskInv
  <2> QED
    BY <2>1, <2>5, <2>6 DEF AskInv
<1>5. CASE ~(PopMessagesFromQueue(r) \/ RemoveNext(r) \/ DirectDone(r) \/ SlaveSend(r)
             \/ FinalizeTensorQueue(r))
  <2>1. UNCHANGED <<message_queue, buffer, kept, gather, inbox>>
    BY <1>5 DEF BackgroundStep, ReadFlags, ConvertNext, ConvertDone, RemoveDone, PerformDirect,
       PerformResponse, Complete, SlaveRecv, RespondDone, Unpark, Unparked, Exit
  <2> QED
    BY <2>1, TensorFrame
<1>6. CASE FinalizeTensorQueue(r)
  <2>1. message_queue' = [message_queue EXCEPT ![r] = <<>>]
        /\ UNCHANGED <<buffer, kept, gather, inbox>>
    BY <1>6 DEF FinalizeTensorQueue
  <2> QED
    BY <1>0, <2>1 DEF AskInv
<1> QED
  BY <1>1, <1>2, <1>3, <1>4, <1>5, <1>6

LEMMA TensorReplies ==
    ASSUME NEW r \in Rank, IndInv, TensorInv, BackgroundStep(r)
    PROVE  ReplyInv'
<1> USE DEF TensorInv
<1>1. /\ UNCHANGED <<responses, response_list, ready_to_reduce>>
      /\ \/ UNCHANGED <<todo, bcast>>
         \/ todo' = [todo EXCEPT ![r] = Tail(todo[r])] /\ todo[r] # <<>> /\ UNCHANGED bcast
         \/ /\ bcast[r] # <<>>
            /\ todo' = [todo EXCEPT ![r] = Head(bcast[r]).responses]
            /\ bcast' = [bcast EXCEPT ![r] = Tail(bcast[r])]
  BY BackgroundMoves DEF IndInv
<1>2. todo \in [Rank -> Seq(TensorResponse)] /\ bcast \in [Rank -> Seq(ResponseList)]
  BY DEF ReplyInv, IndInv, TypeOK, MpiOK
<1>3. CASE UNCHANGED <<todo, bcast>>
  BY <1>1, <1>3, TensorFrame
<1>4. CASE todo' = [todo EXCEPT ![r] = Tail(todo[r])] /\ todo[r] # <<>> /\ UNCHANGED bcast
  <2>1. Tail(todo[r]) \in Seq(TensorResponse)
    BY <1>2, <1>4, HeadTailProperties
  <2> QED
    BY <1>1, <1>2, <1>4, <2>1 DEF ReplyInv
<1>5. CASE /\ bcast[r] # <<>>
           /\ todo' = [todo EXCEPT ![r] = Head(bcast[r]).responses]
           /\ bcast' = [bcast EXCEPT ![r] = Tail(bcast[r])]
  <2>1. /\ \A n \in DOMAIN Tail(bcast[r]) :
             n + 1 \in DOMAIN bcast[r] /\ Tail(bcast[r])[n] = bcast[r][n + 1]
        /\ 1 \in DOMAIN bcast[r] /\ Head(bcast[r]) = bcast[r][1]
    BY <1>2, <1>5, HeadTailProperties, LenProperties, EmptySeq
  <2>2. \A q \in Rank : \A n \in DOMAIN bcast'[q] : \E m \in DOMAIN bcast[q] :
          bcast'[q][n] = bcast[q][m]
    BY <1>2, <1>5, <2>1
  <2>3. \A q \in Rank : \A n \in DOMAIN bcast'[q] : bcast'[q][n].responses \in Seq(TensorResponse)
    BY <2>2 DEF ReplyInv
  <2>4. Head(bcast[r]).responses \in Seq(TensorResponse)
    BY <2>1 DEF ReplyInv
  <2>5. todo' \in [Rank -> Seq(TensorResponse)]
    BY <1>2, <1>5, <2>4
  <2> QED
    BY <1>1, <2>3, <2>5 DEF ReplyInv
<1> QED
  BY <1>1, <1>3, <1>4, <1>5

LEMMA TensorCoordinator ==
    ASSUME IndInv, TensorInv, CoordinatorStep
    PROVE  TensorInv'
<1> USE MasterRank DEF TensorInv, coordUnchanged, queueVars, countVars, fuseVars
<1>0. /\ gather \in [Rank -> Seq(RequestList)] /\ bcast \in [Rank -> Seq(ResponseList)]
      /\ inbox \in Seq(TensorRequest) /\ ready_to_reduce \in Seq(TensorKey)
      /\ responses \in Seq(TensorResponse) /\ response_list \in Seq(TensorResponse)
      /\ todo \in [Rank -> Seq(TensorResponse)]
  BY DEF AskInv, ReplyInv, IndInv, TypeOK, MpiOK
<1>1. CASE CountRequest
  <2>1. /\ inbox # <<>> /\ inbox' = Tail(inbox)
        /\ \/ UNCHANGED ready_to_reduce
           \/ ready_to_reduce' = Append(ready_to_reduce, Head(inbox).key)
        /\ UNCHANGED <<message_queue, buffer, kept, gather, responses, response_list, todo, bcast,
                       entries, tensor_table>>
    BY <1>1 DEF CountRequest
  <2>2. Head(inbox) \in TensorRequest /\ Tail(inbox) \in Seq(TensorRequest)
    BY <1>0, <2>1, HeadTailProperties
  <2>3. Head(inbox).key \in TensorKey
    BY <2>2 DEF TensorRequest
  <2>4. ready_to_reduce' \in Seq(TensorKey)
    <3> DEFINE c == Head(inbox).key
    <3>1. c \in TensorKey /\ ready_to_reduce \in Seq(TensorKey)
          /\ (ready_to_reduce' = ready_to_reduce \/ ready_to_reduce' = Append(ready_to_reduce, c))
      BY <1>0, <2>1, <2>3
    <3> HIDE DEF c
    <3>2. Append(ready_to_reduce, c) \in Seq(TensorKey)
      BY <3>1, AppendProperties
    <3> QED
      BY <3>1, <3>2
  <2>5. AskInv'
    BY <2>1, <2>2 DEF AskInv
  <2>6. ReplyInv'
    BY <2>1, <2>4 DEF ReplyInv
  <2> QED
    BY <2>1, <2>5, <2>6, TensorFrame
<1>2. CASE NextList
  <2> DEFINE s == from + 1
  <2>1. /\ s \in Workers /\ (s > from => gather[s] # <<>>)
        /\ inbox' = Head(gather[s]).requests
        /\ gather' = [gather EXCEPT ![s] = Tail(gather[s])]
        /\ UNCHANGED <<message_queue, buffer, kept, ready_to_reduce, responses, response_list,
                       todo, bcast, entries, tensor_table>>
    BY <1>2 DEF NextList
  <2>2. gather[s] # <<>> /\ s \in Rank
    <3>1. from \in Rank
      BY DEF IndInv, TypeOK, CountOK
    <3>2. s > from
      BY <3>1 DEF Rank
    <3> QED
      BY <2>1, <3>2 DEF Workers
  <2> HIDE DEF s
  <2>3. /\ \A n \in DOMAIN Tail(gather[s]) :
             n + 1 \in DOMAIN gather[s] /\ Tail(gather[s])[n] = gather[s][n + 1]
        /\ 1 \in DOMAIN gather[s] /\ Head(gather[s]) = gather[s][1]
    BY <1>0, <2>2, HeadTailProperties, LenProperties, EmptySeq
  <2>4. \A q \in Rank : \A n \in DOMAIN gather'[q] : \E m \in DOMAIN gather[q] :
          gather'[q][n] = gather[q][m]
    BY <1>0, <2>1, <2>2, <2>3
  <2>5. \A q \in Rank : \A n \in DOMAIN gather'[q] : gather'[q][n].requests \in Seq(TensorRequest)
    BY <2>4 DEF AskInv
  <2>6. inbox' \in Seq(TensorRequest)
    BY <2>1, <2>2, <2>3 DEF AskInv
  <2>7. AskInv'
    BY <2>1, <2>5, <2>6 DEF AskInv
  <2> QED
    BY <2>1, <2>7, TensorFrame
<1>3. CASE CountDone \/ ConstructDone
  BY <1>3, TensorFrame DEF CountDone, ConstructDone
<1>4. CASE ConstructNext
  <2> DEFINE k == Head(ready_to_reduce)
             x == ConstructResponse(k, message_table[k])
  <2>1. /\ ready_to_reduce # <<>>
        /\ responses' = Append(responses, x)
        /\ ready_to_reduce' = Tail(ready_to_reduce)
        /\ UNCHANGED <<message_queue, buffer, kept, gather, inbox, response_list, todo, bcast,
                       entries, tensor_table>>
    BY <1>4 DEF ConstructNext
  <2>2. k \in TensorKey /\ Tail(ready_to_reduce) \in Seq(TensorKey)
    BY <1>0, <2>1, HeadTailProperties
  <2>3. x \in Response
    <3>1. ready_to_reduce \in Seq(KeySet) /\ 1 \in DOMAIN ready_to_reduce /\ k = ready_to_reduce[1]
      BY <2>1, HeadTailProperties, LenProperties, EmptySeq DEF IndInv, TypeOK, CountOK
    <3>2. k \in DOMAIN message_table /\ Len(message_table[k]) >= Size /\ k \in KeySet
      BY <3>1, ElementOfSeq, LenProperties DEF IndInv, ReadyInTable
    <3>3. message_table[k] \in Seq(NegotiatedRequest)
      BY <3>2 DEF IndInv, TypeOK, CountOK
    <3>4. message_table[k] # <<>>
      BY <3>2, <3>3, SizeAssumption, EmptySeq
    <3> HIDE DEF k
    <3> QED
      BY <3>2, <3>3, <3>4, ConstructResponseType
  <2>4. x.keys = <<k>>
    BY ConstructedKeys
  <2> HIDE DEF x, k
  <2>5. x \in TensorResponse
    BY <2>2, <2>3, <2>4 DEF TensorResponse
  <2>6. responses' \in Seq(TensorResponse)
    BY <1>0, <2>1, <2>5, AppendProperties
  <2>7. ReplyInv'
    BY <2>1, <2>2, <2>6 DEF ReplyInv
  <2> QED
    BY <2>1, <2>7, TensorFrame
<1>5. CASE FuseNext
  <2> DEFINE new == Head(responses)
             n   == Len(response_list)
             w   == WithKey(Last, new.keys[1])
  <2>1. /\ responses # <<>>
        /\ UNCHANGED <<message_queue, buffer, kept, gather, inbox, ready_to_reduce, todo, bcast,
                       entries, tensor_table>>
    BY <1>5 DEF FuseNext
  <2>2. \/ UNCHANGED <<responses, response_list>>
        \/ /\ responses' = Tail(responses)
           /\ Extending
           /\ response_list' = [response_list EXCEPT ![n] = w]
        \/ responses' = Tail(responses) /\ response_list' = Append(response_list, new)
    <3>1. \/ UNCHANGED fuseVars
          \/ /\ responses' = Tail(responses)
             /\ Fuses(new)
             /\ response_list' = [response_list EXCEPT ![n] = w]
          \/ responses' = Tail(responses) /\ response_list' = Append(response_list, new)
      BY <1>5, Zenon DEF FuseNext
    <3>2. Fuses(new) => Extending
      BY Zenon DEF Fuses
    <3> QED
      BY <3>1, <3>2
  <2>3. new \in TensorResponse /\ Tail(responses) \in Seq(TensorResponse)
    BY <1>0, <2>1, HeadTailProperties
  <2>4. ASSUME Extending PROVE n \in 1 .. Len(response_list) /\ w \in TensorResponse
    <3>1. n \in 1 .. Len(response_list) /\ Last = response_list[n]
      BY <1>0, <2>4, LenProperties, EmptySeq DEF Extending, Last
    <3>2. Last \in TensorResponse
      BY <1>0, <3>1, ElementOfSeq
    <3>3. new.keys[1] \in TensorKey
      <4>1. 1 \in DOMAIN new.keys
        BY <2>3, LenProperties, EmptySeq DEF TensorResponse, Response
      <4> QED
        BY <2>3, <4>1 DEF TensorResponse
    <3>4. new.keys[1] \in KeySet
      BY <3>3 DEF TensorKey, KeySet, Prefix
    <3> DEFINE c == new.keys[1]
    <3> HIDE DEF c
    <3>5. c \in KeySet /\ c \in TensorKey
      BY <3>3, <3>4 DEF c
    <3>6. WithKey(Last, c) \in Response
      BY <3>2, <3>5, WithKeyAnswers DEF TensorResponse
    <3>7. WithKey(Last, c).keys = Append(Last.keys, c) /\ Last.keys \in Seq(KeySet)
      BY <3>2 DEF WithKey, TensorResponse, Response
    <3>8. \A i \in DOMAIN Append(Last.keys, c) : Append(Last.keys, c)[i] \in TensorKey
      BY <3>2, <3>5, <3>7 DEF TensorResponse
    <3>9. WithKey(Last, c) \in TensorResponse
      BY <3>6, <3>7, <3>8 DEF TensorResponse
    <3> QED
      BY <3>1, <3>9 DEF c
  <2> HIDE DEF new, w, n
  <2>5. responses' \in Seq(TensorResponse)
    BY <1>0, <2>2, <2>3
  <2>6. response_list' \in Seq(TensorResponse)
    <3>1. CASE UNCHANGED response_list
      BY <1>0, <3>1
    <3>2. CASE Extending /\ response_list' = [response_list EXCEPT ![n] = w]
      BY <1>0, <2>4, <3>2, ExceptSeq
    <3>3. CASE response_list' = Append(response_list, new)
      BY <1>0, <2>3, <3>3, AppendProperties
    <3> QED
      BY <2>2, <3>1, <3>2, <3>3
  <2>7. ReplyInv'
    BY <2>1, <2>5, <2>6 DEF ReplyInv
  <2> QED
    BY <2>1, <2>7, TensorFrame
<1>6. CASE Broadcast
  <2> DEFINE list == [responses   |-> response_list,
                      shutdown    |-> should_shut_down[Master],
                      change_topo |-> should_change_topo[Master]]
  <2>1. /\ response_list' = <<>>
        /\ todo' = [todo EXCEPT ![Master] = response_list]
        /\ bcast' = [s \in Rank |-> IF s \in Workers THEN Append(bcast[s], list) ELSE bcast[s]]
        /\ UNCHANGED <<message_queue, buffer, kept, gather, inbox, responses, ready_to_reduce,
                       entries, tensor_table>>
    BY <1>6 DEF Broadcast
  <2>2. list.responses \in Seq(TensorResponse) /\ list \in ResponseList
    <3>1. /\ should_shut_down[Master] \in BOOLEAN /\ should_change_topo[Master] \in BOOLEAN
          /\ response_list \in Seq(Response)
      BY DEF IndInv, TypeOK, LocalOK, FuseOK
    <3> QED
      BY <1>0, <3>1 DEF ResponseList
  <2> HIDE DEF list
  <2>3. \A q \in Rank : \A n \in DOMAIN bcast'[q] :
          (n \in DOMAIN bcast[q] /\ bcast'[q][n] = bcast[q][n]) \/ bcast'[q][n] = list
    <3> SUFFICES ASSUME NEW q \in Rank, NEW n \in DOMAIN bcast'[q]
                 PROVE  (n \in DOMAIN bcast[q] /\ bcast'[q][n] = bcast[q][n])
                        \/ bcast'[q][n] = list
      OBVIOUS
    <3>1. bcast'[q] = (IF q \in Workers THEN Append(bcast[q], list) ELSE bcast[q])
      BY <2>1
    <3>2. bcast[q] \in Seq(ResponseList) /\ list \in ResponseList
      BY <1>0, <2>2
    <3>3. \A m \in DOMAIN Append(bcast[q], list) :
            (m \in DOMAIN bcast[q] /\ Append(bcast[q], list)[m] = bcast[q][m])
            \/ Append(bcast[q], list)[m] = list
      BY <3>2, AppendProperties, LenProperties
    <3> QED
      BY <3>1, <3>3
  <2>4. \A q \in Rank : \A n \in DOMAIN bcast'[q] : bcast'[q][n].responses \in Seq(TensorResponse)
    BY <2>2, <2>3 DEF ReplyInv
  <2>5. todo' \in [Rank -> Seq(TensorResponse)]
    BY <1>0, <2>1
  <2>6. ReplyInv'
    BY <1>0, <2>1, <2>4, <2>5, EmptySeq DEF ReplyInv
  <2> QED
    BY <2>1, <2>6, TensorFrame
<1> QED
  BY <1>1, <1>2, <1>3, <1>4, <1>5, <1>6 DEF CoordinatorStep

-----------------------------------------------------------------------------
(* Waiting before the shutdown *)

LEMMA TailSound ==
    ASSUME NEW p \in Seq(Call), p # <<>>, SoundProgram(p)
    PROVE  /\ SoundProgram(Tail(p))
           /\ Head(p).call \notin {"skip", "suspend"}
           /\ Tail(p) # <<>> /\ Head(Tail(p)).call = "shutdown" => Head(p).call = "wait"
<1>1. /\ Head(p) = p[1] /\ 1 \in DOMAIN p /\ DOMAIN p = 1 .. Len(p) /\ Len(p) \in Nat
      /\ Tail(p) \in Seq(Call) /\ DOMAIN Tail(p) = 1 .. Len(p) - 1
      /\ \A i \in DOMAIN Tail(p) : i + 1 \in DOMAIN p /\ Tail(p)[i] = p[i + 1]
  BY HeadTailProperties, LenProperties, EmptySeq
<1>2. Tail(p) # <<>> => 1 \in DOMAIN Tail(p) /\ Head(Tail(p)) = Tail(p)[1]
  BY <1>1, HeadTailProperties, LenProperties, EmptySeq
<1>3. Tail(p) # <<>> => 2 \in DOMAIN p /\ Head(Tail(p)) = p[2]
  BY <1>1, <1>2
<1>4. SoundProgram(Tail(p))
  <2> SUFFICES ASSUME NEW i \in DOMAIN Tail(p)
               PROVE  /\ Tail(p)[i].call \notin {"skip", "suspend"}
                      /\ Tail(p)[i].call = "enqueue" => SoundOp(Tail(p)[i].op)
                      /\ Tail(p)[i].call = "shutdown" /\ i > 1 => Tail(p)[i - 1].call = "wait"
    BY DEF SoundProgram
  <2>1. i \in Nat /\ i + 1 \in DOMAIN p /\ Tail(p)[i] = p[i + 1] /\ i + 1 > 1 /\ (i + 1) - 1 = i
    BY <1>1
  <2>2. /\ p[i + 1].call \notin {"skip", "suspend"}
        /\ p[i + 1].call = "enqueue" => SoundOp(p[i + 1].op)
        /\ p[i + 1].call = "shutdown" => p[i].call = "wait"
    BY <2>1 DEF SoundProgram
  <2>3. i > 1 => i - 1 \in DOMAIN Tail(p) /\ Tail(p)[i - 1] = p[i]
    <3>1. i > 1 => i - 1 \in DOMAIN Tail(p) /\ (i - 1) + 1 = i
      BY <1>1
    <3> QED
      BY <1>1, <3>1
  <2> QED
    BY <2>1, <2>2, <2>3
<1>5. Tail(p) # <<>> /\ Head(Tail(p)).call = "shutdown" => Head(p).call = "wait"
  <2>1. 2 > 1 /\ 2 - 1 = 1
    OBVIOUS
  <2> QED
    BY <1>1, <1>3, <2>1 DEF SoundProgram
<1> QED
  BY <1>1, <1>4, <1>5 DEF SoundProgram

LEMMA WaitFrame ==
    ASSUME WaitInv, UNCHANGED <<program, mpc, status, suspended, shut_down>>,
           \A r \in Rank : shut_down[r] /\ bpc'[r] \notin {"finalize", "down"}
                           => bpc[r] \notin {"finalize", "down"}
    PROVE  WaitInv'
BY DEF WaitInv, Settled, SoundProgram, SoundOp

\* What a call does to what WaitInv is about.
LEMMA WaitCalls ==
    ASSUME NEW r \in Rank, IndInv, WaitInv, UserStep(r)
    PROVE  /\ program[r] # <<>>
           /\ program' = program \/ program' = [program EXCEPT ![r] = Tail(program[r])]
           /\ suspended' = suspended \/ suspended' = [suspended EXCEPT ![r] = FALSE]
           /\ \E pc : mpc' = [mpc EXCEPT ![r] = pc]
           /\ mpc'[r] # "run" => program' = program /\ Head(program[r]).call # "wait"
           /\ mpc'[r] = "run" => program' = [program EXCEPT ![r] = Tail(program[r])]
           /\ UNCHANGED bpc
           /\ \A q \in Rank : q # r => status'[q] = status[q]
           /\ Head(program[r]).call = "wait" => Settled(r) /\ UNCHANGED status
           /\ Head(program[r]).call = "shutdown" => UNCHANGED status \/ mpc'[r] = "run"
           /\ \/ UNCHANGED shut_down /\ (mpc[r] = "join" => bpc[r] = "down")
              \/ /\ shut_down' = [shut_down EXCEPT ![r] = TRUE]
                 /\ mpc'[r] = "join" /\ Head(program[r]).call = "shutdown"
<1>0. /\ DOMAIN program = Rank /\ DOMAIN mpc = Rank /\ DOMAIN status = Rank
      /\ (mpc[r] # "run" => program[r] # <<>> /\ Head(program[r]).call # "wait")
      /\ (mpc[r] = "add" => Head(program[r]).call = "enqueue")
  BY DEF IndInv, TypeOK, UserOK, CallInv, WaitInv
<1>1. program[r] # <<>> => Head(program[r]).call \notin {"skip", "suspend"}
  BY TailSound DEF IndInv, TypeOK, UserOK, WaitInv
<1> USE DEF flagVars, backgroundVars, Return, Goto, Calls, Paused, At
<1>2. CASE EnqueueFail(r) \/ EnqueueBegin(r)
  BY <1>0, <1>2 DEF EnqueueFail, EnqueueBegin, Allocate
<1>3. CASE AddToTensorQueue(r)
  BY <1>0, <1>3 DEF AddToTensorQueue
<1>4. CASE Synchronize(r)
  BY <1>0, <1>4 DEF Synchronize, Settled
<1>5. CASE SetTopologyRefused(r) \/ SetTopologyBegin(r) \/ SetTopologyUnfinished(r)
  BY <1>0, <1>5 DEF SetTopologyRefused, SetTopologyBegin, SetTopologyUnfinished, RequestPause
<1>6. CASE SetTopologyEnter(r) \/ SetTopologyLeave(r) \/ ClosePause(r)
  BY <1>0, <1>6 DEF SetTopologyEnter, SetTopologyLeave, ClosePause, EndPause
<1>7. CASE SkipNegotiateNow(r) \/ SkipNegotiateBegin(r) \/ SkipNegotiateApply(r)
  BY <1>0, <1>1, <1>7 DEF SkipNegotiateNow, SkipNegotiateBegin, SkipNegotiateApply
<1>8. CASE SuspendOrResume(r)
  BY <1>0, <1>1, <1>8 DEF SuspendOrResume
<1>9. CASE Shutdown(r)
  BY <1>0, <1>9 DEF Shutdown
<1>10. CASE Join(r)
  BY <1>0, <1>10 DEF Join
<1> QED
  BY <1>2, <1>3, <1>4, <1>5, <1>6, <1>7, <1>8, <1>9, <1>10 DEF UserStep

LEMMA WaitUser ==
    ASSUME NEW r \in Rank, IndInv, WaitInv, UserStep(r)
    PROVE  WaitInv'
<1>0. /\ program \in [Rank -> Seq(Call)] /\ DOMAIN mpc = Rank /\ DOMAIN status = Rank
      /\ suspended \in [Rank -> BOOLEAN] /\ shut_down \in [Rank -> BOOLEAN]
  BY DEF IndInv, TypeOK, UserOK, FlagOK
<1>1. /\ SoundProgram(Tail(program[r]))
      /\ Tail(program[r]) # <<>> /\ Head(Tail(program[r])).call = "shutdown"
           => Head(program[r]).call = "wait"
  BY <1>0, WaitCalls, TailSound DEF WaitInv
<1>2. ASSUME NEW q \in Rank, q # r
      PROVE  /\ program'[q] = program[q] /\ mpc'[q] = mpc[q] /\ status'[q] = status[q]
             /\ suspended'[q] = suspended[q] /\ shut_down'[q] = shut_down[q]
             /\ bpc'[q] = bpc[q]
  <2>1. program'[q] = program[q]
    BY <1>0, <1>2, WaitCalls
  <2>2. mpc'[q] = mpc[q]
    BY <1>0, <1>2, WaitCalls
  <2>3. suspended'[q] = suspended[q]
    BY <1>0, <1>2, WaitCalls
  <2>4. shut_down'[q] = shut_down[q]
    BY <1>0, <1>2, WaitCalls
  <2> QED
    BY <1>2, <2>1, <2>2, <2>3, <2>4, WaitCalls
<1>3. /\ program'[r] = program[r] \/ program'[r] = Tail(program[r])
      /\ mpc'[r] # "run" => program'[r] = program[r] /\ Head(program[r]).call # "wait"
      /\ mpc'[r] = "run" => program'[r] = Tail(program[r])
      /\ ~suspended'[r]
  <2>1. program'[r] = program[r] \/ program'[r] = Tail(program[r])
    BY <1>0, WaitCalls
  <2>2. mpc'[r] # "run" => program'[r] = program[r] /\ Head(program[r]).call # "wait"
    BY WaitCalls
  <2>3. mpc'[r] = "run" => program'[r] = Tail(program[r])
    BY <1>0, WaitCalls
  <2>4. ~suspended'[r]
    BY <1>0, WaitCalls DEF WaitInv
  <2> QED
    BY <2>1, <2>2, <2>3, <2>4
<1>4. SoundProgram(program[r])'
  <2>1. SoundProgram(program'[r])
    BY <1>1, <1>3 DEF WaitInv
  <2> QED
    BY <2>1
<1>5. ASSUME program'[r] # <<>>, Head(program'[r]).call = "shutdown"
      PROVE  Settled(r)'
  <2>1. CASE mpc'[r] # "run"
    BY <1>3, <1>5, <2>1, WaitCalls DEF WaitInv, Settled
  <2>2. CASE mpc'[r] = "run"
    <3>1. Head(program[r]).call = "wait"
      BY <1>1, <1>3, <1>5, <2>2
    <3> QED
      BY <3>1, WaitCalls DEF Settled
  <2> QED
    BY <2>1, <2>2
<1>6. ASSUME shut_down'[r], bpc'[r] \notin {"finalize", "down"}
      PROVE  mpc'[r] = "join" /\ program'[r] # <<>> /\ Head(program'[r]).call = "shutdown"
  <2>0. bpc'[r] = bpc[r] /\ program[r] # <<>>
    BY WaitCalls
  <2>1. CASE UNCHANGED shut_down /\ (mpc[r] = "join" => bpc[r] = "down")
    BY <1>6, <2>0, <2>1 DEF WaitInv
  <2>2. CASE mpc'[r] = "join" /\ Head(program[r]).call = "shutdown"
    BY <1>3, <2>0, <2>2
  <2> QED
    BY <2>1, <2>2, WaitCalls
<1>7. \A q \in Rank : q # r => SoundProgram(program[q])' /\ (Settled(q) => Settled(q)')
  BY <1>2 DEF WaitInv, SoundProgram, SoundOp, Settled
<1> QED
  BY <1>2, <1>3, <1>4, <1>5, <1>6, <1>7 DEF WaitInv

LEMMA WaitBackground ==
    ASSUME NEW r \in Rank, IndInv, WaitInv, BackgroundStep(r)
    PROVE  WaitInv'
<1>0. /\ DOMAIN bpc = Rank /\ DOMAIN shut_down = Rank /\ DOMAIN status = Rank
      /\ status \in [Rank -> Seq(Status)]
  BY DEF IndInv, TypeOK, UserOK, FlagOK, LocalOK
<1>1. UNCHANGED <<program, mpc, suspended>>
  BY DEF BackgroundStep, ReadFlags, PopMessagesFromQueue, ConvertNext, ConvertDone, RemoveNext,
     RemoveDone, PerformDirect, PerformResponse, Complete, DirectDone, SlaveSend, SlaveRecv,
     RespondDone, Unpark, Unparked, Exit, FinalizeTensorQueue, userVars, flagVars
<1>2. ASSUME NEW batch, NEW st \in Status \ {"pending"}, Callback(r, batch, st), NEW q \in Rank,
             Settled(q)
      PROVE  Settled(q)'
  <2>1. status'[q] = IF q = r
                       THEN [h \in DOMAIN status[r] |->
                               IF \E i \in DOMAIN batch : batch[i].handle = h THEN st
                                                                             ELSE status[r][h]]
                       ELSE status[q]
    BY <1>0, <1>2 DEF Callback
  <2> QED
    BY <1>2, <2>1 DEF Settled
<1>3. ASSUME NEW q \in Rank, Settled(q) PROVE Settled(q)'
  <2>1. CASE UNCHANGED status
    BY <1>3, <2>1 DEF Settled
  <2>2. ASSUME NEW batch, NEW pc, Perform(r, batch, pc) PROVE Settled(q)'
    BY <1>2, <1>3, <2>1, <2>2 DEF Perform, Status
  <2>3. CASE PerformDirect(r)
    BY <2>2, <2>3 DEF PerformDirect
  <2>4. CASE PerformResponse(r)
    <3> DEFINE batch == [i \in DOMAIN Head(todo[r]).keys |-> tensor_table[r][Head(todo[r]).keys[i]]]
    <3>1. UNCHANGED status \/ Callback(r, batch, "error") \/ Perform(r, batch, "responding")
      BY <2>4 DEF PerformResponse
    <3> QED
      BY <1>2, <1>3, <2>1, <2>2, <3>1 DEF Status
  <2>5. CASE Complete(r)
    <3>1. UNCHANGED status \/ Callback(r, running[r], "error") \/ Callback(r, running[r], "ok")
      BY <2>5 DEF Complete
    <3> QED
      BY <1>2, <1>3, <2>1, <3>1 DEF Status
  <2>6. CASE FinalizeTensorQueue(r)
    <3>1. status'[q] = IF q = r
                         THEN [h \in DOMAIN status[r] |->
                                 IF \E k \in DOMAIN tensor_table[r] : tensor_table[r][k].handle = h
                                   THEN "shutdown" ELSE status[r][h]]
                         ELSE status[q]
      BY <1>0, <2>6 DEF FinalizeTensorQueue
    <3> QED
      BY <1>3, <3>1 DEF Settled
  <2>7. CASE ~(PerformDirect(r) \/ PerformResponse(r) \/ Complete(r) \/ FinalizeTensorQueue(r))
    <3>1. UNCHANGED status
      BY <2>7 DEF BackgroundStep, ReadFlags, PopMessagesFromQueue, ConvertNext, ConvertDone,
         RemoveNext, RemoveDone, DirectDone, SlaveSend, SlaveRecv, RespondDone, Unpark, Unparked,
         Exit, userVars
    <3> QED
      BY <2>1, <3>1
  <2> QED
    BY <2>3, <2>4, <2>5, <2>6, <2>7
<1>4. ASSUME NEW q \in Rank, shut_down'[q], bpc'[q] \notin {"finalize", "down"}
      PROVE  shut_down[q] /\ bpc[q] \notin {"finalize", "down"}
  <2>1. CASE Exit(r)
    BY <1>0, <1>4, <2>1 DEF Exit, BGoto
  <2>2. CASE FinalizeTensorQueue(r)
    BY <1>0, <1>4, <2>2 DEF FinalizeTensorQueue, BGoto, flagVars
  <2>3. CASE ~(Exit(r) \/ FinalizeTensorQueue(r))
    <3>1. UNCHANGED shut_down /\ bpc[r] \notin {"finalize", "down"}
      BY <2>3 DEF BackgroundStep, ReadFlags, PopMessagesFromQueue, ConvertNext, ConvertDone,
         RemoveNext, RemoveDone, PerformDirect, PerformResponse, Complete, DirectDone, SlaveSend,
         SlaveRecv, RespondDone, Unpark, Unparked, flagVars
    <3>2. q # r => bpc'[q] = bpc[q]
      BY BackgroundMoves DEF IndInv
    <3> QED
      BY <1>4, <3>1, <3>2
  <2> QED
    BY <2>1, <2>2, <2>3
<1> QED
  BY <1>1, <1>3, <1>4 DEF WaitInv

LEMMA WaitStep == IndInv /\ WaitInv /\ [Next]_vars => WaitInv'
<1> SUFFICES ASSUME IndInv, WaitInv, [Next]_vars PROVE WaitInv'
  OBVIOUS
<1>1. CASE UNCHANGED vars
  BY <1>1, WaitFrame DEF vars, userVars, flagVars
<1>2. CASE Terminating
  BY <1>1, <1>2 DEF Terminating
<1>3. CASE CoordinatorStep
  <2>1. UNCHANGED <<program, mpc, status, suspended, shut_down>>
    BY <1>3 DEF CoordinatorStep, CountRequest, NextList, CountDone, ConstructNext, ConstructDone,
       FuseNext, Broadcast, coordUnchanged, userVars, flagVars
  <2>2. \A q \in Rank : bpc[q] \in {"finalize", "down"} => bpc'[q] = bpc[q]
    <3>1. DOMAIN bpc = Rank
      BY DEF IndInv, TypeOK, LocalOK
    <3>2. /\ bpc[Master] \notin {"finalize", "down"}
          /\ UNCHANGED bpc \/ \E pc : bpc' = [bpc EXCEPT ![Master] = pc]
      BY <1>3, Zenon DEF CoordinatorStep, CountRequest, NextList, CountDone, ConstructNext,
         ConstructDone, FuseNext, Broadcast, MasterGoto
    <3> QED
      BY <3>1, <3>2
  <2> QED
    BY <2>1, <2>2, WaitFrame
<1> QED
  BY <1>1, <1>2, <1>3, WaitUser, WaitBackground DEF Next

-----------------------------------------------------------------------------
(* No exception *)

LEMMA TensorStep ==
    IndInv /\ Negotiating /\ WaitInv /\ TensorInv /\ [Next]_vars => TensorInv'
<1> SUFFICES ASSUME IndInv, Negotiating, WaitInv, TensorInv, [Next]_vars PROVE TensorInv'
  OBVIOUS
<1>1. CASE UNCHANGED vars
  BY <1>1, TensorFrame DEF vars, queueVars, localVars, execVars, countVars, fuseVars, mpiVars,
     TensorInv
<1>2. CASE Terminating
  BY <1>1, <1>2 DEF Terminating
<1>3. ASSUME NEW r \in Rank, BackgroundStep(r) PROVE TensorInv'
  BY <1>3, TensorEntries, TensorAsks, TensorReplies DEF TensorInv
<1> QED
  BY <1>1, <1>2, <1>3, TensorUser, TensorCoordinator DEF Next

\* A rank that waits for nothing has nothing in its table.
LEMMA SettledTable ==
    ASSUME NEW r \in Rank, HandleType, HandlesOf(r), Settled(r)
    PROVE  DOMAIN tensor_table[r] = {}
<1> SUFFICES ASSUME NEW k \in DOMAIN tensor_table[r] PROVE FALSE
  OBVIOUS
<1> DEFINE h == tensor_table[r][k].handle
           I == {i \in DOMAIN tensor_table[r] : tensor_table[r][i] \in Entries(h)}
<1>1. tensor_table[r][k] \in Entry /\ h \in Nat \ {0}
  BY DEF HandleType, Entry
<1>2. k \in I
  BY <1>1 DEF Entries
<1>3. IsFiniteSet(I) /\ InTable(r, h) = Cardinality(I)
  BY CountMap DEF HandleType, IdleInv, InTable, Count
<1>4. InTable(r, h) # 0
  BY <1>2, <1>3, FS_EmptySet
<1> HIDE DEF h, I
<1>5. Pending(r, h) = 0
  BY DEF Settled, Pending
<1>6. Held(r, h) = Pending(r, h)
  BY <1>1 DEF HandlesOf
<1>7. /\ InTable(r, h) \in Nat /\ InEntries(r, h) \in Nat /\ InRunning(r, h) \in Nat
      /\ InCall(r, h) \in Nat
  BY HeldNat
<1> QED
  BY <1>4, <1>5, <1>6, <1>7 DEF Held, Stored

\* ... and no operation is under way either.
LEMMA SettledRunning ==
    ASSUME NEW r \in Rank, HandleType, HandlesOf(r), Settled(r)
    PROVE  running[r] = <<>>
<1> SUFFICES ASSUME running[r] # <<>> PROVE FALSE
  OBVIOUS
<1> DEFINE h == running[r][1].handle
<1>0. running[r] \in Seq(Entry)
  BY DEF HandleType
<1>1. 1 \in DOMAIN running[r] /\ running[r][1] \in Entry
  BY <1>0, LenProperties, EmptySeq, ElementOfSeq
<1>2. h \in Nat \ {0} /\ running[r][1] \in Entries(h)
  BY <1>1 DEF Entry, Entries
<1>3. InRunning(r, h) # 0
  BY <1>0, <1>1, <1>2, CountPositive DEF InRunning
<1> HIDE DEF h
<1>4. Pending(r, h) = 0 /\ Held(r, h) = Pending(r, h)
  BY <1>2 DEF Settled, Pending, HandlesOf
<1>5. /\ InTable(r, h) \in Nat /\ InEntries(r, h) \in Nat /\ InRunning(r, h) \in Nat
      /\ InCall(r, h) \in Nat
  BY HeldNat
<1> QED
  BY <1>3, <1>4, <1>5 DEF Held, Stored

\* What is answered is in the table.
LEMMA AnsweredEntry ==
    ASSUME NEW r \in Rank, TypeOK, AccountInv, bpc[r] # "down", NEW k \in TensorKey,
           Due(r, k) # 0 \/ Built(k) # 0 \/ Listed(k) # 0
    PROVE  k \in DOMAIN tensor_table[r]
<1>1. AccountType
  BY AccountTypes
<1>2. k \in NegotiatedKey
  BY DEF TensorKey, NegotiatedKey, KeySet, Prefix, OneSidedType
<1>3. Asked(r, k) + Replied(r, k) = Owed(r, k)
  BY <1>2 DEF AccountInv
<1>4. /\ Queued(r, k) \in Nat /\ Popped(r, k) \in Nat /\ Kept(r, k) \in Nat
      /\ Sent(r, k) \in Nat /\ Parsed(r, k) \in Nat /\ Tabled(r, k) \in Nat
      /\ Built(k) \in Nat /\ Listed(k) \in Nat /\ Answered(r, k) \in Nat
      /\ Due(r, k) \in Nat
  BY <1>1, CountsAreNat
<1>5. Owed(r, k) # 0
  <2>1. Replied(r, k) \in Nat /\ Replied(r, k) # 0
    <3> DEFINE b == Built(k)
               l == Listed(k)
               a == Answered(r, k)
               d == Due(r, k)
    <3>1. Replied(r, k) = b + l + a + d
      BY DEF Replied
    <3>2. b \in Nat /\ l \in Nat /\ a \in Nat /\ d \in Nat /\ (d # 0 \/ b # 0 \/ l # 0)
      BY <1>4
    <3> HIDE DEF b, l, a, d
    <3> QED
      BY <3>1, <3>2
  <2>2. Asked(r, k) \in Nat
    BY <1>4 DEF Asked
  <2> QED
    BY <1>3, <2>1, <2>2
<1> QED
  BY <1>5 DEF Owed

LEMMA NoAbortResponse ==
    ASSUME NEW r \in Rank, IndInv, WaitInv, TensorInv, AccountInv, IdleInv, HandleInv, NoAbort,
           PerformResponse(r)
    PROVE  bpc'[r] # "aborted"
<1> DEFINE response == Head(todo[r])
           keys     == response.keys
           batch    == [i \in DOMAIN keys |-> tensor_table[r][keys[i]]]
<1>1. bpc[r] = "respond" /\ todo[r] # <<>> /\ todo[r] \in Seq(TensorResponse)
  BY DEF PerformResponse, TensorInv, ReplyInv
<1>2. response \in TensorResponse /\ 1 \in DOMAIN todo[r] /\ response = todo[r][1]
  BY <1>1, HeadTailProperties, LenProperties, EmptySeq
<1>3. response \in Response /\ (\A i \in DOMAIN keys : keys[i] \in TensorKey)
      /\ keys \in Seq(KeySet) /\ keys # <<>>
  BY <1>2 DEF TensorResponse, Response
<1>4. 1 \in DOMAIN keys
  BY <1>3, LenProperties, EmptySeq
<1>5. ASSUME NEW i \in DOMAIN keys PROVE keys[i] \in DOMAIN tensor_table[r]
  <2>1. response \in Answering(keys[i])
    BY <1>3, <1>5 DEF Answering
  <2>2. Due(r, keys[i]) # 0
    <3>1. todo[r] \in Seq(Response)
      BY DEF IndInv, TypeOK, ExecOK
    <3> QED
      BY <1>2, <2>1, <3>1, CountPositive DEF Due
  <2> QED
    BY <1>1, <1>3, <1>5, <2>2, AnsweredEntry DEF IndInv
<1>6. ~shut_down[r]
  <2> SUFFICES ASSUME shut_down[r] PROVE FALSE
    OBVIOUS
  <2>1. Settled(r)
    BY <1>1 DEF WaitInv
  <2>2. HandleType /\ HandlesOf(r)
    BY <1>1, HandleTypes DEF IndInv, HandleInv
  <2>3. DOMAIN tensor_table[r] = {}
    BY <2>1, <2>2, SettledTable
  <2> QED
    BY <1>4, <1>5, <2>3
<1>7. batch[1] = tensor_table[r][keys[1]] /\ SoundOp(batch[1].op)
  BY <1>4, <1>5 DEF TensorInv, EntryInv
<1> HIDE DEF keys, batch
<1>8. ~Throws(r, batch)
  <2>1. OneSidedType \subseteq WindowType
    BY DEF OneSidedType, WindowType
  <2> QED
    BY <1>6, <1>7, <2>1 DEF Throws, FusionRefused, SoundOp, WaitInv
<1>9. \/ UNCHANGED bpc
      \/ Perform(r, batch, "responding")
  BY <1>5 DEF PerformResponse, keys, batch
<1>10. UNCHANGED bpc \/ bpc' = [bpc EXCEPT ![r] = "responding"]
  BY <1>8, <1>9 DEF Perform, BGoto
<1>11. DOMAIN bpc = Rank
  BY DEF IndInv, TypeOK, LocalOK
<1> QED
  BY <1>10, <1>11 DEF NoAbort

\* The fusion buffer is there for an operation whose lists had to be gathered:
\* nobody shuts down before its handle is done.
LEMMA NoAbortComplete ==
    ASSUME NEW r \in Rank, IndInv, WaitInv, IdleInv, HandleInv, NoAbort, Complete(r)
    PROVE  bpc'[r] # "aborted"
<1>1. HandleType /\ HandlesOf(r)
  BY HandleTypes DEF IndInv, HandleInv, NoAbort
<1>2. bpc[r] \in {"directing", "responding"}
  BY DEF Complete
<1>3. running[r] # <<>>
  BY <1>2 DEF IndInv, TypeOK, RunningInv
<1>4. ~shut_down[r]
  <2> SUFFICES ASSUME shut_down[r] PROVE FALSE
    OBVIOUS
  <2>1. Settled(r)
    BY <1>2 DEF WaitInv
  <2> QED
    BY <1>1, <1>3, <2>1, SettledRunning
<1>5. ~ThrowsAfterCheck(r)
  BY <1>4 DEF ThrowsAfterCheck, FusionRefused, WaitInv
<1>6. \E pc \in {"direct", "respond"} : bpc' = [bpc EXCEPT ![r] = pc]
  BY <1>5 DEF Complete, BGoto
<1> QED
  BY <1>6 DEF IndInv, TypeOK, LocalOK

LEMMA NoAbortFuse ==
    ASSUME IndInv, TensorInv, AuxInv, AccountInv, NoAbort, FuseNext
    PROVE  UNCHANGED bpc
<1> DEFINE new == Head(responses)
           k   == new.keys[1]
<1>1. bpc[Master] = "fuse" /\ responses # <<>> /\ responses \in Seq(TensorResponse)
  BY DEF FuseNext, TensorInv, ReplyInv
<1>2. new \in TensorResponse /\ 1 \in DOMAIN responses /\ new = responses[1]
  BY <1>1, HeadTailProperties, LenProperties, EmptySeq
<1>3. new \in Response /\ new.keys \in Seq(KeySet) /\ new.keys # <<>>
      /\ (\A i \in DOMAIN new.keys : new.keys[i] \in TensorKey)
  BY <1>2 DEF TensorResponse, Response
<1>4. 1 \in DOMAIN new.keys
  BY <1>3, LenProperties, EmptySeq
<1>5. k \in TensorKey /\ new \in Answering(k)
  BY <1>3, <1>4 DEF Answering
<1>6. k \in DOMAIN tensor_table[Master]
  <2>1. responses \in Seq(Response)
    BY DEF IndInv, TypeOK, FuseOK
  <2>2. Built(k) # 0
    BY <1>2, <1>5, <2>1, CountPositive DEF Built
  <2> HIDE DEF k
  <2> QED
    BY <1>1, <1>5, <2>2, MasterRank, AnsweredEntry DEF IndInv
<1>7. HasTensor(MasterOp(k))
  <2>1. SoundOp(MasterOp(k))
    BY <1>6, MasterRank DEF TensorInv, EntryInv, MasterOp
  <2> QED
    BY <2>1 DEF SoundOp, HasTensor, WindowType, OneSidedType
<1>8. ~FusionFault(new)
  BY <1>6, <1>7 DEF FusionFault
<1> QED
  BY <1>8, Zenon DEF FuseNext

LEMMA NoAbortStep ==
    ASSUME IndInv, Negotiating, WaitInv, TensorInv, AuxInv, AccountInv, IdleInv, HandleInv,
           NoAbort, [Next]_vars
    PROVE  NoAbort'
<1>0. bpc \in [Rank -> BPC]
  BY DEF IndInv, TypeOK, LocalOK
<1>1. CASE UNCHANGED bpc
  BY <1>1 DEF NoAbort
<1>2. ASSUME NEW r \in Rank, UserStep(r) PROVE NoAbort'
  BY <1>1, <1>2, WaitCalls
<1>3. ASSUME NEW r \in Rank, BackgroundStep(r) PROVE NoAbort'
  <2>1. \A q \in Rank : q # r => bpc'[q] = bpc[q]
    BY <1>3, BackgroundMoves DEF IndInv
  <2>2. bpc'[r] # "aborted"
    <3>1. ~PerformDirect(r) /\ (ConvertNext(r) => UNCHANGED bpc)
      BY <1>3, TensorEntries
    <3>2. CASE PerformResponse(r)
      BY <3>2, NoAbortResponse
    <3>3. CASE Complete(r)
      BY <3>3, NoAbortComplete
    <3>4. CASE ~(PerformResponse(r) \/ Complete(r))
      BY <1>0, <1>3, <3>1, <3>4 DEF BackgroundStep, ReadFlags, PopMessagesFromQueue, ConvertDone,
         RemoveNext, RemoveDone, DirectDone, SlaveSend, SlaveRecv, RespondDone, Unpark,
         Unparked, Exit, FinalizeTensorQueue, EndCycle, NextCycle, BGoto, NoAbort
    <3> QED
      BY <3>2, <3>3, <3>4
  <2> QED
    BY <2>1, <2>2 DEF NoAbort
<1>4. CASE CoordinatorStep
  <2>1. CASE FuseNext
    BY <1>1, <2>1, NoAbortFuse
  <2>2. CASE ~FuseNext
    BY <1>0, <1>4, <2>2, MasterRank DEF CoordinatorStep, CountRequest, NextList, CountDone,
       ConstructNext, ConstructDone, Broadcast, MasterGoto, NoAbort
  <2> QED
    BY <2>1, <2>2
<1>5. Terminating \/ UNCHANGED vars => UNCHANGED bpc
  BY DEF Terminating, vars
<1> QED
  BY <1>1, <1>2, <1>3, <1>4, <1>5 DEF Next

LEMMA SoundJob ==
    ASSUME \A p \in Programs : \A r \in Rank : SoundProgram(p[r]), Init
    PROVE  SkipFree /\ TensorJob /\ WaitInv /\ NoAbort
<1>1. program \in [Rank -> Seq(Call)] /\ \A r \in Rank : SoundProgram(program[r])
  BY ProgramsAssumption DEF Init
<1>2. /\ \A r \in Rank : status[r] = <<>> /\ mpc[r] = "run" /\ bpc[r] = "top" /\ ~suspended[r]
                         /\ ~shut_down[r] /\ ~skip[r]
  BY DEF Init
<1>3. DOMAIN <<>> = {}
  OBVIOUS
<1>4. WaitInv /\ NoAbort
  BY <1>1, <1>2, <1>3 DEF WaitInv, Settled, NoAbort
<1>5. SkipFree /\ TensorJob
  BY <1>1, <1>2 DEF SoundProgram, SoundOp, SkipFree, Negotiating, NeverSkip, TensorJob, TensorOnly
<1> QED
  BY <1>4, <1>5

\* The background threads meet neither a failed assertion nor an exception, and
\* no callback is lost or run twice, in every job whose programs work on tensors
\* only, keep the negotiation on, do not suspend, and synchronize before they
\* shut down: the assertions of GetTensorEntriesFromResponse and GetTensorEntry
\* hold, and GetBluefogFusionBuffer is never called after shut_down is set.
THEOREM NoFault ==
    ASSUME \A p \in Programs : \A r \in Rank : SoundProgram(p[r])
    PROVE  Spec => [](NoAbort /\ HandleAccounting)
<1> DEFINE Inv == /\ IndInv /\ ShutdownInv /\ NegotiationInv /\ HandleIndInv
                  /\ SkipFree /\ TensorJob /\ WaitInv /\ TensorInv /\ NoAbort
<1>1. Init => Inv
  BY IndInit, ShutdownInit, AuxInit, TableInit, AccountInit, AnswerInit, HandleInit, TensorInit,
     SoundJob DEF NegotiationInv, HandleIndInv
<1>2. Inv /\ [Next]_vars => Inv'
  <2> SUFFICES ASSUME Inv, [Next]_vars PROVE Inv'
    OBVIOUS
  <2>1. Negotiating /\ NoOverlap /\ TypeOK
    BY TensorJobOverlap DEF SkipFree, IndInv
  <2>2. IndInv' /\ ShutdownInv' /\ SkipFree' /\ TensorJob'
    BY <2>1, IndStep, ShutdownStep, SkipFreeStep, TensorJobStep
  <2>3. NegotiationInv'
    BY <2>1, AccountStep
  <2>4. HandleIndInv'
    BY <2>1, HandleStep
  <2>5. WaitInv' /\ TensorInv'
    BY <2>1, WaitStep, TensorStep
  <2>6. NoAbort'
    BY <2>1, NoAbortStep DEF NegotiationInv, HandleIndInv
  <2> QED
    BY <2>2, <2>3, <2>4, <2>5, <2>6
<1>3. Inv => NoAbort /\ HandleAccounting
  BY HandleSafe DEF IndInv, HandleIndInv
<1> QED
  BY <1>1, <1>2, <1>3, PTL DEF Spec

-----------------------------------------------------------------------------
(* The same calls in the same order *)

\* The responses rank r has still to execute: those it was sent, or what is left.
Remain(r) == IF bcast[r] = <<>> THEN todo[r] ELSE Head(bcast[r]).responses

\* How many of the first n responses of x lead to a collective call.
Calling(x, n) == Cardinality({i \in 1 .. n : x[i].type # "ERROR"})

\* Two tables have the same operation under every name of response a.
Agree(t, u, a) == \A i \in DOMAIN a.keys : SameOp(t[a.keys[i]].op, u[a.keys[i]].op)

\* c is such a call as a rank with table t and graph e makes for response a, and
\* the very call it makes.
SameCall(c, t, e, a) ==
    /\ c.epoch = e
    /\ Len(c.ops) = Len(a.keys)
    /\ \A i \in DOMAIN a.keys : SameOp(t[a.keys[i]].op, c.ops[i])

Made(c, t, e, a) ==
    /\ c.epoch = e
    /\ Len(c.ops) = Len(a.keys)
    /\ \A i \in DOMAIN a.keys : c.ops[i] = t[a.keys[i]].op

\* The names of the responses after the first of x are in table t2 as in t.
Spared(x, t, t2) ==
    \A j \in 2 .. Len(x) : \A i \in DOMAIN x[j].keys : t2[x[j].keys[i]] = t[x[j].keys[i]]

\* Calls h2 are calls h and the one for response a, which is none for an error.
Grown(h, t, e, a, h2) ==
    /\ Len(h2) = Len(h) + (IF a.type # "ERROR" THEN 1 ELSE 0)
    /\ \A n \in 1 .. Len(h) : h2[n] = h[n]
    /\ a.type # "ERROR" => Made(h2[Len(h) + 1], t, e, a)

(***************************************************************************)
(* A rank with the responses x to execute, the calls h made, table t and    *)
(* graph e is behind one with y, g and u: the other has executed the first  *)
(* responses of x.  For each of these that is no error it has made the call *)
(* that is due for it, and these are the only calls by which it is ahead;   *)
(* on the others the two tables agree.                                      *)
(***************************************************************************)
Follows(x, h, t, e, y, g, u) ==
    LET m == Len(x) - Len(y) IN
    /\ \A i \in DOMAIN y : y[i] = x[m + i]
    /\ Len(g) = Len(h) + Calling(x, m)
    /\ \A j \in 1 .. m : x[j].type # "ERROR" => SameCall(g[Len(h) + Calling(x, j)], t, e, x[j])
    /\ \A j \in DOMAIN y : y[j].type # "ERROR" => Agree(t, u, y[j])

Behind(r, s) == Follows(Remain(r), hist[r], tensor_table[r], epoch[r],
                        Remain(s), hist[s], tensor_table[s])

PairInv == \A r, s \in Rank : Len(Remain(s)) <= Len(Remain(r)) => Behind(r, s)

\* All ranks agree on what the coordinator is about to send.
DraftInv ==
    \A r, s \in Rank :
        /\ \A i \in DOMAIN responses : responses[i].type # "ERROR" =>
              Agree(tensor_table[r], tensor_table[s], responses[i])
        /\ \A i \in DOMAIN response_list : response_list[i].type # "ERROR" =>
              Agree(tensor_table[r], tensor_table[s], response_list[i])

\* A request on its way has an entry on its rank and says what the entry says.
Travelling(r) ==
    Elements(message_queue[r]) \cup Elements(buffer[r]) \cup Elements(kept[r])
    \cup (IF gather[r] = <<>> THEN {} ELSE Elements(Head(gather[r]).requests))
    \cup Elements(inbox) \cup UNION {Elements(message_table[k]) : k \in DOMAIN message_table}
LinkInv ==
    \A r \in Rank : bpc[r] # "down" =>
        \A q \in Travelling(r) : q.rank = r =>
            q.key \in DOMAIN tensor_table[r] /\ q = RequestOf(r, tensor_table[r][q.key].op)

\* A rank whose graph is older than that of another is about to leave the same
\* graph creation.
EpochInv ==
    \A r, s \in Rank : /\ epoch[s] <= epoch[r] + 1
                       /\ epoch[r] < epoch[s] => mpc[r] = "building"

MatchInv == PairInv /\ DraftInv /\ LinkInv /\ EpochInv

-----------------------------------------------------------------------------
LEMMA SameOpSymmetric ==
    ASSUME NEW a, NEW b, SameOp(a, b)
    PROVE  SameOp(b, a)
BY DEF SameOp

LEMMA CallingFinite ==
    ASSUME NEW x, NEW n \in Nat
    PROVE  /\ IsFiniteSet({i \in 1 .. n : x[i].type # "ERROR"})
           /\ Calling(x, n) \in Nat
<1>1. IsFiniteSet(1 .. n)
  BY FS_Interval
<1>2. {i \in 1 .. n : x[i].type # "ERROR"} \in SUBSET (1 .. n)
  OBVIOUS
<1> QED
  BY <1>1, <1>2, FS_Subset, FS_CardinalityType DEF Calling

LEMMA CallingNone == \A x : Calling(x, 0) = 0
<1> SUFFICES ASSUME NEW x PROVE Calling(x, 0) = 0
  OBVIOUS
<1>1. {i \in 1 .. 0 : x[i].type # "ERROR"} = {}
  OBVIOUS
<1> QED
  BY <1>1, FS_EmptySet DEF Calling

LEMMA CallingNext ==
    ASSUME NEW x, NEW n \in Nat
    PROVE  Calling(x, n + 1) = Calling(x, n) + (IF x[n + 1].type # "ERROR" THEN 1 ELSE 0)
<1> DEFINE I == {i \in 1 .. n : x[i].type # "ERROR"}
           J == {i \in 1 .. n + 1 : x[i].type # "ERROR"}
<1>1. IsFiniteSet(I) /\ Calling(x, n) = Cardinality(I) /\ Calling(x, n + 1) = Cardinality(J)
      /\ Cardinality(I) \in Nat
  BY CallingFinite DEF Calling
<1>2. CASE x[n + 1].type # "ERROR"
  <2>1. J = I \cup {n + 1} /\ n + 1 \notin I
    BY <1>2
  <2> QED
    BY <1>1, <1>2, <2>1, FS_AddElement
<1>3. CASE x[n + 1].type = "ERROR"
  <2>1. J = I
    BY <1>3
  <2> HIDE DEF I, J
  <2> QED
    BY <1>1, <1>3, <2>1
<1> QED
  BY <1>2, <1>3

LEMMA CallingMonotone ==
    ASSUME NEW x, NEW m \in Nat, NEW n \in Nat, m <= n
    PROVE  Calling(x, m) <= Calling(x, n)
<1>1. {i \in 1 .. m : x[i].type # "ERROR"} \subseteq {i \in 1 .. n : x[i].type # "ERROR"}
  OBVIOUS
<1> QED
  BY <1>1, CallingFinite, FS_Subset DEF Calling

LEMMA CallingTail ==
    ASSUME NEW S, NEW x \in Seq(S), x # <<>>, NEW n \in Nat, n < Len(x)
    PROVE  Calling(x, n + 1) = Calling(Tail(x), n) + (IF x[1].type # "ERROR" THEN 1 ELSE 0)
<1> DEFINE J == {i \in 1 .. n : Tail(x)[i].type # "ERROR"}
           K == {i \in 2 .. n + 1 : x[i].type # "ERROR"}
           I == {i \in 1 .. n + 1 : x[i].type # "ERROR"}
           f == [i \in J |-> i + 1]
<1>1. IsFiniteSet(J) /\ Calling(Tail(x), n) = Cardinality(J) /\ Calling(x, n + 1) = Cardinality(I)
      /\ Cardinality(J) \in Nat
  BY CallingFinite DEF Calling
<1>2. \A i \in 1 .. n : Tail(x)[i] = x[i + 1]
  BY HeadTailProperties, LenProperties
<1>3. f \in Bijection(J, K)
  <2>1. f \in [J -> K]
    BY <1>2
  <2>2. \A a, b \in J : f[a] = f[b] => a = b
    OBVIOUS
  <2>3. ASSUME NEW k \in K PROVE \E a \in J : f[a] = k
    <3>1. k - 1 \in J /\ (k - 1) + 1 = k
      BY <1>2, <2>3
    <3> QED
      BY <3>1
  <2> HIDE DEF f, J, K
  <2> QED
    BY <2>1, <2>2, <2>3 DEF Bijection, Injection, Surjection, IsInjective
<1>4. IsFiniteSet(K) /\ Cardinality(K) = Cardinality(J)
  <2> HIDE DEF f, J, K
  <2> QED
    BY <1>1, <1>3, FS_Bijection DEF ExistsBijection
<1>5. CASE x[1].type # "ERROR"
  <2>1. I = K \cup {1} /\ 1 \notin K
    BY <1>5
  <2> HIDE DEF I, J, K
  <2> QED
    BY <1>1, <1>4, <1>5, <2>1, FS_AddElement
<1>6. CASE x[1].type = "ERROR"
  <2>1. I = K
    BY <1>6
  <2> HIDE DEF I, J, K
  <2> QED
    BY <1>1, <1>4, <1>6, <2>1
<1> QED
  BY <1>5, <1>6

-----------------------------------------------------------------------------
(* The graph is replaced by all ranks together *)

LEMMA EpochUser ==
    ASSUME NEW r \in Rank, TypeOK, EpochInv, UserStep(r)
    PROVE  /\ EpochInv'
           /\ UNCHANGED hist
           /\ UNCHANGED epoch \/ (mpc[r] = "building" /\ \A q \in Rank \ {r} : epoch'[q] = epoch[q])
<1>0. /\ mpc \in [Rank -> MPC] /\ epoch \in [Rank -> Nat]
  BY DEF TypeOK, UserOK, MpiOK
<1>1. CASE SetTopologyLeave(r)
  <2>1. /\ mpc[r] = "building" /\ mpc' = [mpc EXCEPT ![r] = "close"] /\ UNCHANGED hist
        /\ epoch' = [epoch EXCEPT ![r] = epoch[r] + 1]
        /\ \A s \in Rank : epoch[s] > epoch[r] \/ (epoch[s] = epoch[r] /\ mpc[s] = "building")
    BY <1>1 DEF SetTopologyLeave, EndPause, Goto, At, GraphReady
  <2>2. \A q \in Rank : /\ epoch'[q] = IF q = r THEN epoch[r] + 1 ELSE epoch[q]
                        /\ q # r => mpc'[q] = mpc[q]
    BY <1>0, <2>1
  <2>3. ASSUME NEW p \in Rank, NEW q \in Rank
        PROVE  epoch'[q] <= epoch'[p] + 1 /\ (epoch'[p] < epoch'[q] => mpc'[p] = "building")
    <3>0. epoch[p] \in Nat /\ epoch[q] \in Nat /\ epoch[r] \in Nat
      BY <1>0
    <3>1. CASE p = r /\ q = r
      BY <2>2, <3>0, <3>1
    <3>2. CASE p # r /\ q = r
      BY <2>1, <2>2, <3>0, <3>2
    <3>3. CASE p = r /\ q # r
      BY <2>2, <3>0, <3>3 DEF EpochInv
    <3>4. CASE p # r /\ q # r
      BY <2>2, <3>0, <3>4 DEF EpochInv
    <3> QED
      BY <3>1, <3>2, <3>3, <3>4
  <2> QED
    BY <2>1, <2>2, <2>3 DEF EpochInv
<1>2. CASE ~SetTopologyLeave(r)
  <2>1. UNCHANGED <<epoch, hist>>
    BY <1>2 DEF UserStep, EnqueueFail, EnqueueBegin, AddToTensorQueue, Synchronize,
       SetTopologyRefused, SetTopologyBegin, SetTopologyUnfinished, SetTopologyEnter, ClosePause,
       SkipNegotiateNow, SkipNegotiateBegin, SkipNegotiateApply, SuspendOrResume, Shutdown, Join,
       RequestPause, mpiVars
  <2>2. \A q \in Rank : mpc[q] = "building" => mpc'[q] = "building"
    BY <1>0, <1>2 DEF UserStep, EnqueueFail, EnqueueBegin, AddToTensorQueue, Synchronize,
       SetTopologyRefused, SetTopologyBegin, SetTopologyUnfinished, SetTopologyEnter, ClosePause,
       SkipNegotiateNow, SkipNegotiateBegin, SkipNegotiateApply, SuspendOrResume, Shutdown, Join,
       RequestPause, EndPause, Goto, Return, Calls, Paused, At
  <2> QED
    BY <2>1, <2>2 DEF EpochInv
<1> QED
  BY <1>1, <1>2

LEMMA EpochFrame ==
    EpochInv /\ UNCHANGED <<epoch, mpc>> => EpochInv'
BY DEF EpochInv

\* Two ranks with responses to execute have the same graph.
LEMMA SameEpoch ==
    ASSUME NEW r \in Rank, NEW s \in Rank, TypeOK, Handshake, EpochInv,
           bpc[r] # "park", bpc[s] # "park"
    PROVE  epoch[r] = epoch[s]
<1>1. epoch[r] \in Nat /\ epoch[s] \in Nat
  BY DEF TypeOK, MpiOK
<1>2. mpc[r] # "building" /\ mpc[s] # "building"
  BY DEF Handshake
<1> QED
  BY <1>1, <1>2 DEF EpochInv

-----------------------------------------------------------------------------
(* What a rank has still to execute *)

LEMMA RemainType ==
    ASSUME NEW r \in Rank, TypeOK, TensorInv
    PROVE  /\ Remain(r) \in Seq(Response)
           /\ \A j \in DOMAIN Remain(r) :
                /\ Remain(r)[j] \in Response
                /\ \A i \in DOMAIN Remain(r)[j].keys : Remain(r)[j].keys[i] \in TensorKey
<1>1. /\ todo[r] \in Seq(Response) /\ bcast[r] \in Seq(ResponseList)
      /\ todo[r] \in Seq(TensorResponse)
      /\ \A n \in DOMAIN bcast[r] : bcast[r][n].responses \in Seq(TensorResponse)
  BY DEF TypeOK, ExecOK, MpiOK, TensorInv, ReplyInv
<1>2. bcast[r] # <<>> => /\ Head(bcast[r]) \in ResponseList
                         /\ Head(bcast[r]).responses \in Seq(TensorResponse)
  BY <1>1, HeadTailProperties, LenProperties, EmptySeq
<1>3. Remain(r) \in Seq(Response)
  BY <1>1, <1>2 DEF Remain, ResponseList
<1>4. Remain(r) \in Seq(TensorResponse)
  BY <1>1, <1>2 DEF Remain
<1>5. \A j \in DOMAIN Remain(r) : Remain(r)[j] \in TensorResponse
  BY <1>4, ElementOfSeq, LenProperties
<1> QED
  BY <1>3, <1>5 DEF TensorResponse

LEMMA RemainPlace ==
    ASSUME NEW r \in Rank, TypeOK, ShutdownInv, AuxInv, NoAbort, Remain(r) # <<>>
    PROVE  bpc[r] \in {"recv", "respond", "responding"}
<1>1. CASE bcast[r] = <<>>
  BY <1>1 DEF Remain, AuxInv, StageInv, NoAbort
<1>2. CASE bcast[r] # <<>>
  BY <1>2 DEF AuxInv, StageInv, ShutdownInv, BcastInv, Workers
<1> QED
  BY <1>1, <1>2

LEMMA RemainCounted ==
    ASSUME NEW r \in Rank, NEW k \in TensorKey, TypeOK, AccountInv, bpc[r] # "down"
    PROVE  /\ Count(Remain(r), Answering(k)) <= Owed(r, k)
           /\ Asked(r, k) <= Owed(r, k) - Count(Remain(r), Answering(k))
           /\ Count(Remain(r), Answering(k)) \in Nat /\ Asked(r, k) \in Nat
<1>1. AccountType
  BY AccountTypes
<1>2. k \in NegotiatedKey
  BY DEF TensorKey, NegotiatedKey, KeySet, Prefix, OneSidedType
<1>3. Asked(r, k) + Replied(r, k) = Owed(r, k)
  BY <1>2 DEF AccountInv
<1>4. /\ Queued(r, k) \in Nat /\ Popped(r, k) \in Nat /\ Kept(r, k) \in Nat
      /\ Sent(r, k) \in Nat /\ Parsed(r, k) \in Nat /\ Tabled(r, k) \in Nat
      /\ Built(k) \in Nat /\ Listed(k) \in Nat /\ Answered(r, k) \in Nat
      /\ Due(r, k) \in Nat
  BY <1>1, CountsAreNat
<1>5. Asked(r, k) \in Nat
  BY <1>4 DEF Asked
<1>6. Count(Remain(r), Answering(k)) = Due(r, k) \/ Count(Remain(r), Answering(k)) = Answered(r, k)
  BY DEF Remain, Due, Answered
<1>7. Replied(r, k) \in Nat /\ Due(r, k) <= Replied(r, k) /\ Answered(r, k) <= Replied(r, k)
  <2> DEFINE b == Built(k)
             l == Listed(k)
             a == Answered(r, k)
             d == Due(r, k)
  <2>1. Replied(r, k) = b + l + a + d
    BY DEF Replied
  <2>2. b \in Nat /\ l \in Nat /\ a \in Nat /\ d \in Nat
    BY <1>4
  <2> HIDE DEF b, l, a, d
  <2>3. Replied(r, k) \in Nat /\ d <= Replied(r, k) /\ a <= Replied(r, k)
    BY <2>1, <2>2
  <2> QED
    BY <2>3 DEF a, d
<1>8. Owed(r, k) \in {0, 1}
  BY DEF Owed
<1> DEFINE c == Count(Remain(r), Answering(k))
<1>9. c \in Nat /\ c <= Replied(r, k)
  BY <1>4, <1>6, <1>7
<1> HIDE DEF c
<1>10. c <= Owed(r, k) /\ Asked(r, k) <= Owed(r, k) - c
  BY <1>3, <1>5, <1>7, <1>8, <1>9
<1> QED
  BY <1>5, <1>9, <1>10 DEF c

\* Every name in what remains has its entry, no two responses have the same name, and
\* nothing is asked under it.
LEMMA RemainEntries ==
    ASSUME NEW r \in Rank, TypeOK, ShutdownInv, AuxInv, NoAbort, AccountInv, TensorInv,
           NEW j \in DOMAIN Remain(r), NEW i \in DOMAIN Remain(r)[j].keys
    PROVE  /\ Remain(r)[j].keys[i] \in DOMAIN tensor_table[r]
           /\ Asked(r, Remain(r)[j].keys[i]) = 0
           /\ \A m \in DOMAIN Remain(r) : \A n \in DOMAIN Remain(r)[m].keys :
                Remain(r)[m].keys[n] = Remain(r)[j].keys[i] => m = j
<1> DEFINE k == Remain(r)[j].keys[i]
           c == Count(Remain(r), Answering(k))
<1>1. Remain(r) \in Seq(Response) /\ k \in TensorKey
  BY RemainType
<1>2. \A m \in DOMAIN Remain(r) : Remain(r)[m] \in Response
  BY RemainType
<1>3. Remain(r)[j] \in Answering(k)
  BY <1>2 DEF Answering
<1>4. bpc[r] # "down"
  <2>1. Remain(r) # <<>>
    OBVIOUS
  <2> QED
    BY <2>1, RemainPlace
<1>5. \A m \in DOMAIN Remain(r) : \A n \in DOMAIN Remain(r)[m].keys :
        Remain(r)[m].keys[n] = k => Remain(r)[m] \in Answering(k)
  BY <1>2 DEF Answering
<1> HIDE DEF k
<1>6. c <= Owed(r, k) /\ Asked(r, k) <= Owed(r, k) - c /\ c \in Nat /\ Asked(r, k) \in Nat
  BY <1>1, <1>4, RemainCounted
<1>7. c # 0
  BY <1>1, <1>3, CountPositive
<1>8. Owed(r, k) \in {0, 1}
  BY DEF Owed
<1> HIDE DEF c
<1>9. c = 1 /\ Owed(r, k) = 1 /\ Asked(r, k) = 0
  BY <1>6, <1>7, <1>8
<1>10. \A m \in DOMAIN Remain(r) : Remain(r)[m] \in Answering(k) => m = j
  <2>1. Count(Remain(r), Answering(k)) <= 1
    BY <1>9 DEF c
  <2> QED
    BY <1>1, <1>3, <2>1, CountPositive
<1>11. k \in DOMAIN tensor_table[r]
  BY <1>9 DEF Owed
<1> QED
  BY <1>5, <1>9, <1>10, <1>11 DEF k

-----------------------------------------------------------------------------
(* One rank behind another *)

LEMMA FollowsKept ==
    ASSUME NEW x \in Seq(Response), NEW y \in Seq(Response), Len(y) <= Len(x),
           NEW h, NEW g, NEW t, NEW u, NEW e, NEW t2, NEW u2, NEW e2,
           Follows(x, h, t, e, y, g, u), x # <<>> => e2 = e,
           \A j \in DOMAIN x : \A i \in DOMAIN x[j].keys : t2[x[j].keys[i]] = t[x[j].keys[i]],
           \A j \in DOMAIN y : \A i \in DOMAIN y[j].keys : u2[y[j].keys[i]] = u[y[j].keys[i]]
    PROVE  Follows(x, h, t2, e2, y, g, u2)
<1> DEFINE m == Len(x) - Len(y)
<1>1. /\ DOMAIN x = 1 .. Len(x) /\ DOMAIN y = 1 .. Len(y) /\ Len(x) \in Nat /\ Len(y) \in Nat
  BY LenProperties
<1>2. /\ m \in Nat /\ \A j \in 1 .. m : j \in DOMAIN x
      /\ \A i \in DOMAIN y : m + i \in DOMAIN x
  BY <1>1
<1>3. /\ \A i \in DOMAIN y : y[i] = x[m + i]
      /\ Len(g) = Len(h) + Calling(x, m)
      /\ \A j \in 1 .. m : x[j].type # "ERROR" => SameCall(g[Len(h) + Calling(x, j)], t, e, x[j])
      /\ \A j \in DOMAIN y : y[j].type # "ERROR" => Agree(t, u, y[j])
  BY DEF Follows
<1> HIDE DEF m
<1>4. ASSUME NEW j \in 1 .. m, x[j].type # "ERROR"
      PROVE  SameCall(g[Len(h) + Calling(x, j)], t2, e2, x[j])
  <2>1. j \in DOMAIN x /\ x # <<>>
    BY <1>2, <1>4
  <2> QED
    BY <1>3, <1>4, <2>1 DEF SameCall
<1>5. ASSUME NEW j \in DOMAIN y, y[j].type # "ERROR"
      PROVE  Agree(t2, u2, y[j])
  <2>1. y[j] = x[m + j] /\ m + j \in DOMAIN x /\ Agree(t, u, y[j])
    BY <1>2, <1>3, <1>5
  <2> QED
    BY <2>1 DEF Agree
<1> QED
  BY <1>3, <1>4, <1>5 DEF Follows, m

\* Two ranks that are at the same place.
LEMMA FollowsEqual ==
    ASSUME NEW x \in Seq(Response), NEW y \in Seq(Response), Len(y) = Len(x),
           NEW h \in Seq(Collective), NEW g \in Seq(Collective), NEW t, NEW u, NEW e, NEW e2,
           Follows(x, h, t, e, y, g, u)
    PROVE  Follows(y, g, u, e2, x, h, t)
<1>1. /\ DOMAIN x = 1 .. Len(x) /\ DOMAIN y = 1 .. Len(y) /\ Len(x) \in Nat /\ Len(y) \in Nat
      /\ Len(h) \in Nat /\ Len(g) \in Nat
  BY LenProperties
<1>2. Len(x) - Len(y) = 0 /\ Len(y) - Len(x) = 0
  BY <1>1
<1>3. /\ \A i \in DOMAIN y : y[i] = x[i]
      /\ Len(g) = Len(h)
      /\ \A j \in DOMAIN y : y[j].type # "ERROR" => Agree(t, u, y[j])
  BY <1>1, <1>2, CallingNone DEF Follows
<1>4. \A i \in DOMAIN x : x[i] = y[0 + i]
  BY <1>1, <1>3
<1>5. \A j \in DOMAIN x : x[j].type # "ERROR" => Agree(u, t, x[j])
  BY <1>1, <1>3, SameOpSymmetric DEF Agree
<1>6. Len(h) = Len(g) + Calling(y, 0)
  BY <1>1, <1>3, CallingNone
<1> QED
  BY <1>2, <1>4, <1>5, <1>6 DEF Follows

\* The rank that is behind executes its next response.
LEMMA FollowsTail ==
    ASSUME NEW x \in Seq(Response), NEW y \in Seq(Response), Len(y) < Len(x),
           NEW h \in Seq(Collective), NEW g \in Seq(Collective), NEW h2 \in Seq(Collective),
           NEW t, NEW u, NEW e, NEW t2,
           Follows(x, h, t, e, y, g, u),
           Len(h2) = Len(h) + (IF x[1].type # "ERROR" THEN 1 ELSE 0),
           Spared(x, t, t2)
    PROVE  Follows(Tail(x), h2, t2, e, y, g, u)
<1> DEFINE m == Len(x) - Len(y)
           z == Tail(x)
<1>0. \A j \in 2 .. Len(x) : \A i \in DOMAIN x[j].keys :
         t2[x[j].keys[i]] = t[x[j].keys[i]]
  BY DEF Spared
<1>1. /\ DOMAIN x = 1 .. Len(x) /\ DOMAIN y = 1 .. Len(y) /\ Len(x) \in Nat /\ Len(y) \in Nat
      /\ Len(h) \in Nat /\ Len(g) \in Nat /\ Len(h2) \in Nat
  BY LenProperties
<1>2. x # <<>>
  BY <1>1, EmptySeq
<1>3. /\ z \in Seq(Response) /\ Len(z) = Len(x) - 1 /\ DOMAIN z = 1 .. Len(x) - 1
      /\ \A i \in 1 .. Len(x) - 1 : z[i] = x[i + 1]
  BY <1>1, <1>2, HeadTailProperties, LenProperties
<1>4. /\ m \in Nat /\ m # 0 /\ Len(z) - Len(y) = m - 1
      /\ m <= Len(x) /\ m + Len(y) = Len(x)
  <2> DEFINE a == Len(x)
             b == Len(y)
             d == Len(z)
  <2>1. a \in Nat /\ b \in Nat /\ b < a /\ d = a - 1 /\ m = a - b
    BY <1>1, <1>3
  <2> HIDE DEF a, b, d, m
  <2>2. m \in Nat /\ m # 0 /\ d - b = m - 1 /\ m <= a /\ m + b = a
    BY <2>1
  <2> QED
    BY <2>2 DEF a, b, d
<1>5. /\ \A i \in DOMAIN y : y[i] = x[m + i]
      /\ Len(g) = Len(h) + Calling(x, m)
      /\ \A j \in 1 .. m : x[j].type # "ERROR" => SameCall(g[Len(h) + Calling(x, j)], t, e, x[j])
      /\ \A j \in DOMAIN y : y[j].type # "ERROR" => Agree(t, u, y[j])
  BY DEF Follows
<1>6. ASSUME NEW n \in Nat, n < Len(x)
      PROVE  Len(h) + Calling(x, n + 1) = Len(h2) + Calling(z, n)
  <2>1. Calling(x, n + 1) = Calling(z, n) + (IF x[1].type # "ERROR" THEN 1 ELSE 0)
    BY <1>2, <1>6, CallingTail
  <2>2. Calling(x, n + 1) \in Nat /\ Calling(z, n) \in Nat
    <3>1. n + 1 \in Nat
      BY <1>6
    <3> QED
      BY <1>6, <3>1, CallingFinite
  <2> QED
    BY <1>1, <2>1, <2>2
<1> HIDE DEF z, m
<1>7. \A i \in DOMAIN y : y[i] = z[(m - 1) + i]
  <2> SUFFICES ASSUME NEW i \in DOMAIN y PROVE y[i] = z[(m - 1) + i]
    OBVIOUS
  <2>1. (m - 1) + i \in 1 .. Len(x) - 1 /\ ((m - 1) + i) + 1 = m + i
    BY <1>1, <1>4
  <2> QED
    BY <1>3, <1>5, <2>1
<1>8. Len(g) = Len(h2) + Calling(z, m - 1)
  <2>1. m - 1 \in Nat /\ m - 1 < Len(x) /\ (m - 1) + 1 = m
    BY <1>1, <1>4
  <2> QED
    BY <1>5, <1>6, <2>1
<1>9. ASSUME NEW j \in 1 .. m - 1, z[j].type # "ERROR"
      PROVE  SameCall(g[Len(h2) + Calling(z, j)], t2, e, z[j])
  <2>1. /\ j \in Nat /\ j < Len(x) /\ j + 1 \in 1 .. m /\ j + 1 \in 2 .. Len(x)
        /\ j \in 1 .. Len(x) - 1
    BY <1>1, <1>4, <1>9
  <2>2. z[j] = x[j + 1]
    BY <1>3, <2>1
  <2>3. Len(h) + Calling(x, j + 1) = Len(h2) + Calling(z, j)
    BY <1>6, <2>1
  <2>4. SameCall(g[Len(h) + Calling(x, j + 1)], t, e, x[j + 1])
    BY <1>5, <1>9, <2>1, <2>2
  <2>5. \A i \in DOMAIN x[j + 1].keys : t2[x[j + 1].keys[i]] = t[x[j + 1].keys[i]]
    BY <1>0, <2>1
  <2> QED
    BY <2>2, <2>3, <2>4, <2>5 DEF SameCall
<1>10. ASSUME NEW j \in DOMAIN y, y[j].type # "ERROR"
       PROVE  Agree(t2, u, y[j])
  <2>0. m + j \in 2 .. Len(x)
    BY <1>1, <1>4
  <2>1. m + j \in 2 .. Len(x) /\ y[j] = x[m + j] /\ Agree(t, u, y[j])
    BY <1>5, <1>10, <2>0
  <2>2. \A i \in DOMAIN y[j].keys : t2[y[j].keys[i]] = t[y[j].keys[i]]
    BY <1>0, <2>1
  <2> QED
    BY <2>1, <2>2 DEF Agree
<1>11. Follows(z, h2, t2, e, y, g, u)
  BY <1>4, <1>7, <1>8, <1>9, <1>10 DEF Follows
<1> QED
  BY <1>11 DEF z

\* The rank that is ahead executes its next response.
LEMMA FollowsLead ==
    ASSUME NEW x \in Seq(Response), NEW y \in Seq(Response), Len(x) <= Len(y), x # <<>>,
           NEW h \in Seq(Collective), NEW g \in Seq(Collective),
           NEW h2 \in Seq(Collective), NEW t, NEW u, NEW e, NEW t2,
           Follows(y, g, u, e, x, h, t),
           Grown(h, t, e, x[1], h2),
           Spared(x, t, t2)
    PROVE  Follows(y, g, u, e, Tail(x), h2, t2)
<1> DEFINE m == Len(y) - Len(x)
           z == Tail(x)
<1>0. \A j \in 2 .. Len(x) : \A i \in DOMAIN x[j].keys :
         t2[x[j].keys[i]] = t[x[j].keys[i]]
  BY DEF Spared
<1>8. /\ Len(h2) = Len(h) + (IF x[1].type # "ERROR" THEN 1 ELSE 0)
      /\ \A n \in 1 .. Len(h) : h2[n] = h[n]
      /\ x[1].type # "ERROR" => Made(h2[Len(h) + 1], t, e, x[1])
  BY DEF Grown
<1>1. /\ DOMAIN x = 1 .. Len(x) /\ DOMAIN y = 1 .. Len(y) /\ Len(x) \in Nat /\ Len(y) \in Nat
      /\ Len(h) \in Nat /\ Len(g) \in Nat /\ Len(x) # 0
  BY LenProperties, EmptySeq
<1>2. /\ z \in Seq(Response) /\ Len(z) = Len(x) - 1 /\ DOMAIN z = 1 .. Len(x) - 1
      /\ \A i \in 1 .. Len(x) - 1 : z[i] = x[i + 1]
  BY <1>1, HeadTailProperties, LenProperties
<1>3. m \in Nat /\ Len(y) - Len(z) = m + 1 /\ m + 1 \in DOMAIN y /\ 1 \in DOMAIN x
  BY <1>1, <1>2
<1>4. /\ \A i \in DOMAIN x : x[i] = y[m + i]
      /\ Len(h) = Len(g) + Calling(y, m)
      /\ \A j \in 1 .. m : y[j].type # "ERROR" => SameCall(h[Len(g) + Calling(y, j)], u, e, y[j])
      /\ \A j \in DOMAIN x : x[j].type # "ERROR" => Agree(u, t, x[j])
  BY DEF Follows
<1>5. x[1] = y[m + 1]
  BY <1>3, <1>4
<1>6. Calling(y, m + 1) = Calling(y, m) + (IF x[1].type # "ERROR" THEN 1 ELSE 0)
  BY <1>3, <1>5, CallingNext
<1>7. Calling(y, m) \in Nat /\ Calling(y, m + 1) \in Nat
  <2>1. m \in Nat /\ m + 1 \in Nat
    BY <1>3
  <2> HIDE DEF m
  <2> QED
    BY <2>1, CallingFinite
<1> HIDE DEF z, m
<1>9. Len(h2) = Len(g) + Calling(y, m + 1)
  BY <1>1, <1>4, <1>6, <1>7, <1>8
<1>10. \A i \in DOMAIN z : z[i] = y[(m + 1) + i]
  <2> SUFFICES ASSUME NEW i \in DOMAIN z PROVE z[i] = y[(m + 1) + i]
    OBVIOUS
  <2>1. i + 1 \in DOMAIN x /\ z[i] = x[i + 1] /\ (m + 1) + i = m + (i + 1)
    BY <1>1, <1>2, <1>3
  <2> QED
    BY <1>4, <2>1
<1>11. ASSUME NEW j \in 1 .. m + 1, y[j].type # "ERROR"
       PROVE  SameCall(h2[Len(g) + Calling(y, j)], u, e, y[j])
  <2>1. CASE j \in 1 .. m
    <3>1. Calling(y, j) \in Nat /\ Calling(y, j) <= Calling(y, m)
      <4>1. j \in Nat /\ m \in Nat /\ j <= m
        BY <1>3, <2>1
      <4> QED
        BY <4>1, CallingFinite, CallingMonotone
    <3>2. Calling(y, j) # 0
      <4>1. j - 1 \in Nat /\ (j - 1) + 1 = j
        BY <2>1
      <4>2. Calling(y, j) = Calling(y, j - 1) + 1
        BY <1>11, <4>1, CallingNext
      <4>3. Calling(y, j - 1) \in Nat
        BY <4>1, CallingFinite
      <4> QED
        BY <4>2, <4>3
    <3>3. Len(g) + Calling(y, j) \in 1 .. Len(h)
      BY <1>1, <1>4, <1>7, <3>1, <3>2
    <3> QED
      BY <1>4, <1>8, <1>11, <2>1, <3>3
  <2>2. CASE j = m + 1
    <3>1. x[1].type # "ERROR" /\ y[j] = x[1]
      BY <1>5, <1>11, <2>2
    <3>2. Len(g) + Calling(y, j) = Len(h) + 1
      BY <1>1, <1>4, <1>6, <1>7, <2>2, <3>1
    <3>3. Made(h2[Len(g) + Calling(y, j)], t, e, x[1])
      BY <1>8, <3>1, <3>2
    <3>4. Agree(u, t, x[1])
      BY <1>3, <1>4, <3>1
    <3> QED
      BY <3>1, <3>3, <3>4 DEF SameCall, Agree, Made
  <2>3. j \in 1 .. m \/ j = m + 1
    BY <1>3
  <2> QED
    BY <2>1, <2>2, <2>3
<1>12. ASSUME NEW j \in DOMAIN z, z[j].type # "ERROR"
       PROVE  Agree(u, t2, z[j])
  <2>1. j + 1 \in 2 .. Len(x) /\ z[j] = x[j + 1] /\ j + 1 \in DOMAIN x
    BY <1>1, <1>2
  <2>2. Agree(u, t, z[j])
    BY <1>4, <1>12, <2>1
  <2>3. \A i \in DOMAIN z[j].keys : t2[z[j].keys[i]] = t[z[j].keys[i]]
    BY <1>0, <2>1
  <2> QED
    BY <2>2, <2>3 DEF Agree
<1>13. Follows(y, g, u, e, z, h2, t2)
  BY <1>3, <1>9, <1>10, <1>11, <1>12 DEF Follows
<1> QED
  BY <1>13 DEF z

LEMMA FollowsSelf ==
    ASSUME NEW x \in Seq(Response), x # <<>>, NEW h \in Seq(Collective),
           NEW h2 \in Seq(Collective), NEW t, NEW e, NEW t2,
           Follows(x, h, t, e, x, h, t),
           Spared(x, t, t2)
    PROVE  Follows(Tail(x), h2, t2, e, Tail(x), h2, t2)
<1> DEFINE z == Tail(x)
<1>0. \A j \in 2 .. Len(x) : \A i \in DOMAIN x[j].keys :
         t2[x[j].keys[i]] = t[x[j].keys[i]]
  BY DEF Spared
<1>1. /\ DOMAIN x = 1 .. Len(x) /\ Len(x) \in Nat /\ Len(x) # 0 /\ Len(h2) \in Nat
  BY LenProperties, EmptySeq
<1>2. /\ z \in Seq(Response) /\ Len(z) = Len(x) - 1 /\ DOMAIN z = 1 .. Len(x) - 1
      /\ \A i \in 1 .. Len(x) - 1 : z[i] = x[i + 1]
  BY <1>1, HeadTailProperties, LenProperties
<1> HIDE DEF z
<1>3. Len(z) - Len(z) = 0 /\ \A i \in DOMAIN z : z[i] = z[0 + i]
  BY <1>1, <1>2
<1>4. Len(h2) = Len(h2) + Calling(z, 0)
  BY <1>1, CallingNone
<1>5. ASSUME NEW j \in DOMAIN z, z[j].type # "ERROR" PROVE Agree(t2, t2, z[j])
  <2>1. j + 1 \in 2 .. Len(x) /\ z[j] = x[j + 1] /\ j + 1 \in DOMAIN x
    BY <1>1, <1>2
  <2>2. Agree(t, t, z[j])
    BY <1>5, <2>1 DEF Follows
  <2> QED
    BY <1>0, <2>1, <2>2 DEF Agree
<1>6. Follows(z, h2, t2, e, z, h2, t2)
  BY <1>3, <1>4, <1>5 DEF Follows
<1> QED
  BY <1>6 DEF z

-----------------------------------------------------------------------------
(* Steps that execute nothing *)

LEMMA PairFrame ==
    ASSUME TypeOK, TensorInv, PairInv, UNCHANGED hist,
           \A r \in Rank : Remain(r)' = Remain(r),
           \A r \in Rank : Remain(r) # <<>> => epoch'[r] = epoch[r],
           \A r \in Rank : \A j \in DOMAIN Remain(r) : \A i \in DOMAIN Remain(r)[j].keys :
                tensor_table'[r][Remain(r)[j].keys[i]] = tensor_table[r][Remain(r)[j].keys[i]]
    PROVE  PairInv'
<1> SUFFICES ASSUME NEW r \in Rank, NEW s \in Rank, Len(Remain(s))' <= Len(Remain(r))'
             PROVE  Behind(r, s)'
  BY DEF PairInv
<1>1. Remain(r) \in Seq(Response) /\ Remain(s) \in Seq(Response)
  BY RemainType
<1>2. Remain(r)' = Remain(r) /\ Remain(s)' = Remain(s) /\ Len(Remain(s)) <= Len(Remain(r))
  OBVIOUS
<1>3. Follows(Remain(r), hist[r], tensor_table[r], epoch[r],
              Remain(s), hist[s], tensor_table[s])
  BY <1>2 DEF PairInv, Behind
<1>4. Follows(Remain(r), hist[r], tensor_table'[r], epoch'[r],
              Remain(s), hist[s], tensor_table'[s])
  BY <1>1, <1>2, <1>3, FollowsKept
<1> QED
  BY <1>2, <1>4 DEF Behind

LEMMA KeepPairs ==
    ASSUME IndInv, ShutdownInv, AuxInv, NoAbort, AccountInv, TensorInv, PairInv, UNCHANGED hist,
           \A r \in Rank : Remain(r)' = Remain(r),
           \A r \in Rank : bpc[r] # "park" => epoch'[r] = epoch[r],
           \A r \in Rank : \A k \in DOMAIN tensor_table[r] : tensor_table'[r][k] = tensor_table[r][k]
    PROVE  PairInv'
<1>1. TypeOK
  BY DEF IndInv
<1>2. \A r \in Rank : Remain(r) # <<>> => epoch'[r] = epoch[r]
  BY <1>1, RemainPlace
<1>3. \A r \in Rank : \A j \in DOMAIN Remain(r) : \A i \in DOMAIN Remain(r)[j].keys :
         Remain(r)[j].keys[i] \in DOMAIN tensor_table[r]
  BY <1>1, RemainEntries
<1> QED
  BY <1>1, <1>2, <1>3, PairFrame

\* While the coordinator prepares its answer the others wait for it.
LEMMA Drafting ==
    ASSUME IndInv, ShutdownInv, AuxInv, NoAbort, bpc[Master] \in {"construct", "fuse"}
    PROVE  \A r \in Rank : /\ bpc[r] \in {"recv", "construct", "fuse"}
                           /\ gather[r] = <<>> /\ bcast[r] = <<>> /\ todo[r] = <<>>
                           /\ Remain(r) = <<>>
<1> SUFFICES ASSUME NEW r \in Rank
             PROVE  /\ bpc[r] \in {"recv", "construct", "fuse"}
                    /\ gather[r] = <<>> /\ bcast[r] = <<>> /\ todo[r] = <<>>
                    /\ Remain(r) = <<>>
  OBVIOUS
<1>1. bpc[r] \in {"recv", "construct", "fuse"} /\ gather[r] = <<>> /\ bcast[r] = <<>>
  <2>1. CASE r = Master
    BY <2>1 DEF AuxInv, StageInv
  <2>2. CASE r # Master
    BY <2>2 DEF ShutdownInv, CountedInv, Counted, Workers
  <2> QED
    BY <2>1, <2>2
<1>2. todo[r] = <<>>
  BY <1>1 DEF AuxInv, StageInv
<1> QED
  BY <1>1, <1>2 DEF Remain

LEMMA DraftPlace ==
    ASSUME IndInv, AuxInv, NoAbort, responses # <<>> \/ response_list # <<>>
    PROVE  bpc[Master] \in {"construct", "fuse"}
BY MasterRank DEF IndInv, FuseInv, AuxInv, StageInv, NoAbort

LEMMA DraftEntries ==
    ASSUME IndInv, ShutdownInv, AuxInv, NoAbort, AccountInv, TensorInv, NEW r \in Rank
    PROVE  /\ \A i \in DOMAIN responses : \A j \in DOMAIN responses[i].keys :
                 responses[i].keys[j] \in DOMAIN tensor_table[r]
           /\ \A i \in DOMAIN response_list : \A j \in DOMAIN response_list[i].keys :
                 response_list[i].keys[j] \in DOMAIN tensor_table[r]
<1>1. TypeOK /\ responses \in Seq(TensorResponse) /\ response_list \in Seq(TensorResponse)
      /\ responses \in Seq(Response) /\ response_list \in Seq(Response)
  BY DEF IndInv, TensorInv, ReplyInv, TypeOK, FuseOK
<1>2. ASSUME NEW i \in DOMAIN responses, NEW j \in DOMAIN responses[i].keys
      PROVE  responses[i].keys[j] \in DOMAIN tensor_table[r]
  <2>1. responses # <<>> /\ responses[i] \in TensorResponse
    BY <1>1, ElementOfSeq, LenProperties
  <2>2. bpc[r] # "down"
    BY <2>1, DraftPlace, Drafting
  <2> DEFINE k == responses[i].keys[j]
  <2>3. k \in TensorKey /\ responses[i] \in Answering(k)
    BY <2>1 DEF TensorResponse, Answering
  <2>4. Built(k) # 0
    BY <1>1, <2>3, CountPositive DEF Built
  <2> HIDE DEF k
  <2>5. k \in DOMAIN tensor_table[r]
    BY <1>1, <2>2, <2>3, <2>4, AnsweredEntry
  <2> QED
    BY <2>5 DEF k
<1>3. ASSUME NEW i \in DOMAIN response_list, NEW j \in DOMAIN response_list[i].keys
      PROVE  response_list[i].keys[j] \in DOMAIN tensor_table[r]
  <2>1. response_list # <<>> /\ response_list[i] \in TensorResponse
    BY <1>1, ElementOfSeq, LenProperties
  <2>2. bpc[r] # "down"
    BY <2>1, DraftPlace, Drafting
  <2> DEFINE k == response_list[i].keys[j]
  <2>3. k \in TensorKey /\ response_list[i] \in Answering(k)
    BY <2>1 DEF TensorResponse, Answering
  <2>4. Listed(k) # 0
    BY <1>1, <2>3, CountPositive DEF Listed
  <2> HIDE DEF k
  <2>5. k \in DOMAIN tensor_table[r]
    BY <1>1, <2>2, <2>3, <2>4, AnsweredEntry
  <2> QED
    BY <2>5 DEF k
<1> QED
  BY <1>2, <1>3

LEMMA KeepDraft ==
    ASSUME IndInv, ShutdownInv, AuxInv, NoAbort, AccountInv, TensorInv, DraftInv,
           UNCHANGED <<responses, response_list>>,
           bpc[Master] \in {"construct", "fuse"} =>
              \A r \in Rank : \A k \in DOMAIN tensor_table[r] :
                 tensor_table'[r][k] = tensor_table[r][k]
    PROVE  DraftInv'
<1> SUFFICES ASSUME NEW r \in Rank, NEW s \in Rank
             PROVE  /\ \A i \in DOMAIN responses : responses[i].type # "ERROR"
                          => Agree(tensor_table[r], tensor_table[s], responses[i])'
                    /\ \A i \in DOMAIN response_list : response_list[i].type # "ERROR"
                          => Agree(tensor_table[r], tensor_table[s], response_list[i])'
  BY DEF DraftInv
<1>1. ASSUME NEW i \in DOMAIN responses, responses[i].type # "ERROR"
      PROVE  Agree(tensor_table[r], tensor_table[s], responses[i])'
  <2>1. responses # <<>>
    BY <1>1
  <2>2. \A j \in DOMAIN responses[i].keys :
          /\ tensor_table'[r][responses[i].keys[j]] = tensor_table[r][responses[i].keys[j]]
          /\ tensor_table'[s][responses[i].keys[j]] = tensor_table[s][responses[i].keys[j]]
    BY <1>1, <2>1, DraftPlace, DraftEntries
  <2>3. Agree(tensor_table[r], tensor_table[s], responses[i])
    BY <1>1 DEF DraftInv
  <2> QED
    BY <2>2, <2>3 DEF Agree
<1>2. ASSUME NEW i \in DOMAIN response_list, response_list[i].type # "ERROR"
      PROVE  Agree(tensor_table[r], tensor_table[s], response_list[i])'
  <2>1. response_list # <<>>
    BY <1>2
  <2>2. \A j \in DOMAIN response_list[i].keys :
          /\ tensor_table'[r][response_list[i].keys[j]] = tensor_table[r][response_list[i].keys[j]]
          /\ tensor_table'[s][response_list[i].keys[j]] = tensor_table[s][response_list[i].keys[j]]
    BY <1>2, <2>1, DraftPlace, DraftEntries
  <2>3. Agree(tensor_table[r], tensor_table[s], response_list[i])
    BY <1>2 DEF DraftInv
  <2> QED
    BY <2>2, <2>3 DEF Agree
<1> QED
  BY <1>1, <1>2

-----------------------------------------------------------------------------
(* A rank executes a response *)

LEMMA ResponseEffect ==
    ASSUME NEW r \in Rank, IndInv, WaitInv, TensorInv, ShutdownInv, AuxInv, AccountInv, IdleInv,
           HandleInv, NoAbort, PerformResponse(r)
    PROVE  LET x == Remain(r)
               c == [ops   |-> [i \in DOMAIN x[1].keys |-> tensor_table[r][x[1].keys[i]].op],
                     epoch |-> epoch[r]]
           IN  /\ x # <<>> /\ bpc[r] = "respond"
               /\ Remain(r)' = Tail(x) /\ \A q \in Rank \ {r} : Remain(q)' = Remain(q)
               /\ hist' = IF x[1].type # "ERROR" THEN [hist EXCEPT ![r] = Append(hist[r], c)]
                                                 ELSE hist
               /\ UNCHANGED <<epoch, mpc, responses, response_list>>
               /\ \A q \in Rank \ {r} : tensor_table'[q] = tensor_table[q]
               /\ Spared(x, tensor_table[r], tensor_table'[r])
<1> DEFINE x        == Remain(r)
           response == Head(todo[r])
           keys     == response.keys
           batch    == [i \in DOMAIN keys |-> tensor_table[r][keys[i]]]
           c        == [ops |-> [i \in DOMAIN keys |-> tensor_table[r][keys[i]].op],
                        epoch |-> epoch[r]]
<1>1. bpc[r] = "respond" /\ todo[r] # <<>> /\ todo[r] \in Seq(Response)
      /\ DOMAIN todo = Rank /\ DOMAIN bpc = Rank /\ DOMAIN tensor_table = Rank
  BY DEF PerformResponse, IndInv, TypeOK, ExecOK, LocalOK, QueueOK
<1>2. bcast[r] = <<>>
  BY <1>1 DEF ShutdownInv, BcastInv, Workers, AuxInv, StageInv
<1>3. x = todo[r] /\ x # <<>> /\ response = x[1] /\ x \in Seq(Response) /\ 1 \in DOMAIN x
      /\ DOMAIN x = 1 .. Len(x) /\ Len(x) \in Nat
  BY <1>1, <1>2, HeadTailProperties, LenProperties, EmptySeq DEF Remain
<1>4. bpc'[r] # "aborted"
  BY NoAbortResponse
<1>5. /\ tensor_table' = [tensor_table EXCEPT ![r] = EraseAll(tensor_table[r], keys)]
      /\ todo' = [todo EXCEPT ![r] = Tail(todo[r])]
      /\ UNCHANGED <<epoch, mpc, responses, response_list, bcast>>
      /\ IF response.type = "ERROR" THEN UNCHANGED hist ELSE Perform(r, batch, "responding")
  BY <1>1, <1>4 DEF PerformResponse, BGoto, masterVars, fuseVars
<1>6. Remain(r)' = Tail(x) /\ \A q \in Rank \ {r} : Remain(q)' = Remain(q)
  BY <1>1, <1>2, <1>3, <1>5 DEF Remain
<1>7. \A q \in Rank \ {r} : tensor_table'[q] = tensor_table[q]
  BY <1>1, <1>5
<1>8. ASSUME NEW j \in 2 .. Len(x), NEW i \in DOMAIN x[j].keys
      PROVE  tensor_table'[r][x[j].keys[i]] = tensor_table[r][x[j].keys[i]]
  <2>1. j \in DOMAIN x /\ j # 1
    BY <1>3, <1>8
  <2>2. /\ x[j].keys[i] \in DOMAIN tensor_table[r]
        /\ \A m \in DOMAIN Remain(r) : \A n \in DOMAIN Remain(r)[m].keys :
              Remain(r)[m].keys[n] = x[j].keys[i] => m = j
    BY <1>8, <2>1, RemainEntries DEF IndInv
  <2>3. \A n \in DOMAIN keys : keys[n] # x[j].keys[i]
    BY <1>3, <2>1, <2>2
  <2>4. tensor_table'[r] = EraseAll(tensor_table[r], keys)
    BY <1>1, <1>5
  <2> HIDE DEF x, keys
  <2> QED
    BY <2>2, <2>3, <2>4 DEF EraseAll
<1>9. response.type # "ERROR" => hist' = [hist EXCEPT ![r] = Append(hist[r], c)]
  <2> SUFFICES ASSUME response.type # "ERROR" PROVE hist' = [hist EXCEPT ![r] = Append(hist[r], c)]
    OBVIOUS
  <2>1. Perform(r, batch, "responding")
    BY <1>5
  <2>2. keys # <<>> /\ keys \in Seq(KeySet)
    <3>1. response \in Response
      BY <1>3, ElementOfSeq
    <3> QED
      BY <3>1 DEF Response
  <2>3. 1 \in DOMAIN keys
    BY <2>2, LenProperties, EmptySeq
  <2>4. keys[1] \in DOMAIN tensor_table[r]
    <3>1. 1 \in DOMAIN Remain(r) /\ 1 \in DOMAIN Remain(r)[1].keys /\ Remain(r)[1].keys[1] = keys[1]
      BY <1>3, <2>3
    <3>2. TypeOK
      BY DEF IndInv
    <3> QED
      BY <3>1, <3>2, RemainEntries
  <2>5. SoundOp(batch[1].op)
    BY <2>3, <2>4 DEF TensorInv, EntryInv
  <2>6. ~WindowError(r, batch[1].op) /\ ~IsLocal(r, batch[1].op)
    <3> HIDE DEF batch
    <3> QED
      BY <2>5 DEF WindowError, IsLocal, SoundOp, WindowType, OneSidedType
  <2>7. ~(Throws(r, batch) /\ BGoto(r, "aborted"))
    BY <1>1, <1>4 DEF BGoto
  <2>8. hist' = [hist EXCEPT ![r] = Append(hist[r], [ops |-> [i \in DOMAIN batch |-> batch[i].op],
                                                   epoch |-> epoch[r]])]
    <3> HIDE DEF batch
    <3> QED
      BY <2>1, <2>6, <2>7, Zenon DEF Perform
  <2>9. [i \in DOMAIN batch |-> batch[i].op] = [i \in DOMAIN keys |-> tensor_table[r][keys[i]].op]
    OBVIOUS
  <2> QED
    BY <2>8, <2>9
<1>10. hist' = IF x[1].type # "ERROR"
                THEN [hist EXCEPT ![r] = Append(hist[r],
                        [ops   |-> [i \in DOMAIN x[1].keys |-> tensor_table[r][x[1].keys[i]].op],
                         epoch |-> epoch[r]])]
                ELSE hist
  BY <1>3, <1>5, <1>9
<1>11. Spared(x, tensor_table[r], tensor_table'[r])
  BY <1>8 DEF Spared
<1> QED
  BY <1>1, <1>3, <1>5, <1>6, <1>7, <1>10, <1>11

LEMMA CallMade ==
    ASSUME NEW r \in Rank, TypeOK, NEW a \in Response,
           \A i \in DOMAIN a.keys : a.keys[i] \in DOMAIN tensor_table[r]
    PROVE  LET c == [ops   |-> [i \in DOMAIN a.keys |-> tensor_table[r][a.keys[i]].op],
                     epoch |-> epoch[r]]
           IN  /\ c \in Collective
               /\ c.epoch = epoch[r] /\ Len(c.ops) = Len(a.keys) /\ DOMAIN c.ops = DOMAIN a.keys
               /\ \A i \in DOMAIN a.keys : c.ops[i] = tensor_table[r][a.keys[i]].op
<1> DEFINE ops == [i \in DOMAIN a.keys |-> tensor_table[r][a.keys[i]].op]
<1>1. a.keys \in Seq(KeySet) /\ epoch[r] \in Nat
  BY DEF Response, TypeOK, MpiOK
<1>2. DOMAIN a.keys = 1 .. Len(a.keys) /\ Len(a.keys) \in Nat
  BY <1>1, LenProperties
<1>3. \A i \in DOMAIN a.keys : tensor_table[r][a.keys[i]].op \in Op
  BY DEF TypeOK, QueueOK, Entry
<1>4. ops \in [1 .. Len(a.keys) -> Op]
  BY <1>2, <1>3
<1>5. ops \in Seq(Op) /\ Len(ops) = Len(a.keys)
  BY <1>2, <1>4, SeqDef, LenProperties
<1>6. DOMAIN ops = DOMAIN a.keys /\ \A i \in DOMAIN a.keys : ops[i] = tensor_table[r][a.keys[i]].op
  OBVIOUS
<1> HIDE DEF ops
<1>7. [ops |-> ops, epoch |-> epoch[r]] \in Collective
  BY <1>1, <1>5 DEF Collective
<1> QED
  BY <1>5, <1>6, <1>7 DEF ops

LEMMA PairResponse ==
    ASSUME NEW r \in Rank, IndInv, WaitInv, TensorInv, ShutdownInv, AuxInv, AccountInv, IdleInv,
           HandleInv, NoAbort, Handshake, EpochInv, PairInv, CollectivesMatch, PerformResponse(r)
    PROVE  PairInv' /\ CollectivesMatch'
<1> DEFINE x  == Remain(r)
           c  == [ops   |-> [i \in DOMAIN x[1].keys |-> tensor_table[r][x[1].keys[i]].op],
                  epoch |-> epoch[r]]
           t2 == tensor_table'[r]
           h  == hist[r]
           h2 == hist'[r]
<1>0. TypeOK /\ hist \in [Rank -> Seq(Collective)]
  BY DEF IndInv, TypeOK, MpiOK
<1>1. /\ x # <<>> /\ bpc[r] = "respond"
      /\ Remain(r)' = Tail(x) /\ \A q \in Rank \ {r} : Remain(q)' = Remain(q)
      /\ hist' = IF x[1].type # "ERROR" THEN [hist EXCEPT ![r] = Append(hist[r], c)] ELSE hist
      /\ UNCHANGED epoch
      /\ \A q \in Rank \ {r} : tensor_table'[q] = tensor_table[q]
      /\ Spared(x, tensor_table[r], t2)
  BY ResponseEffect
<1>2. /\ \A q \in Rank : Remain(q) \in Seq(Response)
      /\ x \in Seq(Response) /\ DOMAIN x = 1 .. Len(x) /\ Len(x) \in Nat /\ Len(x) # 0
      /\ 1 \in DOMAIN x /\ x[1] \in Response
  BY <1>0, <1>1, RemainType, LenProperties, EmptySeq
<1>3. /\ c \in Collective
      /\ c.epoch = epoch[r] /\ Len(c.ops) = Len(x[1].keys) /\ DOMAIN c.ops = DOMAIN x[1].keys
      /\ \A i \in DOMAIN x[1].keys : c.ops[i] = tensor_table[r][x[1].keys[i]].op
  <2>1. \A i \in DOMAIN x[1].keys : x[1].keys[i] \in DOMAIN tensor_table[r]
    BY <1>0, <1>2, RemainEntries
  <2> HIDE DEF x
  <2> QED
    BY <1>0, <1>2, <2>1, CallMade
<1> HIDE DEF x, c
<1>4. /\ \A q \in Rank \ {r} : hist'[q] = hist[q]
      /\ h2 = IF x[1].type # "ERROR" THEN Append(h, c) ELSE h
      /\ h \in Seq(Collective) /\ Len(h) \in Nat
  BY <1>0, <1>1, LenProperties
<1>5. /\ h2 \in Seq(Collective)
      /\ Len(h2) = Len(h) + (IF x[1].type # "ERROR" THEN 1 ELSE 0)
      /\ \A n \in 1 .. Len(h) : h2[n] = h[n]
      /\ x[1].type # "ERROR" => h2[Len(h) + 1] = c
  <2> HIDE DEF h, h2
  <2>1. CASE x[1].type # "ERROR"
    <3>1. h2 = Append(h, c)
      BY <1>4, <2>1
    <3> QED
      BY <1>3, <1>4, <2>1, <3>1, AppendProperties
  <2>2. CASE x[1].type = "ERROR"
    BY <1>4, <2>2
  <2> QED
    BY <2>1, <2>2
<1>6. /\ Tail(x) \in Seq(Response) /\ Len(Tail(x)) = Len(x) - 1
  BY <1>1, <1>2, HeadTailProperties
<1>7. ASSUME NEW s \in Rank \ {r}, Len(Remain(s)) < Len(x) PROVE Behind(r, s)'
  <2>1. Remain(s) \in Seq(Response) /\ hist[s] \in Seq(Collective)
    BY <1>0, <1>2, <1>7
  <2>2. Len(Remain(s)) <= Len(Remain(r))
    BY <1>2, <1>7, <2>1, LenProperties DEF x
  <2>3. Follows(x, h, tensor_table[r], epoch[r], Remain(s), hist[s], tensor_table[s])
    BY <1>7, <2>2 DEF PairInv, Behind, x
  <2> DEFINE y == Remain(s)
             g == hist[s]
             t == tensor_table[r]
             u == tensor_table[s]
             e == epoch[r]
  <2>4. /\ y \in Seq(Response) /\ g \in Seq(Collective) /\ Len(y) < Len(x)
        /\ Follows(x, h, t, e, y, g, u)
        /\ Spared(x, t, t2)
    BY <1>1, <1>7, <2>1, <2>3
  <2> HIDE DEF y, g, t, u, e, h, h2, t2
  <2>5. Follows(Tail(x), h2, t2, e, y, g, u)
    BY <1>2, <1>4, <1>5, <2>4, FollowsTail
  <2> QED
    BY <1>1, <1>4, <1>7, <2>5 DEF Behind, y, g, t, u, e, h2, t2
<1>8. ASSUME NEW s \in Rank \ {r}, Len(x) <= Len(Remain(s)) PROVE Behind(s, r)'
  <2>1. Remain(s) \in Seq(Response) /\ hist[s] \in Seq(Collective) /\ Remain(s) # <<>>
    BY <1>0, <1>2, <1>8, EmptySeq
  <2>2. Follows(Remain(s), hist[s], tensor_table[s], epoch[s], x, h, tensor_table[r])
    BY <1>8 DEF PairInv, Behind, x
  <2>3. epoch[s] = epoch[r]
    <3>1. bpc[s] # "park" /\ bpc[r] # "park"
      BY <1>0, <1>1, <2>1, RemainPlace
    <3> QED
      BY <1>0, <3>1, SameEpoch
  <2> DEFINE y == Remain(s)
             g == hist[s]
             t == tensor_table[r]
             u == tensor_table[s]
             e == epoch[s]
  <2>4. /\ y \in Seq(Response) /\ g \in Seq(Collective) /\ Len(x) <= Len(y)
        /\ Follows(y, g, u, e, x, h, t)
        /\ Spared(x, t, t2)
    BY <1>1, <1>8, <2>1, <2>2
  <2> HIDE DEF y, g, t, u, e, h, h2, t2
  <2>6. x \in Seq(Response) /\ x # <<>> /\ h \in Seq(Collective) /\ h2 \in Seq(Collective)
    BY <1>1, <1>2, <1>4, <1>5
  <2>7. Grown(h, t, e, x[1], h2)
    <3>1. Made(c, t, e, x[1])
      BY <1>3, <2>3 DEF Made, t, e
    <3> QED
      BY <1>5, <3>1 DEF Grown
  <2>5. Follows(y, g, u, e, Tail(x), h2, t2)
    BY <2>4, <2>6, <2>7, FollowsLead
  <2> QED
    BY <1>1, <1>4, <1>8, <2>5 DEF Behind, y, g, t, u, e, h2, t2
<1>9. Behind(r, r)'
  <2>1. Follows(x, h, tensor_table[r], epoch[r], x, h, tensor_table[r])
    BY <1>2 DEF PairInv, Behind, x
  <2> DEFINE t == tensor_table[r]
             e == epoch[r]
  <2>2. /\ Follows(x, h, t, e, x, h, t)
        /\ Spared(x, t, t2)
    BY <1>1, <2>1
  <2> HIDE DEF t, e, h, h2, t2
  <2>3. Follows(Tail(x), h2, t2, e, Tail(x), h2, t2)
    BY <1>1, <1>2, <1>4, <1>5, <2>2, FollowsSelf
  <2> QED
    BY <1>1, <2>3 DEF Behind, e, h2, t2
<1>10. ASSUME NEW s \in Rank \ {r}, NEW q \in Rank \ {r}, Len(Remain(q)) <= Len(Remain(s))
       PROVE  Behind(s, q)'
  <2>1. Behind(s, q)
    BY <1>10 DEF PairInv
  <2> QED
    BY <1>1, <1>4, <1>10, <2>1 DEF Behind
<1>11. PairInv'
  <2> SUFFICES ASSUME NEW p \in Rank, NEW q \in Rank, Len(Remain(q))' <= Len(Remain(p))'
               PROVE  Behind(p, q)'
    BY DEF PairInv
  <2>0. /\ Len(Remain(p)) \in Nat /\ Len(Remain(q)) \in Nat
        /\ Len(Remain(p))' = IF p = r THEN Len(x) - 1 ELSE Len(Remain(p))
        /\ Len(Remain(q))' = IF q = r THEN Len(x) - 1 ELSE Len(Remain(q))
    BY <1>1, <1>2, <1>6, LenProperties
  <2>1. CASE p = r /\ q = r
    BY <1>9, <2>1
  <2>2. CASE p = r /\ q # r
    BY <1>2, <1>7, <2>0, <2>2
  <2>3. CASE p # r /\ q # r
    <3>1. Len(Remain(q)) <= Len(Remain(p))
      BY <2>0, <2>3
    <3> QED
      BY <1>10, <2>3, <3>1
  <2>4. CASE p # r /\ q = r
    <3>1. CASE Len(x) <= Len(Remain(p))
      BY <1>8, <2>4, <3>1
    <3>2. CASE ~(Len(x) <= Len(Remain(p)))
      <4>1. Len(Remain(p)) = Len(x) - 1 /\ Len(Remain(p)) < Len(x)
        <5> DEFINE a == Len(Remain(p))
                   b == Len(x)
        <5>1. a \in Nat /\ b \in Nat /\ b - 1 <= a /\ ~(b <= a)
          BY <1>2, <2>0, <2>4, <3>2
        <5> HIDE DEF a, b
        <5>2. a = b - 1 /\ a < b
          BY <5>1
        <5> QED
          BY <5>2 DEF a, b
      <4>2. Behind(r, p)'
        BY <1>7, <2>4, <4>1
      <4>3. Follows(Tail(x), h2, t2, epoch'[r], Remain(p), hist'[p], tensor_table'[p])
        BY <1>1, <2>4, <4>2 DEF Behind
      <4>4. /\ Remain(p) \in Seq(Response) /\ hist'[p] \in Seq(Collective)
            /\ Len(Remain(p)) = Len(Tail(x))
        BY <1>0, <1>2, <1>4, <1>6, <2>4, <4>1
      <4> HIDE DEF h2, t2
      <4>5. Follows(Remain(p), hist'[p], tensor_table'[p], epoch'[p], Tail(x), h2, t2)
        BY <1>5, <1>6, <4>3, <4>4, FollowsEqual
      <4> QED
        BY <1>1, <2>4, <4>5 DEF Behind, h2, t2
    <3> QED
      BY <3>1, <3>2
  <2> QED
    BY <2>1, <2>2, <2>3, <2>4
<1>12. ASSUME NEW s \in Rank, x[1].type # "ERROR",
              s = r \/ Len(h) + 1 \in DOMAIN hist[s]
       PROVE  LET d == hist'[s][Len(h) + 1]
              IN  /\ d.epoch = c.epoch /\ Len(d.ops) = Len(c.ops) /\ DOMAIN d.ops = DOMAIN c.ops
                  /\ \A i \in DOMAIN c.ops : SameOp(c.ops[i], d.ops[i])
  <2>1. CASE s = r
    <3>1. Follows(x, h, tensor_table[r], epoch[r], x, h, tensor_table[r])
      BY <1>2 DEF PairInv, Behind, x
    <3>2. Agree(tensor_table[r], tensor_table[r], x[1])
      BY <1>2, <1>12, <3>1 DEF Follows
    <3> QED
      BY <1>3, <1>5, <1>12, <2>1, <3>2 DEF Agree
  <2>2. CASE s # r
    <3> DEFINE y == Remain(s)
               g == hist[s]
    <3>1. /\ y \in Seq(Response) /\ g \in Seq(Collective) /\ hist'[s] = g /\ Len(y) \in Nat
          /\ Len(g) \in Nat /\ DOMAIN g = 1 .. Len(g) /\ Len(h) + 1 <= Len(g)
      BY <1>0, <1>2, <1>4, <1>12, <2>2, LenProperties
    <3>2. Len(y) < Len(x)
      <4> SUFFICES ASSUME ~(Len(y) < Len(x)) PROVE FALSE
        OBVIOUS
      <4>1. Len(x) <= Len(y) /\ Len(y) - Len(x) \in Nat
        BY <1>2, <3>1
      <4>2. Follows(y, g, tensor_table[s], epoch[s], x, h, tensor_table[r])
        BY <4>1 DEF PairInv, Behind, x
      <4>3. Len(h) = Len(g) + Calling(y, Len(y) - Len(x))
        BY <4>2 DEF Follows
      <4>4. Calling(y, Len(y) - Len(x)) \in Nat
        BY <4>1, CallingFinite
      <4> HIDE DEF y, g, h
      <4> QED
        BY <1>4, <3>1, <4>3, <4>4
    <3>3. Follows(x, h, tensor_table[r], epoch[r], y, g, tensor_table[s])
      <4>1. Len(y) <= Len(x)
        BY <1>2, <3>1, <3>2
      <4> QED
        BY <4>1 DEF PairInv, Behind, x
    <3>4. 1 \in 1 .. Len(x) - Len(y)
      BY <1>2, <3>1, <3>2
    <3>5. SameCall(g[Len(h) + Calling(x, 1)], tensor_table[r], epoch[r], x[1])
      BY <1>12, <3>3, <3>4 DEF Follows
    <3>6. Calling(x, 1) = 1
      <4>1. Calling(x, 0 + 1) = Calling(x, 0) + 1
        BY <1>12, CallingNext
      <4> QED
        BY <4>1, CallingNone
    <3>7. SameCall(g[Len(h) + 1], tensor_table[r], epoch[r], x[1])
      BY <3>5, <3>6
    <3> DEFINE d == g[Len(h) + 1]
    <3>8. d \in Collective
      BY <1>4, <3>1, ElementOfSeq
    <3>9. d.ops \in Seq(Op) /\ c.ops \in Seq(Op)
      BY <1>3, <3>8 DEF Collective
    <3>10. /\ d.epoch = c.epoch /\ Len(d.ops) = Len(c.ops)
           /\ \A i \in DOMAIN c.ops : SameOp(c.ops[i], d.ops[i])
      <4> HIDE DEF g
      <4> QED
        BY <1>3, <3>7 DEF SameCall
    <3>11. DOMAIN d.ops = DOMAIN c.ops
      <4> HIDE DEF d
      <4> QED
        BY <3>9, <3>10, LenProperties
    <3> QED
      BY <3>1, <3>10, <3>11
  <2> QED
    BY <2>1, <2>2
<1>13. CollectivesMatch'
  <2> SUFFICES ASSUME NEW p \in Rank, NEW q \in Rank,
                      NEW k \in DOMAIN hist'[p] \cap DOMAIN hist'[q]
               PROVE  /\ hist'[p][k].epoch = hist'[q][k].epoch
                      /\ Len(hist'[p][k].ops) = Len(hist'[q][k].ops)
                      /\ \A i \in DOMAIN hist'[p][k].ops :
                            SameOp(hist'[p][k].ops[i], hist'[q][k].ops[i])
    BY DEF CollectivesMatch
  <2>1. /\ \A s \in Rank \ {r} : hist'[s] = hist[s]
        /\ DOMAIN h = 1 .. Len(h) /\ DOMAIN h2 = 1 .. Len(h2)
    BY <1>4, <1>5, LenProperties
  <2>2. CASE k \in DOMAIN hist[p] /\ k \in DOMAIN hist[q]
    <3>1. \A s \in Rank : k \in DOMAIN hist[s] => hist'[s][k] = hist[s][k]
      BY <1>5, <2>1
    <3>2. hist'[p][k] = hist[p][k] /\ hist'[q][k] = hist[q][k]
      BY <2>2, <3>1
    <3> QED
      BY <2>2, <3>2 DEF CollectivesMatch
  <2>3. CASE ~(k \in DOMAIN hist[p] /\ k \in DOMAIN hist[q])
    <3>1. k \notin DOMAIN h /\ k \in DOMAIN h2 /\ (p = r \/ q = r)
      BY <2>1, <2>3
    <3>2. k = Len(h) + 1 /\ x[1].type # "ERROR" /\ h2[k] = c
      <4>1. k \in 1 .. Len(h2) /\ k \notin 1 .. Len(h)
        BY <2>1, <3>1
      <4> HIDE DEF h, h2
      <4> QED
        BY <1>4, <1>5, <4>1
    <3>3. \A s \in {p, q} : s = r \/ Len(h) + 1 \in DOMAIN hist[s]
      BY <2>1, <3>2
    <3>4. CASE p = r
      BY <1>12, <3>2, <3>3, <3>4
    <3>5. CASE q = r
      <4> DEFINE d == hist'[p][k]
      <4>1. /\ d.epoch = c.epoch /\ Len(d.ops) = Len(c.ops) /\ DOMAIN d.ops = DOMAIN c.ops
            /\ \A i \in DOMAIN c.ops : SameOp(c.ops[i], d.ops[i])
        BY <1>12, <3>2, <3>3
      <4>2. \A i \in DOMAIN d.ops : SameOp(d.ops[i], c.ops[i])
        BY <4>1, SameOpSymmetric
      <4>3. hist'[q][k] = c
        BY <3>2, <3>5
      <4> HIDE DEF d
      <4>4. d.epoch = c.epoch /\ Len(d.ops) = Len(c.ops)
        BY <4>1
      <4> QED
        BY <4>2, <4>3, <4>4 DEF d
    <3> QED
      BY <3>1, <3>4, <3>5
  <2> QED
    BY <2>2, <2>3
<1> QED
  BY <1>11, <1>13

-----------------------------------------------------------------------------
(* The other steps *)

LEMMA MatchUser ==
    ASSUME NEW r \in Rank, IndInv, ShutdownInv, AuxInv, NoAbort, AccountInv, TensorInv, Handshake,
           PairInv, DraftInv, EpochInv, CollectivesMatch, UserStep(r)
    PROVE  PairInv' /\ DraftInv' /\ EpochInv' /\ CollectivesMatch'
<1>0. TypeOK
  BY DEF IndInv
<1>1. /\ EpochInv' /\ UNCHANGED hist
      /\ UNCHANGED epoch \/ (mpc[r] = "building" /\ \A q \in Rank \ {r} : epoch'[q] = epoch[q])
  BY <1>0, EpochUser
<1>2. \A q \in Rank : bpc[q] # "park" => epoch'[q] = epoch[q]
  BY <1>1 DEF Handshake
<1>3. UNCHANGED <<bcast, todo, responses, response_list>>
  <2>1. CASE AddToTensorQueue(r)
    BY <2>1 DEF AddToTensorQueue, backgroundVars, execVars, fuseVars, mpiVars
  <2>2. CASE ~AddToTensorQueue(r)
    BY <2>2, UserFrame DEF backgroundVars, execVars, fuseVars
  <2> QED
    BY <2>1, <2>2
<1>4. \A q \in Rank : Remain(q)' = Remain(q)
  BY <1>3 DEF Remain
<1>5. \A q \in Rank : \A k \in DOMAIN tensor_table[q] : tensor_table'[q][k] = tensor_table[q][k]
  <2>1. CASE AddToTensorQueue(r)
    <3> DEFINE op == Head(program[r]).op
               e  == [key |-> Key(op), op |-> op, handle |-> Len(status[r])]
    <3>1. DOMAIN tensor_table = Rank
      BY <1>0 DEF TypeOK, QueueOK
    <3>2. UNCHANGED tensor_table
          \/ tensor_table' = [tensor_table EXCEPT ![r] = Emplace(tensor_table[r], e)]
      BY <2>1 DEF AddToTensorQueue, queueVars
    <3> HIDE DEF e
    <3>3. \A k \in DOMAIN tensor_table[r] : Emplace(tensor_table[r], e)[k] = tensor_table[r][k]
      BY DEF Emplace, Put
    <3> QED
      BY <3>1, <3>2, <3>3
  <2>2. CASE ~AddToTensorQueue(r)
    BY <2>2, UserFrame DEF queueVars
  <2> QED
    BY <2>1, <2>2
<1>6. PairInv'
  BY <1>1, <1>2, <1>4, <1>5, KeepPairs
<1>7. DraftInv'
  BY <1>3, <1>5, KeepDraft
<1>8. CollectivesMatch'
  BY <1>1 DEF CollectivesMatch
<1> QED
  BY <1>1, <1>6, <1>7, <1>8

LEMMA MatchBackground ==
    ASSUME NEW r \in Rank, IndInv, WaitInv, TensorInv, ShutdownInv, AuxInv, AccountInv, IdleInv,
           Negotiating, HandleInv, NoAbort, Handshake, PairInv, DraftInv, EpochInv,
           CollectivesMatch, BackgroundStep(r)
    PROVE  PairInv' /\ DraftInv' /\ EpochInv' /\ CollectivesMatch'
<1>0. /\ TypeOK /\ DOMAIN tensor_table = Rank /\ DOMAIN bcast = Rank /\ DOMAIN todo = Rank
      /\ DOMAIN bpc = Rank /\ bcast[r] \in Seq(ResponseList)
  BY DEF IndInv, TypeOK, QueueOK, MpiOK, ExecOK, LocalOK
<1>1. UNCHANGED <<epoch, mpc, responses, response_list>>
  BY DEF BackgroundStep, ReadFlags, PopMessagesFromQueue, ConvertNext, ConvertDone, RemoveNext,
     RemoveDone, PerformDirect, PerformResponse, Complete, DirectDone, SlaveSend, SlaveRecv,
     RespondDone, Unpark, Unparked, Exit, FinalizeTensorQueue, userVars, masterVars, fuseVars,
     mpiVars
<1>2. EpochInv'
  BY <1>1, EpochFrame
<1>3. CASE PerformResponse(r)
  <2>1. PairInv' /\ CollectivesMatch'
    BY <1>3, PairResponse
  <2>2. bpc[Master] \notin {"construct", "fuse"}
    BY <1>3, Drafting DEF PerformResponse
  <2> QED
    BY <1>1, <1>2, <2>1, <2>2, KeepDraft
<1>4. CASE SlaveRecv(r)
  <2>1. UNCHANGED <<hist, tensor_table>>
    BY <1>4 DEF SlaveRecv, queueVars
  <2>2. bcast[r] # <<>> /\ Len(bcast[r]) = 1
    BY <1>4 DEF SlaveRecv, ShutdownInv, BcastInv, Workers, AuxInv, StageInv
  <2>3. Tail(bcast[r]) = <<>>
    BY <1>0, <2>2, SingleMessage
  <2>4. /\ bcast' = [bcast EXCEPT ![r] = Tail(bcast[r])]
        /\ todo' = [todo EXCEPT ![r] = Head(bcast[r]).responses]
    BY <1>4 DEF SlaveRecv, ToExecute
  <2>5. \A q \in Rank : Remain(q)' = Remain(q)
    BY <1>0, <2>2, <2>3, <2>4 DEF Remain
  <2>6. CollectivesMatch'
    BY <2>1 DEF CollectivesMatch
  <2> QED
    BY <1>1, <1>2, <2>1, <2>5, <2>6, KeepPairs, KeepDraft
<1>5. CASE FinalizeTensorQueue(r)
  <2>1. UNCHANGED <<hist, bcast, todo>> /\ bpc[r] = "finalize"
        /\ tensor_table' = [tensor_table EXCEPT ![r] = <<>>]
    BY <1>5 DEF FinalizeTensorQueue, execVars
  <2>2. \A q \in Rank : Remain(q)' = Remain(q)
    BY <2>1 DEF Remain
  <2>3. Remain(r) = <<>>
    BY <1>0, <2>1, RemainPlace
  <2>4. \A q \in Rank : Remain(q) # <<>> => tensor_table'[q] = tensor_table[q]
    BY <1>0, <2>1, <2>3
  <2>5. PairInv'
    <3>1. \A q \in Rank : \A j \in DOMAIN Remain(q) : \A i \in DOMAIN Remain(q)[j].keys :
             tensor_table'[q][Remain(q)[j].keys[i]] = tensor_table[q][Remain(q)[j].keys[i]]
      BY <2>4
    <3> QED
      BY <1>0, <1>1, <2>1, <2>2, <3>1, PairFrame
  <2>6. bpc[Master] \notin {"construct", "fuse"}
    BY <2>1, Drafting
  <2>7. CollectivesMatch'
    BY <2>1 DEF CollectivesMatch
  <2> QED
    BY <1>1, <1>2, <2>5, <2>6, <2>7, KeepDraft
<1>6. CASE ~(PerformResponse(r) \/ SlaveRecv(r) \/ FinalizeTensorQueue(r))
  <2>1. ~PerformDirect(r)
    BY TensorEntries
  <2>2. UNCHANGED <<hist, bcast, todo, tensor_table>>
    <3>1. CASE ConvertNext(r)
      <4>1. UNCHANGED tensor_table
        BY <3>1, TensorEntries
      <4> QED
        BY <3>1, <4>1 DEF ConvertNext, mpiVars
    <3>2. CASE ~ConvertNext(r)
      BY <1>6, <2>1, <3>2 DEF BackgroundStep, ReadFlags, PopMessagesFromQueue, ConvertDone,
         RemoveNext, RemoveDone, Complete, DirectDone, SlaveSend, RespondDone, Unpark, Unparked,
         Exit, queueVars, execVars, mpiVars
    <3> QED
      BY <3>1, <3>2
  <2>3. \A q \in Rank : Remain(q)' = Remain(q)
    BY <2>2 DEF Remain
  <2>4. CollectivesMatch'
    BY <2>2 DEF CollectivesMatch
  <2> QED
    BY <1>1, <1>2, <2>2, <2>3, <2>4, KeepPairs, KeepDraft
<1> QED
  BY <1>3, <1>4, <1>5, <1>6

-----------------------------------------------------------------------------
(* Requests say what the entries say *)

LEMMA ElementsOf ==
    /\ Elements(<<>>) = {}
    /\ \A S : \A s \in Seq(S) :
          /\ Elements(s) \subseteq S
          /\ s # <<>> => Head(s) \in Elements(s) /\ Elements(Tail(s)) \subseteq Elements(s)
          /\ \A x \in S : Elements(Append(s, x)) = Elements(s) \cup {x}
<1>1. Elements(<<>>) = {}
  BY DEF Elements
<1>2. ASSUME NEW S, NEW s \in Seq(S)
      PROVE  /\ Elements(s) \subseteq S
             /\ s # <<>> => Head(s) \in Elements(s) /\ Elements(Tail(s)) \subseteq Elements(s)
             /\ \A x \in S : Elements(Append(s, x)) = Elements(s) \cup {x}
  <2>1. DOMAIN s = 1 .. Len(s) /\ Len(s) \in Nat /\ \A i \in 1 .. Len(s) : s[i] \in S
    BY LenProperties, ElementOfSeq
  <2>2. Elements(s) \subseteq S
    BY <2>1 DEF Elements
  <2>3. ASSUME s # <<>>
        PROVE  Head(s) \in Elements(s) /\ Elements(Tail(s)) \subseteq Elements(s)
    <3>1. /\ Head(s) = s[1] /\ Len(s) # 0 /\ DOMAIN Tail(s) = 1 .. Len(s) - 1
          /\ \A i \in 1 .. Len(s) - 1 : Tail(s)[i] = s[i + 1]
      BY <2>1, <2>3, HeadTailProperties, LenProperties, EmptySeq
    <3>2. 1 \in DOMAIN s /\ \A i \in 1 .. Len(s) - 1 : i + 1 \in DOMAIN s
      BY <2>1, <3>1
    <3> QED
      BY <3>1, <3>2 DEF Elements
  <2>4. ASSUME NEW x \in S PROVE Elements(Append(s, x)) = Elements(s) \cup {x}
    <3> DEFINE t == Append(s, x)
    <3>1. /\ DOMAIN t = 1 .. Len(s) + 1 /\ t[Len(s) + 1] = x
          /\ \A i \in 1 .. Len(s) : t[i] = s[i]
      BY <2>1, AppendProperties, LenProperties
    <3> HIDE DEF t
    <3>2. \A i \in 1 .. Len(s) + 1 : i = Len(s) + 1 \/ i \in 1 .. Len(s)
      BY <2>1
    <3>3. Len(s) + 1 \in DOMAIN t /\ \A i \in 1 .. Len(s) : i \in DOMAIN t
      BY <2>1, <3>1
    <3>4. Elements(t) = Elements(s) \cup {x}
      BY <2>1, <3>1, <3>2, <3>3 DEF Elements
    <3> QED
      BY <3>4 DEF t
  <2> QED
    BY <2>2, <2>3, <2>4
<1> QED
  BY <1>1, <1>2

LEMMA LinkMoves ==
    ASSUME LinkInv,
           \A r \in Rank : bpc'[r] # "down" =>
              /\ bpc[r] # "down"
              /\ \A q \in Travelling(r)' : q.rank = r => q \in Travelling(r)
              /\ \A k \in DOMAIN tensor_table[r] : /\ k \in DOMAIN tensor_table'[r]
                                                   /\ tensor_table'[r][k] = tensor_table[r][k]
    PROVE  LinkInv'
<1> SUFFICES ASSUME NEW r \in Rank, bpc'[r] # "down", NEW q \in Travelling(r)', q.rank = r
             PROVE  q.key \in DOMAIN tensor_table'[r]
                    /\ q = RequestOf(r, tensor_table'[r][q.key].op)
  BY DEF LinkInv
<1>1. q \in Travelling(r) /\ bpc[r] # "down"
  OBVIOUS
<1>2. q.key \in DOMAIN tensor_table[r] /\ q = RequestOf(r, tensor_table[r][q.key].op)
  BY <1>1 DEF LinkInv
<1>3. q.key \in DOMAIN tensor_table'[r] /\ tensor_table'[r][q.key] = tensor_table[r][q.key]
  BY <1>2
<1> QED
  BY <1>2, <1>3

\* Under a name for which nothing is asked nothing travels.
LEMMA NotAsked ==
    ASSUME NEW r \in Rank, NEW k, TypeOK, TableInv, Asked(r, k) = 0
    PROVE  \A q \in Travelling(r) : q.rank = r => q.key # k
<1> SUFFICES ASSUME NEW q \in Travelling(r), q.rank = r, q.key = k PROVE FALSE
  OBVIOUS
<1>1. AccountType
  BY AccountTypes
<1>2. /\ Queued(r, k) = 0 /\ Popped(r, k) = 0 /\ Kept(r, k) = 0
      /\ Sent(r, k) = 0 /\ Parsed(r, k) = 0 /\ Tabled(r, k) = 0
  <2> DEFINE a == Queued(r, k)
             b == Popped(r, k)
             c == Kept(r, k)
             d == Sent(r, k)
             e == Parsed(r, k)
             f == Tabled(r, k)
  <2>1. a \in Nat /\ b \in Nat /\ c \in Nat /\ d \in Nat /\ e \in Nat /\ f \in Nat
    BY <1>1, CountsAreNat
  <2>2. a + b + c + d + e + f = 0
    BY DEF Asked
  <2> HIDE DEF a, b, c, d, e, f
  <2>3. a = 0 /\ b = 0 /\ c = 0 /\ d = 0 /\ e = 0 /\ f = 0
    BY <2>1, <2>2
  <2> QED
    BY <2>3 DEF a, b, c, d, e, f
<1>3. ASSUME NEW s \in Seq(Request), Count(s, Wanted(r, k)) = 0 PROVE q \notin Elements(s)
  <2> SUFFICES ASSUME NEW i \in DOMAIN s, q = s[i] PROVE FALSE
    BY DEF Elements
  <2>1. q \in Request
    BY ElementOfSeq, LenProperties
  <2>2. s[i] \in Wanted(r, k)
    BY <2>1 DEF Wanted
  <2> QED
    BY <1>3, <2>2, CountPositive
<1>4. /\ message_queue[r] \in Seq(Request) /\ buffer[r] \in Seq(Request)
      /\ kept[r] \in Seq(Request) /\ inbox \in Seq(Request)
      /\ gather[r] # <<>> => Head(gather[r]).requests \in Seq(Request)
      /\ \A n \in DOMAIN message_table : message_table[n] \in Seq(Request)
  BY <1>1, NegotiatedSeq, HeadRequests DEF AccountType
<1>5. /\ q \notin Elements(message_queue[r]) /\ q \notin Elements(buffer[r])
      /\ q \notin Elements(kept[r]) /\ q \notin Elements(inbox)
  BY <1>2, <1>3, <1>4 DEF Queued, Popped, Kept, Parsed
<1>6. gather[r] # <<>> => q \notin Elements(Head(gather[r]).requests)
  BY <1>2, <1>3, <1>4 DEF Sent
<1>7. ASSUME NEW n \in DOMAIN message_table PROVE q \notin Elements(message_table[n])
  <2>1. CASE n = k
    BY <1>2, <1>3, <1>4, <1>7, <2>1 DEF Tabled
  <2>2. CASE n # k
    BY <1>7, <2>2 DEF TableInv, Elements
  <2> QED
    BY <2>1, <2>2
<1> QED
  BY <1>5, <1>6, <1>7 DEF Travelling

LEMMA LinkUser ==
    ASSUME NEW r \in Rank, IndInv, NoOverlap, LinkInv, UserStep(r)
    PROVE  LinkInv'
<1>0. /\ DOMAIN tensor_table = Rank /\ message_queue \in [Rank -> Seq(Request)]
  BY DEF IndInv, TypeOK, QueueOK
<1>1. UNCHANGED <<bpc, buffer, kept, gather, inbox, message_table>>
  <2>1. CASE AddToTensorQueue(r)
    BY <2>1 DEF AddToTensorQueue, backgroundVars, localVars, countVars, mpiVars
  <2>2. CASE ~AddToTensorQueue(r)
    BY <2>2, UserFrame DEF backgroundVars, localVars, countVars
  <2> QED
    BY <2>1, <2>2
<1>2. CASE UNCHANGED queueVars
  <2>1. \A q \in Rank : Travelling(q)' = Travelling(q)
    BY <1>1, <1>2 DEF Travelling, queueVars
  <2> QED
    BY <1>1, <1>2, <2>1, LinkMoves DEF queueVars
<1>3. CASE AddToTensorQueue(r) /\ ~UNCHANGED queueVars
  <2> DEFINE op == Head(program[r]).op
             e  == [key |-> Key(op), op |-> op, handle |-> Len(status[r])]
             q0 == RequestOf(r, op)
  <2>1. /\ tensor_table' = [tensor_table EXCEPT ![r] = Emplace(tensor_table[r], e)]
        /\ message_queue' = [message_queue EXCEPT ![r] = Append(message_queue[r], q0)]
        /\ mpc[r] = "add" /\ ~IsDuplicate(r, op)
    BY <1>3 DEF AddToTensorQueue, At
  <2>2. Key(op) \notin DOMAIN tensor_table[r]
    BY <2>1 DEF NoOverlap
  <2>3. q0 \in Request
    <3>1. op \in Op
      BY <2>1, AddedOp
    <3> QED
      BY <3>1, RequestOfType
  <2>4. q0.key = e.key /\ q0.key = Key(op) /\ e.op = op
    BY DEF RequestOf
  <2> HIDE DEF e, q0
  <2>5. /\ tensor_table'[r] = Put(tensor_table[r], Key(op), e)
        /\ \A q \in Rank \ {r} : tensor_table'[q] = tensor_table[q]
                                 /\ message_queue'[q] = message_queue[q]
        /\ Elements(message_queue'[r]) = Elements(message_queue[r]) \cup {q0}
    <3>1. e.key = Key(op)
      BY <2>4
    <3>2. Elements(Append(message_queue[r], q0)) = Elements(message_queue[r]) \cup {q0}
      BY <1>0, <2>3, ElementsOf
    <3> QED
      BY <1>0, <2>1, <2>2, <3>1, <3>2 DEF Emplace
  <2>6. \A k \in DOMAIN tensor_table[r] : /\ k \in DOMAIN tensor_table'[r]
                                          /\ tensor_table'[r][k] = tensor_table[r][k]
    BY <2>2, <2>5 DEF Put
  <2>7. Key(op) \in DOMAIN tensor_table'[r] /\ tensor_table'[r][Key(op)] = e
    BY <2>5 DEF Put
  <2>8. \A q \in Rank : Travelling(q)' = Travelling(q) \cup (IF q = r THEN {q0} ELSE {})
    <3>1. Travelling(r)' = Travelling(r) \cup {q0}
      BY <1>1, <2>5 DEF Travelling
    <3>2. \A q \in Rank \ {r} : Travelling(q)' = Travelling(q)
      BY <1>1, <2>5 DEF Travelling
    <3> QED
      BY <3>1, <3>2
  <2> SUFFICES ASSUME NEW p \in Rank, bpc[p] # "down", NEW q \in Travelling(p)', q.rank = p
               PROVE  q.key \in DOMAIN tensor_table'[p]
                      /\ q = RequestOf(p, tensor_table'[p][q.key].op)
    BY <1>1 DEF LinkInv
  <2>9. CASE q \in Travelling(p)
    <3>1. q.key \in DOMAIN tensor_table[p] /\ q = RequestOf(p, tensor_table[p][q.key].op)
      BY <2>9 DEF LinkInv
    <3>2. q.key \in DOMAIN tensor_table'[p] /\ tensor_table'[p][q.key] = tensor_table[p][q.key]
      BY <2>5, <2>6, <3>1
    <3> QED
      BY <3>1, <3>2
  <2>10. CASE q \notin Travelling(p)
    <3>1. p = r /\ q = q0
      BY <2>8, <2>10
    <3>2. q.key = Key(op) /\ tensor_table'[p][q.key].op = op
      BY <2>4, <2>7, <3>1
    <3>3. q = RequestOf(p, op)
      BY <3>1 DEF q0
    <3> QED
      BY <2>7, <3>1, <3>2, <3>3
  <2> QED
    BY <2>9, <2>10
<1>4. ~AddToTensorQueue(r) => UNCHANGED queueVars
  BY UserFrame
<1> QED
  BY <1>2, <1>3, <1>4

LEMMA LinkBackground ==
    ASSUME NEW r \in Rank, IndInv, WaitInv, TensorInv, ShutdownInv, AuxInv, TableInv, AccountInv,
           IdleInv, HandleInv, NoAbort, Negotiating, LinkInv, BackgroundStep(r)
    PROVE  LinkInv'
<1> USE MasterRank
<1> USE DEF userVars, queueVars, localVars, execVars, masterVars, countVars, fuseVars, mpiVars
<1>0. /\ TypeOK /\ DOMAIN tensor_table = Rank /\ DOMAIN bpc = Rank
      /\ message_queue \in [Rank -> Seq(Request)] /\ buffer \in [Rank -> Seq(Request)]
      /\ DOMAIN kept = Rank /\ kept[r] \in Seq(Request)
      /\ DOMAIN gather = Rank
  <2>1. kept[r] \in Seq(NegotiatedRequest)
    BY DEF IndInv, TypeOK, LocalOK
  <2> QED
    BY <2>1, NegotiatedSeq DEF IndInv, TypeOK, QueueOK, LocalOK, MpiOK
<1>1. \A q \in Rank : bpc'[q] # "down" => bpc[q] # "down"
  <2>1. bpc[r] # "down"
    BY DEF BackgroundStep, ReadFlags, PopMessagesFromQueue, ConvertNext, ConvertDone, RemoveNext,
       RemoveDone, PerformDirect, PerformResponse, Complete, DirectDone, SlaveSend, SlaveRecv,
       RespondDone, Unpark, Unparked, Exit, FinalizeTensorQueue
  <2> QED
    BY <1>0, <2>1, BackgroundMoves
<1>2. ASSUME UNCHANGED tensor_table,
             \A q \in Rank : \A n \in Travelling(q)' : n.rank = q => n \in Travelling(q)
      PROVE  LinkInv'
  BY <1>1, <1>2, LinkMoves
<1>3. CASE PopMessagesFromQueue(r)
  <2>1. /\ buffer' = [buffer EXCEPT ![r] = message_queue[r]]
        /\ message_queue' = [message_queue EXCEPT ![r] = <<>>]
        /\ UNCHANGED <<tensor_table, kept, gather, inbox, message_table>>
    BY <1>3 DEF PopMessagesFromQueue
  <2>2. /\ buffer'[r] = message_queue[r] /\ Elements(message_queue'[r]) = {}
        /\ \A q \in Rank \ {r} : buffer'[q] = buffer[q] /\ message_queue'[q] = message_queue[q]
    BY <1>0, <2>1, ElementsOf
  <2>3. \A q \in Rank : Travelling(q)' \subseteq Travelling(q)
    BY <2>1, <2>2 DEF Travelling
  <2> QED
    BY <1>2, <2>1, <2>3
<1>4. CASE RemoveNext(r)
  <2>1. /\ buffer[r] # <<>> /\ buffer' = [buffer EXCEPT ![r] = Tail(buffer[r])]
        /\ kept' = [kept EXCEPT ![r] = IF Direct(r, Head(buffer[r])) THEN kept[r]
                                       ELSE Append(kept[r], Head(buffer[r]))]
        /\ UNCHANGED <<tensor_table, message_queue, gather, inbox, message_table>>
    BY <1>4 DEF RemoveNext
  <2>2. Head(buffer[r]) \in Elements(buffer[r]) /\ Elements(Tail(buffer[r])) \subseteq Elements(buffer[r])
        /\ Head(buffer[r]) \in Request
    BY <1>0, <2>1, ElementsOf, HeadTailProperties
  <2>3. Elements(Append(kept[r], Head(buffer[r]))) = Elements(kept[r]) \cup {Head(buffer[r])}
    BY <1>0, <2>2, ElementsOf
  <2>4. kept'[r] = kept[r] \/ kept'[r] = Append(kept[r], Head(buffer[r]))
    BY <1>0, <2>1
  <2>5. /\ Elements(buffer'[r]) \cup Elements(kept'[r]) \subseteq Elements(buffer[r]) \cup Elements(kept[r])
        /\ \A q \in Rank \ {r} : buffer'[q] = buffer[q] /\ kept'[q] = kept[q]
    BY <1>0, <2>1, <2>2, <2>3, <2>4
  <2>6. \A q \in Rank : Travelling(q)' \subseteq Travelling(q)
    BY <2>1, <2>5 DEF Travelling
  <2> QED
    BY <1>2, <2>1, <2>6
<1>5. CASE DirectDone(r)
  <2>1. /\ \A q \in Rank : Elements(kept'[q]) \subseteq Elements(kept[q])
        /\ UNCHANGED <<tensor_table, message_queue, buffer, gather, message_table>>
        /\ inbox' = inbox \/ (r = Master /\ inbox' = kept[r])
    <3>1. /\ kept' = [kept EXCEPT ![r] = IF skip[r] \/ r = Master THEN <<>> ELSE kept[r]]
          /\ UNCHANGED <<tensor_table, message_queue, buffer, gather, message_table>>
          /\ inbox' = inbox \/ (r = Master /\ inbox' = kept[r])
      BY <1>5 DEF DirectDone
    <3> QED
      BY <1>0, <3>1, ElementsOf
  <2>2. \A n \in Elements(kept[r]) : n.rank = r
    <3>1. kept[r] \in Seq(RequestsOf(r))
      BY DEF AuxInv, OriginInv
    <3>2. Elements(kept[r]) \subseteq RequestsOf(r)
      BY <3>1, ElementsOf
    <3> QED
      BY <3>2 DEF RequestsOf
  <2>3. ASSUME NEW q \in Rank, NEW n \in Travelling(q)', n.rank = q PROVE n \in Travelling(q)
    BY <2>1, <2>2, <2>3 DEF Travelling
  <2> QED
    BY <1>2, <2>1, <2>3
<1>6. CASE SlaveSend(r)
  <2> DEFINE list == [requests |-> kept[r], shutdown |-> ShutdownFlag(r),
                      change_topo |-> should_change_topo[r]]
  <2>1. /\ bpc[r] = "send" /\ gather' = [gather EXCEPT ![r] = Append(gather[r], list)]
        /\ kept' = [kept EXCEPT ![r] = <<>>]
        /\ UNCHANGED <<tensor_table, message_queue, buffer, inbox, message_table>>
    BY <1>6 DEF SlaveSend
  <2>2. gather[r] = <<>>
    BY <2>1 DEF ShutdownInv, GatherInv, Workers, AuxInv, StageInv
  <2>3. gather'[r] # <<>> /\ Head(gather'[r]) = list
    <3> HIDE DEF list
    <3>1. gather'[r] = <<list>>
      BY <1>0, <2>1, <2>2
    <3> QED
      BY <3>1
  <2>4. Head(gather'[r]).requests = kept[r]
    BY <2>3
  <2> HIDE DEF list
  <2>5. \A q \in Rank \ {r} : gather'[q] = gather[q] /\ kept'[q] = kept[q]
    BY <1>0, <2>1
  <2>6. Elements(kept'[r]) = {}
    BY <1>0, <2>1, ElementsOf
  <2>7. \A q \in Rank : Travelling(q)' \subseteq Travelling(q)
    <3>1. Travelling(r)' \subseteq Travelling(r)
      BY <2>1, <2>3, <2>4, <2>6 DEF Travelling
    <3>2. \A q \in Rank \ {r} : Travelling(q)' = Travelling(q)
      BY <2>1, <2>5 DEF Travelling
    <3> QED
      BY <3>1, <3>2
  <2> QED
    BY <1>2, <2>1, <2>7
<1>7. CASE FinalizeTensorQueue(r)
  <2>1. /\ bpc' = [bpc EXCEPT ![r] = "down"] /\ tensor_table' = [tensor_table EXCEPT ![r] = <<>>]
        /\ message_queue' = [message_queue EXCEPT ![r] = <<>>]
        /\ UNCHANGED <<buffer, kept, gather, inbox, message_table>>
    BY <1>7 DEF FinalizeTensorQueue, BGoto
  <2>2. \A q \in Rank \ {r} : /\ tensor_table'[q] = tensor_table[q]
                              /\ message_queue'[q] = message_queue[q]
    BY <1>0, <2>1
  <2>3. \A q \in Rank \ {r} : Travelling(q)' = Travelling(q)
    BY <2>1, <2>2 DEF Travelling
  <2>4. bpc'[r] = "down"
    BY <1>0, <2>1
  <2> QED
    BY <1>1, <2>2, <2>3, <2>4, LinkMoves
<1>8. CASE PerformResponse(r)
  <2>1. /\ UNCHANGED <<message_queue, buffer, kept, gather, inbox, message_table>>
        /\ bpc[r] = "respond" /\ todo[r] # <<>> /\ todo[r] \in Seq(Response)
    BY <1>8 DEF PerformResponse, IndInv, TypeOK, ExecOK
  <2>2. \A q \in Rank : Travelling(q)' = Travelling(q)
    BY <2>1 DEF Travelling
  <2> DEFINE keys == Head(todo[r]).keys
  <2>3. /\ UNCHANGED tensor_table
           \/ tensor_table' = [tensor_table EXCEPT ![r] = EraseAll(tensor_table[r], keys)]
    BY <1>8 DEF PerformResponse
  <2>4. \A i \in DOMAIN keys : Asked(r, keys[i]) = 0
    <3>1. bcast[r] = <<>>
      BY <2>1 DEF ShutdownInv, BcastInv, Workers, AuxInv, StageInv
    <3>2. Remain(r) = todo[r] /\ 1 \in DOMAIN Remain(r) /\ Remain(r)[1].keys = keys
      BY <2>1, <3>1, HeadTailProperties, LenProperties, EmptySeq DEF Remain
    <3> QED
      BY <1>0, <3>2, RemainEntries
  <2>5. \A n \in Travelling(r) : n.rank = r => \A i \in DOMAIN keys : n.key # keys[i]
    BY <1>0, <2>4, NotAsked
  <2> HIDE DEF keys
  <2> SUFFICES ASSUME NEW p \in Rank, bpc[p] # "down", NEW q \in Travelling(p), q.rank = p
               PROVE  q.key \in DOMAIN tensor_table'[p]
                      /\ q = RequestOf(p, tensor_table'[p][q.key].op)
    BY <1>1, <2>2 DEF LinkInv
  <2>6. q.key \in DOMAIN tensor_table[p] /\ q = RequestOf(p, tensor_table[p][q.key].op)
    BY DEF LinkInv
  <2>7. q.key \in DOMAIN tensor_table'[p] /\ tensor_table'[p][q.key] = tensor_table[p][q.key]
    <3>1. CASE p # r
      BY <1>0, <2>3, <2>6, <3>1
    <3>2. CASE p = r
      <4>1. \A i \in DOMAIN keys : q.key # keys[i]
        BY <2>5, <3>2
      <4>2. q.key \in DOMAIN EraseAll(tensor_table[r], keys)
            /\ EraseAll(tensor_table[r], keys)[q.key] = tensor_table[r][q.key]
        BY <2>6, <3>2, <4>1 DEF EraseAll
      <4> QED
        BY <1>0, <2>3, <2>6, <3>2, <4>2
    <3> QED
      BY <3>1, <3>2
  <2> QED
    BY <2>6, <2>7
<1>9. CASE ~(PopMessagesFromQueue(r) \/ RemoveNext(r) \/ DirectDone(r) \/ SlaveSend(r)
             \/ FinalizeTensorQueue(r) \/ PerformResponse(r))
  <2>1. ~PerformDirect(r) /\ (ConvertNext(r) => UNCHANGED tensor_table)
    BY TensorEntries
  <2>2. UNCHANGED <<tensor_table, message_queue, buffer, kept, gather, inbox, message_table>>
    BY <1>9, <2>1 DEF BackgroundStep, ReadFlags, ConvertNext, ConvertDone, RemoveDone, Complete,
       SlaveRecv, RespondDone, Unpark, Unparked, Exit
  <2>3. \A q \in Rank : Travelling(q)' = Travelling(q)
    BY <2>2 DEF Travelling
  <2> QED
    BY <1>2, <2>2, <2>3
<1> QED
  BY <1>3, <1>4, <1>5, <1>6, <1>7, <1>8, <1>9

LEMMA LinkCoordinator ==
    ASSUME IndInv, ShutdownInv, AuxInv, LinkInv, CoordinatorStep
    PROVE  LinkInv'
<1> USE MasterRank
<1>0. DOMAIN bpc = Rank /\ DOMAIN gather = Rank /\ gather \in [Rank -> Seq(RequestList)]
      /\ inbox \in Seq(NegotiatedRequest)
      /\ \A k \in DOMAIN message_table : message_table[k] \in Seq(NegotiatedRequest)
  BY DEF IndInv, TypeOK, LocalOK, MpiOK, CountOK
<1>1. /\ \A q \in Rank : bpc'[q] # "down" => bpc[q] # "down"
      /\ UNCHANGED <<tensor_table, message_queue, buffer, kept>>
  <2>1. /\ bpc[Master] # "down" /\ UNCHANGED <<tensor_table, message_queue, buffer, kept>>
        /\ UNCHANGED bpc \/ \E pc : bpc' = [bpc EXCEPT ![Master] = pc]
    BY Zenon DEF CoordinatorStep, CountRequest, NextList, CountDone, ConstructNext, ConstructDone,
       FuseNext, Broadcast, MasterGoto, coordUnchanged, queueVars
  <2> QED
    BY <1>0, <2>1
<1>2. ASSUME \A q \in Rank : \A n \in Travelling(q)' : n.rank = q => n \in Travelling(q)
      PROVE  LinkInv'
  BY <1>1, <1>2, LinkMoves
<1>3. CASE CountRequest
  <2> DEFINE req == Head(inbox)
  <2>1. /\ inbox # <<>> /\ inbox' = Tail(inbox) /\ UNCHANGED gather
        /\ message_table' = WithRequest(message_table, req)
    BY <1>3 DEF CountRequest
  <2>2. req \in Elements(inbox) /\ req \in NegotiatedRequest
        /\ Elements(inbox') \subseteq Elements(inbox)
    BY <1>0, <2>1, ElementsOf, HeadTailProperties
  <2> HIDE DEF req
  <2>3. ASSUME NEW k \in DOMAIN message_table', NEW n \in Elements(message_table'[k])
        PROVE  n = req \/ (k \in DOMAIN message_table /\ n \in Elements(message_table[k]))
    <3> DEFINE t == WithRequest(message_table, req)
    <3>1. /\ DOMAIN t = DOMAIN message_table \cup {req.key}
          /\ \A m \in DOMAIN message_table \ {req.key} : t[m] = message_table[m]
          /\ req.key \in DOMAIN message_table => t[req.key] = Append(message_table[req.key], req)
          /\ req.key \notin DOMAIN message_table => t[req.key] = <<req>>
      BY <2>2, TableAfterRequest
    <3> HIDE DEF t
    <3>2. message_table' = t
      BY <2>1 DEF t
    <3>3. CASE k # req.key
      BY <2>3, <3>1, <3>2, <3>3
    <3>4. CASE k = req.key /\ k \in DOMAIN message_table
      <4>1. Elements(Append(message_table[k], req)) = Elements(message_table[k]) \cup {req}
        BY <1>0, <2>2, <3>4, ElementsOf
      <4> QED
        BY <2>3, <3>1, <3>2, <3>4, <4>1
    <3>5. CASE k = req.key /\ k \notin DOMAIN message_table
      <4>1. n \in Elements(<<req>>)
        BY <2>3, <3>1, <3>2, <3>5
      <4> QED
        BY <4>1 DEF Elements
    <3> QED
      BY <3>3, <3>4, <3>5
  <2>4. ASSUME NEW q \in Rank, NEW n \in Travelling(q)' PROVE n \in Travelling(q)
    BY <1>1, <2>1, <2>2, <2>3, <2>4 DEF Travelling
  <2> QED
    BY <1>2, <2>4
<1>4. CASE NextList
  <2> DEFINE s == from + 1
  <2>1. /\ s \in Workers /\ gather[s] # <<>> /\ inbox' = Head(gather[s]).requests
        /\ gather' = [gather EXCEPT ![s] = Tail(gather[s])] /\ UNCHANGED message_table
    <3>1. from \in Rank /\ s \in Workers /\ \A q \in Workers : q > from => gather[q] # <<>>
      BY <1>4 DEF NextList, IndInv, TypeOK, CountOK
    <3>2. s > from
      BY <3>1 DEF Rank
    <3> QED
      BY <1>4, <3>1, <3>2 DEF NextList
  <2> HIDE DEF s
  <2>2. s \in Rank /\ Len(gather[s]) = 1
    BY <2>1 DEF ShutdownInv, GatherInv, Workers
  <2>3. Tail(gather[s]) = <<>>
    <3>1. gather[s] \in Seq(RequestList)
      BY <1>0, <2>2
    <3> QED
      BY <2>2, <3>1, SingleMessage
  <2>4. gather'[s] = <<>> /\ \A q \in Rank \ {s} : gather'[q] = gather[q]
    BY <1>0, <2>1, <2>2, <2>3
  <2>5. \A n \in Elements(inbox') : n.rank = s
    <3>1. Head(gather[s]).requests \in Seq(RequestsOf(s))
      BY <2>1, <2>2 DEF AuxInv, OriginInv
    <3>2. Elements(Head(gather[s]).requests) \subseteq RequestsOf(s)
      BY <3>1, ElementsOf
    <3> QED
      BY <2>1, <3>2 DEF RequestsOf
  <2>6. ASSUME NEW q \in Rank, NEW n \in Travelling(q)', n.rank = q PROVE n \in Travelling(q)
    <3>1. CASE n \in Elements(inbox')
      <4>1. q = s
        BY <2>5, <2>6, <3>1
      <4> QED
        BY <2>1, <3>1, <4>1 DEF Travelling
    <3>2. CASE n \notin Elements(inbox')
      <4>1. gather'[q] # <<>> => gather'[q] = gather[q]
        BY <2>4
      <4>2. UNCHANGED <<message_queue, buffer, kept, message_table>>
        BY <1>1, <2>1
      <4> DEFINE a == Elements(message_queue[q]) \cup Elements(buffer[q]) \cup Elements(kept[q])
                 g == IF gather[q] = <<>> THEN {} ELSE Elements(Head(gather[q]).requests)
                 p == IF gather'[q] = <<>> THEN {} ELSE Elements(Head(gather'[q]).requests)
                 t == UNION {Elements(message_table[k]) : k \in DOMAIN message_table}
      <4>3. Travelling(q)' = a \cup p \cup Elements(inbox)' \cup t
        BY <4>2 DEF Travelling
      <4>4. Travelling(q) = a \cup g \cup Elements(inbox) \cup t
        BY DEF Travelling
      <4>5. p \subseteq g
        BY <4>1
      <4>6. n \notin Elements(inbox)'
        BY <3>2 DEF Elements
      <4> HIDE DEF a, g, p, t
      <4> QED
        BY <2>6, <4>3, <4>4, <4>5, <4>6
    <3> QED
      BY <3>1, <3>2
  <2> QED
    BY <1>2, <2>6
<1>5. CASE ConstructNext
  <2>1. /\ message_table' = Erase(message_table, Head(ready_to_reduce))
        /\ UNCHANGED <<gather, inbox>>
    BY <1>5 DEF ConstructNext
  <2>2. \A k \in DOMAIN message_table' : k \in DOMAIN message_table
                                         /\ message_table'[k] = message_table[k]
    BY <2>1 DEF Erase
  <2>3. \A q \in Rank : \A n \in Travelling(q)' : n \in Travelling(q)
    BY <1>1, <2>1, <2>2 DEF Travelling
  <2> QED
    BY <1>2, <2>3
<1>6. CASE ~(CountRequest \/ NextList \/ ConstructNext)
  <2>1. UNCHANGED <<gather, inbox, message_table>>
    BY <1>6 DEF CoordinatorStep, CountDone, ConstructDone, FuseNext, Broadcast, countVars
  <2>2. \A q \in Rank : Travelling(q)' = Travelling(q)
    BY <1>1, <2>1 DEF Travelling
  <2> QED
    BY <1>2, <2>2
<1> QED
  BY <1>3, <1>4, <1>5, <1>6

-----------------------------------------------------------------------------
(* What the coordinator prepares *)

LEMMA SameTail ==
    ASSUME NEW a \in Seq(Nat), NEW b \in Seq(Nat), a # <<>>, Len(b) = Len(a),
           \A d \in 2 .. Len(a) : b[d] = a[d]
    PROVE  b # <<>> /\ Tail(a) = Tail(b)
<1>1. Len(a) \in Nat /\ Len(a) # 0 /\ b # <<>>
  BY LenProperties, EmptySeq
<1>2. /\ Tail(a) \in Seq(Nat) /\ Len(Tail(a)) = Len(a) - 1
      /\ \A i \in 1 .. Len(Tail(a)) : Tail(a)[i] = a[i + 1]
  BY HeadTailProperties
<1>3. /\ Tail(b) \in Seq(Nat) /\ Len(Tail(b)) = Len(b) - 1
      /\ \A i \in 1 .. Len(Tail(b)) : Tail(b)[i] = b[i + 1]
  BY <1>1, HeadTailProperties
<1>4. \A i \in 1 .. Len(Tail(a)) : Tail(a)[i] = Tail(b)[i]
  <2> SUFFICES ASSUME NEW i \in 1 .. Len(Tail(a)) PROVE Tail(a)[i] = Tail(b)[i]
    OBVIOUS
  <2>1. i + 1 \in 2 .. Len(a)
    BY <1>1, <1>2
  <2> QED
    BY <1>2, <1>3, <2>1
<1>5. Len(Tail(a)) = Len(Tail(b))
  BY <1>2, <1>3
<1> QED
  BY <1>1, <1>2, <1>3, <1>4, <1>5, SeqEqual

\* Requests that pass the checks of ConstructResponse stand for the same operation.
LEMMA AgreedOp ==
    ASSUME NEW reqs \in Seq(NegotiatedRequest), ~RequestError(reqs),
           NEW op \in Op, NEW o2 \in Op, SoundOp(op), SoundOp(o2), Key(op) = Key(o2),
           NEW i \in DOMAIN reqs, NEW j \in DOMAIN reqs, NEW r \in Rank, NEW s \in Rank,
           reqs[i] = RequestOf(r, op), reqs[j] = RequestOf(s, o2)
    PROVE  SameOp(op, o2)
<1> DEFINE a == reqs[1]
<1>0. 1 \in DOMAIN reqs
  BY LenProperties
<1>1. /\ HasTensor(op) /\ HasTensor(o2) /\ HasShape(op) /\ HasShape(o2)
      /\ op.type # "WIN_GET" /\ o2.type # "WIN_GET" /\ op.type # "WIN_FREE"
  BY DEF SoundOp, WindowType, OneSidedType, HasTensor, HasShape
<1>2. /\ reqs[i].type = op.type /\ reqs[i].dtype = op.dtype /\ reqs[i].device = op.device
      /\ reqs[i].shape = op.shape /\ reqs[i].hier = (op.type \in FusibleType /\ op.hier)
  BY <1>1 DEF RequestOf
<1>3. /\ reqs[j].type = o2.type /\ reqs[j].dtype = o2.dtype /\ reqs[j].device = o2.device
      /\ reqs[j].shape = o2.shape /\ reqs[j].hier = (o2.type \in FusibleType /\ o2.hier)
  BY <1>1 DEF RequestOf
<1>4. op.name = o2.name
  BY DEF Key
<1>5. \A n \in DOMAIN reqs : reqs[n] \in Request
  BY ElementOfSeq, LenProperties DEF NegotiatedRequest
<1>6. \A n \in DOMAIN reqs : reqs[n].type = a.type
  BY DEF RequestError, CheckRequestAndDataType
<1>7. op.type = a.type /\ o2.type = a.type
  BY <1>2, <1>3, <1>6
<1>8. op.dtype = o2.dtype
  BY <1>1, <1>2, <1>3, <1>7 DEF RequestError, CheckRequestAndDataType
<1>9. (op.device = CPU_DEVICE_ID) = (o2.device = CPU_DEVICE_ID)
  <2>1. \A n \in DOMAIN reqs : (reqs[n].device = CPU_DEVICE_ID) = (a.device = CPU_DEVICE_ID)
    BY DEF RequestError, CheckRequestDevice
  <2> QED
    BY <1>2, <1>3, <2>1
<1>10. op.type \in FusibleType => op.hier = o2.hier
  <2> SUFFICES ASSUME op.type \in FusibleType PROVE op.hier = o2.hier
    OBVIOUS
  <2>1. \A n \in DOMAIN reqs : reqs[n].hier = a.hier
    BY <1>7 DEF RequestError, CheckRequestIsHierarchical
  <2>2. op.hier \in BOOLEAN /\ o2.hier \in BOOLEAN
    BY DEF Op
  <2>3. reqs[i].hier = reqs[j].hier
    BY <2>1
  <2> QED
    BY <1>2, <1>3, <1>7, <2>2, <2>3
<1>11. op.type \in FusibleType \cup {"BROADCAST", "WIN_CREATE"} => op.shape = o2.shape
  BY <1>2, <1>3, <1>7 DEF RequestError, CheckRequestTensorShape
<1>12. ASSUME op.type \in {"ALLGATHER", "NEIGHBOR_ALLGATHER"}
       PROVE  op.shape # <<>> /\ o2.shape # <<>> /\ Tail(op.shape) = Tail(o2.shape)
  <2>1. ~CheckRequestGatherTensorShape(reqs)
    BY <1>7, <1>12 DEF RequestError
  <2>2. /\ a.shape # <<>>
        /\ \A n \in DOMAIN reqs : /\ Len(reqs[n].shape) = Len(a.shape)
                                  /\ \A d \in 2 .. Len(a.shape) : reqs[n].shape[d] = a.shape[d]
    BY <2>1 DEF CheckRequestGatherTensorShape
  <2>3. \A n \in DOMAIN reqs : reqs[n].shape \in Seq(Nat)
    BY <1>5 DEF Request
  <2>4. \A n \in DOMAIN reqs : reqs[n].shape # <<>> /\ Tail(a.shape) = Tail(reqs[n].shape)
    BY <1>0, <2>2, <2>3, SameTail
  <2> QED
    BY <1>2, <1>3, <2>4
<1> QED
  BY <1>4, <1>7, <1>8, <1>9, <1>10, <1>11, <1>12 DEF SameOp

\* The requests of a name that is ready: one of every rank, saying what the
\* entry of that rank says.
LEMMA ReadyRequests ==
    ASSUME IndInv, ShutdownInv, NegotiationInv, TensorInv, LinkInv, ConstructNext, NEW r \in Rank
    PROVE  LET c == Head(ready_to_reduce) IN
           /\ message_table[c] \in Seq(NegotiatedRequest)
           /\ c \in DOMAIN tensor_table[r]
           /\ Key(tensor_table[r][c].op) = c
           /\ \E i \in DOMAIN message_table[c] :
                 message_table[c][i] = RequestOf(r, tensor_table[r][c].op)
<1> DEFINE c == Head(ready_to_reduce)
<1>0. AccountType /\ TableInv /\ AccountInv
  BY AccountTypes DEF IndInv, NegotiationInv
<1>1. /\ c \in DOMAIN message_table /\ Len(message_table[c]) >= Size
      /\ bpc[Master] = "construct"
  <2>1. ready_to_reduce \in Seq(KeySet) /\ ready_to_reduce # <<>> /\ bpc[Master] = "construct"
    BY DEF IndInv, TypeOK, CountOK, ConstructNext
  <2>2. c = ready_to_reduce[1] /\ 1 \in DOMAIN ready_to_reduce
    BY <2>1, HeadTailProperties, LenProperties, EmptySeq
  <2> QED
    BY <2>1, <2>2 DEF IndInv, ReadyInTable
<1>2. message_table[c] \in Seq(NegotiatedRequest)
  BY <1>0, <1>1 DEF AccountType
<1>3. \A p \in Rank : bpc[p] # "down"
  BY <1>1, NobodyLeft
<1>4. \A i \in DOMAIN message_table[c] : message_table[c][i].key = c
  BY <1>0, <1>1 DEF TableInv
<1>5. c \in NegotiatedKey
  <2>1. ready_to_reduce \in Seq(TensorKey) /\ ready_to_reduce # <<>>
    BY DEF TensorInv, ReplyInv, ConstructNext
  <2>2. c \in TensorKey
    BY <2>1, HeadTailProperties
  <2> QED
    BY <2>2 DEF TensorKey, NegotiatedKey, KeySet, Prefix, OneSidedType
<1> HIDE DEF c
<1>6. ASSUME NEW p \in Rank PROVE Count(message_table[c], Wanted(p, c)) <= 1
  <2>1. Asked(p, c) + Replied(p, c) = Owed(p, c) /\ Owed(p, c) \in {0, 1}
    BY <1>0, <1>3, <1>5 DEF AccountInv, Owed
  <2>2. Tabled(p, c) = Count(message_table[c], Wanted(p, c))
    BY <1>1 DEF Tabled
  <2>3. Tabled(p, c) <= Owed(p, c)
    BY <1>0, <2>1, CountsAreNat DEF Asked, Replied
  <2> QED
    BY <1>0, <2>1, <2>2, <2>3, CountsAreNat
<1>7. Count(message_table[c], Wanted(r, c)) = 1
  BY <1>1, <1>2, <1>4, <1>6, OneEach
<1>8. PICK i \in DOMAIN message_table[c] : message_table[c][i] \in Wanted(r, c)
  BY <1>2, <1>7, CountPositive
<1> DEFINE q == message_table[c][i]
<1>9. q.rank = r /\ q.key = c
  BY <1>8 DEF Wanted
<1>10. q \in Travelling(r)
  <2>1. q \in Elements(message_table[c])
    BY <1>2, LenProperties DEF Elements
  <2> QED
    BY <1>1, <2>1 DEF Travelling
<1> HIDE DEF q
<1>11. c \in DOMAIN tensor_table[r] /\ q = RequestOf(r, tensor_table[r][c].op)
  BY <1>3, <1>9, <1>10 DEF LinkInv
<1>12. Key(tensor_table[r][c].op) = c
  BY <1>9, <1>11 DEF RequestOf
<1> QED
  BY <1>2, <1>11, <1>12 DEF c, q

LEMMA DraftConstruct ==
    ASSUME IndInv, ShutdownInv, NegotiationInv, TensorInv, LinkInv, DraftInv, ConstructNext
    PROVE  DraftInv'
<1> DEFINE c    == Head(ready_to_reduce)
           reqs == message_table[c]
           x    == ConstructResponse(c, reqs)
<1>1. /\ responses' = Append(responses, x) /\ UNCHANGED <<response_list, tensor_table>>
      /\ responses \in Seq(Response) /\ DOMAIN tensor_table = Rank
      /\ \A r \in Rank : \A k \in DOMAIN tensor_table[r] :
            tensor_table[r][k].op \in Op /\ SoundOp(tensor_table[r][k].op)
  <2>1. \A r \in Rank : \A k \in DOMAIN tensor_table[r] : tensor_table[r][k].op \in Op
    BY DEF IndInv, TypeOK, QueueOK, Entry
  <2> QED
    BY <2>1 DEF ConstructNext, coordUnchanged, queueVars, IndInv, TypeOK, FuseOK, QueueOK,
       TensorInv, EntryInv
<1>2. x.keys = <<c>> /\ (x.type # "ERROR" => ~RequestError(reqs))
  BY DEF ConstructResponse
<1>3. \A r \in Rank :
        /\ reqs \in Seq(NegotiatedRequest)
        /\ c \in DOMAIN tensor_table[r]
        /\ Key(tensor_table[r][c].op) = c
        /\ \E i \in DOMAIN reqs : reqs[i] = RequestOf(r, tensor_table[r][c].op)
  BY ReadyRequests
<1> HIDE DEF c, reqs, x
<1>4. ASSUME NEW r \in Rank, NEW s \in Rank, x.type # "ERROR"
      PROVE  Agree(tensor_table[r], tensor_table[s], x)
  <2>1. SameOp(tensor_table[r][c].op, tensor_table[s][c].op)
    <3>1. PICK i \in DOMAIN reqs : reqs[i] = RequestOf(r, tensor_table[r][c].op)
      BY <1>3
    <3>2. PICK j \in DOMAIN reqs : reqs[j] = RequestOf(s, tensor_table[s][c].op)
      BY <1>3
    <3> DEFINE a == tensor_table[r][c].op
               b == tensor_table[s][c].op
    <3>3. a \in Op /\ b \in Op /\ SoundOp(a) /\ SoundOp(b) /\ Key(a) = Key(b)
      BY <1>1, <1>3
    <3>4. reqs[i] = RequestOf(r, a) /\ reqs[j] = RequestOf(s, b)
      BY <3>1, <3>2
    <3>5. reqs \in Seq(NegotiatedRequest) /\ ~RequestError(reqs)
      BY <1>2, <1>3, <1>4
    <3> HIDE DEF a, b
    <3>6. SameOp(a, b)
      BY <3>3, <3>4, <3>5, AgreedOp
    <3> QED
      BY <3>6 DEF a, b
  <2> QED
    BY <1>2, <2>1 DEF Agree
<1>5. \A i \in DOMAIN Append(responses, x) :
         Append(responses, x)[i] = x
         \/ (i \in DOMAIN responses /\ Append(responses, x)[i] = responses[i])
  BY <1>1, AppendProperties, LenProperties
<1> QED
  BY <1>1, <1>4, <1>5 DEF DraftInv

LEMMA DraftFuse ==
    ASSUME IndInv, TensorInv, NegotiationInv, NoAbort, DraftInv, FuseNext
    PROVE  DraftInv'
<1> DEFINE new == Head(responses)
           c   == new.keys[1]
           n   == Len(response_list)
<1>1. /\ responses # <<>> /\ UNCHANGED tensor_table
      /\ responses \in Seq(Response) /\ response_list \in Seq(Response)
  BY DEF FuseNext, coordUnchanged, queueVars, IndInv, TypeOK, FuseOK
<1>2. /\ responses' = Tail(responses)
      /\ \/ /\ Extending /\ Last.type = new.type
            /\ response_list' = [response_list EXCEPT ![n] = WithKey(Last, c)]
         \/ response_list' = Append(response_list, new)
  <2>1. bpc'[Master] # "aborted"
    <3>1. UNCHANGED bpc
      BY NoAbortFuse DEF NegotiationInv
    <3> QED
      BY <3>1, MasterRank DEF NoAbort
  <2>2. DOMAIN bpc = Rank
    BY DEF IndInv, TypeOK, LocalOK
  <2>3. bpc' # [bpc EXCEPT ![Master] = "aborted"]
    BY <2>1, <2>2, MasterRank
  <2>4. Fuses(new) => Extending /\ Last.type = new.type
    BY DEF Fuses, CanFuse
  <2> QED
    BY Zenon, <2>3, <2>4 DEF FuseNext, MasterGoto
<1>3. /\ new = responses[1] /\ 1 \in DOMAIN responses /\ new \in Response
      /\ \A i \in DOMAIN Tail(responses) : i + 1 \in DOMAIN responses
                                           /\ Tail(responses)[i] = responses[i + 1]
  BY <1>1, HeadTailProperties, LenProperties, EmptySeq
<1>4. new.keys = <<c>>
  <2>1. Len(new.keys) = 1 /\ new.keys \in Seq(KeySet)
    BY <1>3 DEF NegotiationInv, AuxInv, SingleInv, Response
  <2> QED
    BY <2>1, LenProperties, SeqDef
<1> HIDE DEF new, c
<1> SUFFICES ASSUME NEW r \in Rank, NEW s \in Rank
             PROVE  /\ \A i \in DOMAIN responses' : responses'[i].type # "ERROR" =>
                          Agree(tensor_table[r], tensor_table[s], responses'[i])
                    /\ \A i \in DOMAIN response_list' : response_list'[i].type # "ERROR" =>
                          Agree(tensor_table[r], tensor_table[s], response_list'[i])
  BY <1>1 DEF DraftInv
<1>5. \A i \in DOMAIN responses' : responses'[i].type # "ERROR" =>
         Agree(tensor_table[r], tensor_table[s], responses'[i])
  BY <1>2, <1>3 DEF DraftInv
<1>6. new.type # "ERROR" => Agree(tensor_table[r], tensor_table[s], new)
  BY <1>3 DEF DraftInv
<1>7. \A i \in DOMAIN response_list : response_list[i].type # "ERROR" =>
         Agree(tensor_table[r], tensor_table[s], response_list[i])
  BY DEF DraftInv
<1>8. CASE response_list' = Append(response_list, new)
  <2>1. \A i \in DOMAIN Append(response_list, new) :
          Append(response_list, new)[i] = new
          \/ (i \in DOMAIN response_list /\ Append(response_list, new)[i] = response_list[i])
    BY <1>1, <1>3, AppendProperties, LenProperties
  <2> QED
    BY <1>5, <1>6, <1>7, <1>8, <2>1
<1>9. CASE /\ Extending /\ Last.type = new.type
           /\ response_list' = [response_list EXCEPT ![n] = WithKey(Last, c)]
  <2>1. n \in DOMAIN response_list /\ Last = response_list[n] /\ Last \in Response
    BY <1>1, <1>9, LenProperties, EmptySeq, ElementOfSeq DEF Extending, Last
  <2>2. /\ response_list'[n] = WithKey(Last, c) /\ DOMAIN response_list' = DOMAIN response_list
        /\ \A i \in DOMAIN response_list \ {n} : response_list'[i] = response_list[i]
    BY <1>9, <2>1
  <2> HIDE DEF n
  <2>3. /\ Last.keys \in Seq(KeySet) /\ c \in KeySet
    <3>1. new.keys \in Seq(KeySet)
      BY <1>3 DEF Response
    <3>2. c \in KeySet
      BY <1>4, <3>1, ElementOfSeq
    <3> QED
      BY <2>1, <3>2 DEF Response
  <2>4. ASSUME Last.type # "ERROR"
        PROVE  Agree(tensor_table[r], tensor_table[s], WithKey(Last, c))
    <3>1. Agree(tensor_table[r], tensor_table[s], Last)
      BY <1>7, <2>1, <2>4
    <3>2. SameOp(tensor_table[r][c].op, tensor_table[s][c].op)
      BY <1>4, <1>6, <1>9, <2>4 DEF Agree
    <3>3. WithKey(Last, c).keys = Append(Last.keys, c)
      BY DEF WithKey
    <3>4. \A i \in DOMAIN Append(Last.keys, c) :
            Append(Last.keys, c)[i] = c
            \/ (i \in DOMAIN Last.keys /\ Append(Last.keys, c)[i] = Last.keys[i])
      BY <2>3, AppendProperties, LenProperties
    <3> QED
      BY <3>1, <3>2, <3>3, <3>4 DEF Agree
  <2>5. WithKey(Last, c).type = Last.type
    BY DEF WithKey
  <2>6. ASSUME NEW i \in DOMAIN response_list', response_list'[i].type # "ERROR"
        PROVE  Agree(tensor_table[r], tensor_table[s], response_list'[i])
    <3>1. CASE i = n
      BY <2>2, <2>4, <2>5, <2>6, <3>1
    <3>2. CASE i # n
      BY <1>7, <2>2, <2>6, <3>2
    <3> QED
      BY <3>1, <3>2
  <2> QED
    BY <1>5, <2>6
<1> QED
  BY <1>2, <1>8, <1>9

LEMMA HeadOfOne == \A v : Append(<<>>, v) # <<>> /\ Head(Append(<<>>, v)) = v
<1> SUFFICES ASSUME NEW v PROVE Append(<<>>, v) # <<>> /\ Head(Append(<<>>, v)) = v
  OBVIOUS
<1>1. <<>> \in Seq({v}) /\ Len(<<>>) = 0
  BY EmptySeq
<1>2. /\ Append(<<>>, v) \in Seq({v}) /\ Append(<<>>, v) # <<>>
      /\ Append(<<>>, v)[Len(<<>>) + 1] = v
  BY <1>1, AppendProperties
<1> QED
  BY <1>1, <1>2, HeadTailProperties

\* The ranks start on a response list together.
LEMMA PairBroadcast ==
    ASSUME IndInv, ShutdownInv, AuxInv, NoAbort, PairInv, DraftInv, Broadcast
    PROVE  PairInv'
<1> USE MasterRank
<1> DEFINE x == response_list
<1>1. /\ bpc[Master] = "fuse" /\ UNCHANGED <<hist, tensor_table, epoch>>
      /\ x \in Seq(Response) /\ hist \in [Rank -> Seq(Collective)] /\ DOMAIN todo = Rank
  BY DEF Broadcast, coordUnchanged, queueVars, IndInv, TypeOK, FuseOK, ExecOK, MpiOK
<1>2. \A r \in Rank : Remain(r) = <<>> /\ bcast[r] = <<>>
  BY <1>1, Drafting
<1>3. ASSUME NEW r \in Rank PROVE Remain(r)' = x
  <2> DEFINE list == [responses   |-> response_list,
                      shutdown    |-> should_shut_down[Master],
                      change_topo |-> should_change_topo[Master]]
  <2>1. /\ bcast'[r] = IF r \in Workers THEN Append(bcast[r], list) ELSE bcast[r]
        /\ todo'[Master] = x
    BY <1>1 DEF Broadcast
  <2>2. list.responses = x
    OBVIOUS
  <2> HIDE DEF list
  <2>3. CASE r = Master
    <3>1. bcast'[r] = <<>>
      BY <1>2, <2>1, <2>3 DEF Workers
    <3> QED
      BY <2>1, <2>3, <3>1 DEF Remain
  <2>4. CASE r # Master
    <3>1. bcast'[r] = Append(<<>>, list)
      BY <1>2, <2>1, <2>4 DEF Workers
    <3>2. Append(<<>>, list) # <<>> /\ Head(Append(<<>>, list)) = list
      BY HeadOfOne
    <3> QED
      BY <2>2, <3>1, <3>2 DEF Remain
  <2> QED
    BY <2>3, <2>4
<1> HIDE DEF x
<1> SUFFICES ASSUME NEW r \in Rank, NEW s \in Rank PROVE Behind(r, s)'
  BY DEF PairInv
<1>4. Len(hist[r]) \in Nat /\ Len(hist[s]) \in Nat /\ Len(x) \in Nat /\ DOMAIN x = 1 .. Len(x)
  BY <1>1, LenProperties
<1>5. Len(hist[s]) = Len(hist[r])
  <2>1. Follows(<<>>, hist[r], tensor_table[r], epoch[r], <<>>, hist[s], tensor_table[s])
    BY <1>2 DEF PairInv, Behind
  <2>2. Len(<<>>) - Len(<<>>) = 0
    OBVIOUS
  <2>3. Len(hist[s]) = Len(hist[r]) + Calling(<<>>, 0)
    BY <2>1, <2>2 DEF Follows
  <2> QED
    BY <1>4, <2>3, CallingNone
<1>6. Len(x) - Len(x) = 0 /\ \A i \in DOMAIN x : x[i] = x[0 + i]
  BY <1>4
<1>7. Len(hist[s]) = Len(hist[r]) + Calling(x, 0)
  BY <1>4, <1>5, CallingNone
<1>8. \A j \in DOMAIN x : x[j].type # "ERROR" => Agree(tensor_table[r], tensor_table[s], x[j])
  BY DEF DraftInv, x
<1>9. Follows(x, hist[r], tensor_table[r], epoch[r], x, hist[s], tensor_table[s])
  BY <1>6, <1>7, <1>8 DEF Follows
<1>10. Remain(r)' = x /\ Remain(s)' = x
  BY <1>3
<1> QED
  BY <1>1, <1>9, <1>10 DEF Behind

LEMMA MatchCoordinator ==
    ASSUME IndInv, ShutdownInv, NegotiationInv, TensorInv, NoAbort, PairInv, DraftInv, LinkInv,
           EpochInv, CollectivesMatch, CoordinatorStep
    PROVE  PairInv' /\ DraftInv' /\ EpochInv' /\ CollectivesMatch'
<1>1. UNCHANGED <<hist, tensor_table, epoch, mpc>>
  BY DEF CoordinatorStep, CountRequest, NextList, CountDone, ConstructNext, ConstructDone,
     FuseNext, Broadcast, coordUnchanged, queueVars, userVars
<1>2. EpochInv' /\ CollectivesMatch' /\ AuxInv /\ AccountInv
  <2>1. EpochInv'
    BY <1>1, EpochFrame
  <2>2. CollectivesMatch'
    BY <1>1 DEF CollectivesMatch
  <2> QED
    BY <2>1, <2>2 DEF NegotiationInv
<1>3. ASSUME UNCHANGED <<bcast, todo>> PROVE PairInv'
  <2>1. \A r \in Rank : Remain(r)' = Remain(r)
    BY <1>3 DEF Remain
  <2> QED
    BY <1>1, <1>2, <2>1, KeepPairs
<1>4. ASSUME UNCHANGED <<responses, response_list>> PROVE DraftInv'
  BY <1>1, <1>2, <1>4, KeepDraft
<1>5. CASE ConstructNext
  <2>1. UNCHANGED <<bcast, todo>>
    BY <1>5 DEF ConstructNext
  <2> QED
    BY <1>2, <1>3, <1>5, <2>1, DraftConstruct
<1>6. CASE FuseNext
  <2>1. UNCHANGED <<bcast, todo>>
    BY <1>6 DEF FuseNext
  <2> QED
    BY <1>2, <1>3, <1>6, <2>1, DraftFuse
<1>7. CASE Broadcast
  <2>1. responses' = <<>> /\ response_list' = <<>>
    BY <1>7 DEF Broadcast
  <2>2. DraftInv'
    BY <2>1 DEF DraftInv
  <2> QED
    BY <1>2, <1>7, <2>2, PairBroadcast
<1>8. CASE CountRequest \/ NextList \/ CountDone \/ ConstructDone
  <2>1. UNCHANGED <<bcast, todo, responses, response_list>>
    BY <1>8 DEF CountRequest, NextList, CountDone, ConstructDone, fuseVars
  <2> QED
    BY <1>2, <1>3, <1>4, <2>1
<1> QED
  BY <1>5, <1>6, <1>7, <1>8 DEF CoordinatorStep

LEMMA MatchInit == Init => MatchInv /\ CollectivesMatch
<1> SUFFICES ASSUME Init PROVE MatchInv /\ CollectivesMatch
  OBVIOUS
<1>1. \A r \in Rank : /\ todo[r] = <<>> /\ bcast[r] = <<>> /\ hist[r] = <<>> /\ epoch[r] = 0
                      /\ message_queue[r] = <<>> /\ buffer[r] = <<>> /\ kept[r] = <<>>
                      /\ gather[r] = <<>>
  BY DEF Init
<1>2. /\ inbox = <<>> /\ DOMAIN message_table = {} /\ responses = <<>> /\ response_list = <<>>
  BY DEF Init
<1>3. \A r \in Rank : Remain(r) = <<>>
  BY <1>1 DEF Remain
<1>4. PairInv
  <2> SUFFICES ASSUME NEW r \in Rank, NEW s \in Rank PROVE Behind(r, s)
    BY DEF PairInv
  <2>1. Len(<<>>) = 0 /\ Len(<<>>) - Len(<<>>) = 0 /\ DOMAIN <<>> = {}
    OBVIOUS
  <2>2. Len(<<>>) = Len(<<>>) + Calling(<<>>, 0)
    BY <2>1, CallingNone
  <2>3. Follows(<<>>, <<>>, tensor_table[r], epoch[r], <<>>, <<>>, tensor_table[s])
    BY <2>1, <2>2 DEF Follows
  <2> QED
    BY <1>1, <1>3, <2>3 DEF Behind
<1>5. DraftInv
  BY <1>2 DEF DraftInv
<1>6. LinkInv
  <2>1. \A r \in Rank : Travelling(r) = {}
    BY <1>1, <1>2, ElementsOf DEF Travelling
  <2> QED
    BY <2>1 DEF LinkInv
<1>7. EpochInv
  BY <1>1 DEF EpochInv
<1>8. CollectivesMatch
  <2>1. DOMAIN <<>> = {}
    OBVIOUS
  <2> QED
    BY <1>1, <2>1 DEF CollectivesMatch
<1> QED
  BY <1>4, <1>5, <1>6, <1>7, <1>8 DEF MatchInv

LEMMA MatchStep ==
    ASSUME IndInv, ShutdownInv, NegotiationInv, HandleIndInv, Negotiating, NoOverlap, WaitInv,
           TensorInv, NoAbort, Handshake, MatchInv, CollectivesMatch, [Next]_vars
    PROVE  MatchInv' /\ CollectivesMatch'
<1>0. /\ AuxInv /\ TableInv /\ AccountInv /\ IdleInv /\ HandleInv
      /\ PairInv /\ DraftInv /\ LinkInv /\ EpochInv
  BY DEF NegotiationInv, HandleIndInv, MatchInv
<1>1. ASSUME NEW r \in Rank, UserStep(r) PROVE MatchInv' /\ CollectivesMatch'
  BY <1>0, <1>1, MatchUser, LinkUser DEF MatchInv
<1>2. ASSUME NEW r \in Rank, BackgroundStep(r) PROVE MatchInv' /\ CollectivesMatch'
  BY <1>0, <1>2, MatchBackground, LinkBackground DEF MatchInv
<1>3. CASE CoordinatorStep
  BY <1>0, <1>3, MatchCoordinator, LinkCoordinator DEF MatchInv
<1>4. CASE Terminating \/ UNCHANGED vars
  <2>1. UNCHANGED <<bcast, todo, hist, tensor_table, epoch, mpc, bpc, responses, response_list,
                    message_queue, buffer, kept, gather, inbox, message_table>>
    BY <1>4 DEF Terminating, vars, userVars, queueVars, localVars, execVars, countVars, fuseVars,
       mpiVars
  <2>2. /\ \A r \in Rank : Remain(r)' = Remain(r)
        /\ \A r \in Rank : Travelling(r)' = Travelling(r)
    BY <2>1 DEF Remain, Travelling
  <2>3. PairInv' /\ DraftInv'
    BY <1>0, <2>1, <2>2, KeepPairs, KeepDraft
  <2>4. LinkInv' /\ EpochInv' /\ CollectivesMatch'
    BY <1>0, <2>1, <2>2 DEF LinkInv, EpochInv, CollectivesMatch
  <2> QED
    BY <2>3, <2>4 DEF MatchInv
<1> QED
  BY <1>1, <1>2, <1>3, <1>4 DEF Next

\* The k-th collective call of every rank is the same, in every job whose programs
\* work on tensors only, keep the negotiation on, do not suspend, and synchronize
\* before they shut down: the same operations fused in the same order, on tensors
\* MPI cannot tell apart, under the same topology, whatever the order in which the
\* user threads submit them, however set_topology interleaves, and whatever
\* requests ConstructResponse refuses on the way.
THEOREM CallsMatch ==
    ASSUME \A p \in Programs : \A r \in Rank : SoundProgram(p[r])
    PROVE  Spec => []CollectivesMatch
<1> DEFINE Inv == /\ IndInv /\ ShutdownInv /\ NegotiationInv /\ HandleIndInv /\ PauseInv
                  /\ SkipFree /\ TensorJob /\ WaitInv /\ TensorInv /\ NoAbort
                  /\ MatchInv /\ CollectivesMatch
<1>1. Init => Inv
  BY IndInit, ShutdownInit, AuxInit, TableInit, AccountInit, AnswerInit, HandleInit, TensorInit,
     PauseInit, MatchInit, SoundJob DEF NegotiationInv, HandleIndInv
<1>2. Inv /\ [Next]_vars => Inv'
  <2> SUFFICES ASSUME Inv, [Next]_vars PROVE Inv'
    OBVIOUS
  <2>1. Negotiating /\ NoOverlap /\ TypeOK
    BY TensorJobOverlap DEF SkipFree, IndInv
  <2>2. IndInv' /\ ShutdownInv' /\ SkipFree' /\ TensorJob' /\ PauseInv'
    BY <2>1, IndStep, ShutdownStep, SkipFreeStep, TensorJobStep, PauseStep
  <2>3. NegotiationInv'
    BY <2>1, AccountStep
  <2>4. HandleIndInv'
    BY <2>1, HandleStep
  <2>5. WaitInv' /\ TensorInv'
    BY <2>1, WaitStep, TensorStep
  <2>6. NoAbort'
    BY <2>1, NoAbortStep DEF NegotiationInv, HandleIndInv
  <2>7. MatchInv' /\ CollectivesMatch'
    BY <2>1, MatchStep DEF PauseInv
  <2> QED
    BY <2>2, <2>3, <2>4, <2>5, <2>6, <2>7
<1>3. Inv => CollectivesMatch
  OBVIOUS
<1> QED
  BY <1>1, <1>2, <1>3, PTL DEF Spec
=============================================================================
