----------------------------- MODULE TypeProofs -----------------------------
(***************************************************************************)
(* Type correctness of Bluefog, the assertion of ConstructResponse, and the *)
(* pause of the background thread around bluefog_set_topology and           *)
(* SetSkipNegotiateStageState, proved for every number of ranks, every      *)
(* topology and every program of the user threads.                          *)
(***************************************************************************)
EXTENDS Bluefog, SequenceTheorems, FiniteSetTheorems, TLAPS

(***************************************************************************)
(* TypeOK is not inductive.  A thread inside a call needs the call at the   *)
(* head of its program, an operation under way needs its entries, and the   *)
(* response being extended by the fusion loop needs its entry.              *)
(***************************************************************************)
CallInv ==
    \A r \in Rank :
        /\ mpc[r] # "run" => program[r] # <<>>
        /\ mpc[r] = "add" => Head(program[r]).call = "enqueue" /\ status[r] # <<>>
        /\ mpc[r] = "building" => Head(program[r]).call = "set_topology"

RunningInv ==
    \A r \in Rank : bpc[r] \in {"directing", "responding"} => running[r] # <<>>

FuseInv ==
    /\ response_list # <<>> => bpc[Master] \in {"fuse", "aborted"}
    /\ Extending => Last.keys[1] \in DOMAIN tensor_table[Master]

IndInv == TypeOK /\ CallInv /\ RunningInv /\ ReadyInTable /\ FuseInv

-----------------------------------------------------------------------------
(* Facts about sequences and the helpers of the model *)

LEMMA MasterRank == Master \in Rank
BY SizeAssumption DEF Master, Rank

\* A sequence mapped element by element.
LEMMA MapSeq ==
    ASSUME NEW S, NEW T, NEW s \in Seq(S), NEW f,
           f = [i \in DOMAIN s |-> f[i]], \A i \in DOMAIN s : f[i] \in T
    PROVE  f \in Seq(T) /\ Len(f) = Len(s)
<1>1. DOMAIN s = 1 .. Len(s) /\ Len(s) \in Nat
  BY LenProperties
<1>2. f \in [1 .. Len(s) -> T]
  BY <1>1
<1> QED
  BY <1>1, <1>2, SeqDef, LenProperties

\* The status of a handle is replaced, the handles stay.
LEMMA MapStatus ==
    ASSUME NEW s \in Seq(Status), NEW st \in Status, NEW H
    PROVE  LET f == [h \in DOMAIN s |-> IF h \in H THEN st ELSE s[h]]
           IN  f \in Seq(Status) /\ Len(f) = Len(s)
<1> DEFINE f == [h \in DOMAIN s |-> IF h \in H THEN st ELSE s[h]]
<1>1. \A h \in DOMAIN s : f[h] \in Status
  BY LenProperties, ElementOfSeq
<1>2. f = [i \in DOMAIN s |-> f[i]]
  OBVIOUS
<1> HIDE DEF f
<1>3. f \in Seq(Status) /\ Len(f) = Len(s)
  BY <1>1, <1>2, MapSeq
<1> QED
  BY <1>3 DEF f

\* The handles of a rank keep their number when their callbacks run.
LEMMA CallbackStatus ==
    ASSUME NEW r \in Rank, status \in [Rank -> Seq(Status)],
           NEW batch, NEW st \in Status, Callback(r, batch, st)
    PROVE  /\ status' \in [Rank -> Seq(Status)]
           /\ \A q \in Rank : status[q] # <<>> => status'[q] # <<>>
<1> DEFINE H == {h \in DOMAIN status[r] : \E i \in DOMAIN batch : batch[i].handle = h}
           f == [h \in DOMAIN status[r] |-> IF h \in H THEN st ELSE status[r][h]]
<1>1. status[r] \in Seq(Status)
  OBVIOUS
<1>2. f \in Seq(Status) /\ Len(f) = Len(status[r])
  <2> HIDE DEF H
  <2> QED
    BY <1>1, MapStatus
<1>3. f = [h \in DOMAIN status[r] |->
             IF \E i \in DOMAIN batch : batch[i].handle = h THEN st ELSE status[r][h]]
  OBVIOUS
<1> HIDE DEF f
<1>4. status' = [status EXCEPT ![r] = f]
  BY <1>3 DEF Callback
<1> QED
  BY <1>2, <1>4, EmptySeq

\* An operation yields a well-formed message name and request.
LEMMA RequestOfType ==
    ASSUME NEW r \in Rank, NEW op \in Op
    PROVE  /\ Key(op) \in KeySet
           /\ RequestOf(r, op) \in Request
<1>1. Key(op) \in KeySet
  BY DEF Key, KeySet, Prefix, Op
<1>2. RequestRoot(op) \in Rank
  BY MasterRank DEF RequestRoot, Master
<1> QED
  BY <1>1, <1>2, DTypeAssumption, EmptySeq DEF RequestOf, Request, Op

-----------------------------------------------------------------------------
(* Parts of the invariant a step does not touch *)

LEMMA Frames ==
    /\ UserOK /\ UNCHANGED userVars => UserOK'
    /\ FlagOK /\ UNCHANGED flagVars => FlagOK'
    /\ TopoOK /\ UNCHANGED topoFlags => TopoOK'
    /\ QueueOK /\ UNCHANGED queueVars => QueueOK'
    /\ LocalOK /\ UNCHANGED <<bpc, localVars>> => LocalOK'
    /\ ExecOK /\ UNCHANGED execVars => ExecOK'
    /\ CountOK /\ UNCHANGED countVars => CountOK'
    /\ FuseOK /\ UNCHANGED fuseVars => FuseOK'
    /\ MpiOK /\ UNCHANGED mpiVars => MpiOK'
<1>1. UserOK /\ UNCHANGED userVars => UserOK'
  BY DEF UserOK, userVars
<1>2. FlagOK /\ UNCHANGED flagVars => FlagOK'
  BY DEF FlagOK, flagVars
<1>3. TopoOK /\ UNCHANGED topoFlags => TopoOK'
  BY DEF TopoOK, topoFlags
<1>4. QueueOK /\ UNCHANGED queueVars => QueueOK'
  BY DEF QueueOK, queueVars
<1>5. LocalOK /\ UNCHANGED <<bpc, localVars>> => LocalOK'
  BY DEF LocalOK, localVars
<1>6. ExecOK /\ UNCHANGED execVars => ExecOK'
  BY DEF ExecOK, execVars
<1>7. CountOK /\ UNCHANGED countVars => CountOK'
  BY DEF CountOK, countVars
<1>8. FuseOK /\ UNCHANGED fuseVars => FuseOK'
  BY DEF FuseOK, fuseVars
<1>9. MpiOK /\ UNCHANGED mpiVars => MpiOK'
  BY DEF MpiOK, mpiVars
<1> QED
  BY <1>1, <1>2, <1>3, <1>4, <1>5, <1>6, <1>7, <1>8, <1>9

LEMMA InvFrames ==
    /\ CallInv /\ UNCHANGED <<program, mpc, status>> => CallInv'
    /\ RunningInv /\ UNCHANGED <<bpc, running>> => RunningInv'
    /\ ReadyInTable /\ UNCHANGED <<message_table, ready_to_reduce>> => ReadyInTable'
    /\ FuseInv /\ UNCHANGED <<response_list, bpc, tensor_table>> => FuseInv'
<1>1. CallInv /\ UNCHANGED <<program, mpc, status>> => CallInv'
  BY DEF CallInv
<1>2. RunningInv /\ UNCHANGED <<bpc, running>> => RunningInv'
  BY DEF RunningInv
<1>3. ReadyInTable /\ UNCHANGED <<message_table, ready_to_reduce>> => ReadyInTable'
  BY DEF ReadyInTable
<1>4. FuseInv /\ UNCHANGED <<response_list, bpc, tensor_table>> => FuseInv'
  BY DEF FuseInv, Extending, Last
<1> QED
  BY <1>1, <1>2, <1>3, <1>4

LEMMA IndInit == Init => IndInv
<1> SUFFICES ASSUME Init PROVE IndInv
  OBVIOUS
<1> USE DEF Init
<1>1. UserOK
  BY ProgramsAssumption, EmptySeq DEF UserOK, MPC
<1>2. FlagOK /\ TopoOK
  BY DEF FlagOK, TopoOK
<1>3. QueueOK
  BY EmptySeq DEF QueueOK
<1>4. LocalOK /\ ExecOK
  BY EmptySeq DEF LocalOK, ExecOK, BPC
<1>5. CountOK /\ FuseOK
  BY EmptySeq, MasterRank DEF CountOK, FuseOK
<1>6. MpiOK
  BY EmptySeq, Sources0Assumption DEF MpiOK
<1>7. CallInv /\ RunningInv
  BY DEF CallInv, RunningInv
<1>8. ReadyInTable
  BY DEF ReadyInTable
<1>9. FuseInv
  BY DEF FuseInv, Extending
<1> QED
  BY <1>1, <1>2, <1>3, <1>4, <1>5, <1>6, <1>7, <1>8, <1>9 DEF IndInv, TypeOK

-----------------------------------------------------------------------------
(* The user thread *)

\* A call that returns, and one that goes on.
LEMMA ReturnType ==
    ASSUME NEW r \in Rank, UserOK, CallInv, program[r] # <<>>, Return(r),
           UNCHANGED <<status, issued>>
    PROVE  UserOK' /\ CallInv'
BY DEF UserOK, CallInv, Return, MPC

LEMMA GotoType ==
    ASSUME NEW r \in Rank, UserOK, CallInv, program[r] # <<>>,
           NEW pc \in MPC \ {"add"}, Goto(r, pc),
           pc = "building" => Head(program[r]).call = "set_topology",
           UNCHANGED <<status, issued>>
    PROVE  UserOK' /\ CallInv'
BY DEF UserOK, CallInv, Goto, MPC

\* The fields of a call, by its name.
LEMMA CallFields ==
    ASSUME NEW c \in Call
    PROVE  /\ c.call = "enqueue" => c.op \in Op
           /\ c.call = "set_topology" => c.sources \in SUBSET Rank
           /\ c.call = "skip" => c.value \in BOOLEAN
BY DEF Call

LEMMA HeadCall ==
    ASSUME NEW r \in Rank, UserOK, program[r] # <<>>
    PROVE  Head(program[r]) \in Call
BY DEF UserOK

LEMMA TypeUser ==
    ASSUME NEW r \in Rank, IndInv, UserStep(r)
    PROVE  IndInv'
<1> USE DEF IndInv, TypeOK
<1>a. UNCHANGED backgroundVars
  BY DEF UserStep, EnqueueFail, EnqueueBegin, AddToTensorQueue, Synchronize,
         SetTopologyRefused, SetTopologyBegin, RequestPause, SetTopologyUnfinished,
         SetTopologyEnter, SetTopologyLeave, ClosePause, SkipNegotiateNow,
         SkipNegotiateBegin, SkipNegotiateApply, SuspendOrResume, Shutdown, Join
<1>b. LocalOK' /\ ExecOK' /\ CountOK' /\ FuseOK' /\ RunningInv' /\ ReadyInTable'
  BY <1>a, Frames, InvFrames DEF backgroundVars, execVars, countVars
<1>c. UNCHANGED tensor_table => FuseInv'
  BY <1>a, InvFrames DEF backgroundVars, fuseVars
<1>1. CASE EnqueueFail(r)
  <2>1. Head(program[r]).op \in Op /\ program[r] # <<>>
    BY <1>1, HeadCall, CallFields DEF EnqueueFail, Calls
  <2>2. UserOK' /\ CallInv'
    BY <1>1, <2>1 DEF EnqueueFail, Allocate, Return, UserOK, CallInv, MPC, Status
  <2> QED
    BY <1>1, <1>b, <1>c, <2>2, Frames DEF EnqueueFail, queueVars
<1>2. CASE EnqueueBegin(r)
  <2>1. Head(program[r]).op \in Op /\ program[r] # <<>>
        /\ Head(program[r]).call = "enqueue"
    BY <1>2, HeadCall, CallFields DEF EnqueueBegin, Calls
  <2>2. UserOK' /\ CallInv'
    <3>1. /\ status' = [status EXCEPT ![r] = Append(@, "pending")]
          /\ issued' = [issued EXCEPT ![r] = Append(@, Head(program[r]).op)]
          /\ mpc' = [mpc EXCEPT ![r] = "add"]
          /\ program' = program
      BY <1>2 DEF EnqueueBegin, Allocate, Goto
    <3>2. UserOK'
      BY <2>1, <3>1 DEF UserOK, MPC, Status
    <3>3. \A q \in Rank : status[q] # <<>> \/ q = r => status'[q] # <<>>
      <4>1. status[r] \in Seq(Status) /\ "pending" \in Status
        BY DEF UserOK, Status
      <4>2. Append(status[r], "pending") # <<>>
        BY <4>1, AppendProperties
      <4> QED
        BY <3>1, <4>2 DEF UserOK
    <3>4. CallInv'
      BY <2>1, <3>1, <3>3 DEF UserOK, CallInv, MPC
    <3> QED
      BY <3>2, <3>4
  <2> QED
    BY <1>2, <1>b, <1>c, <2>2, Frames DEF EnqueueBegin, queueVars
<1>4. CASE Synchronize(r)
  BY <1>4, <1>b, <1>c, ReturnType, Frames DEF Synchronize, Calls, queueVars
<1>5. CASE SetTopologyRefused(r)
  BY <1>5, <1>b, <1>c, ReturnType, Frames DEF SetTopologyRefused, Calls, queueVars
<1>6. CASE SetTopologyBegin(r) \/ SkipNegotiateBegin(r)
  <2>1. UserOK' /\ CallInv'
    BY <1>6, GotoType DEF SetTopologyBegin, SkipNegotiateBegin, RequestPause, Calls, MPC
  <2>2. TopoOK'
    BY <1>6 DEF SetTopologyBegin, SkipNegotiateBegin, RequestPause, TopoOK
  <2> QED
    BY <1>6, <1>b, <1>c, <2>1, <2>2, Frames
       DEF SetTopologyBegin, SkipNegotiateBegin, RequestPause, queueVars
<1>7. CASE SetTopologyUnfinished(r)
  BY <1>7, <1>b, <1>c, ReturnType, Frames
     DEF SetTopologyUnfinished, Paused, At, CallInv, queueVars
<1>8. CASE SetTopologyEnter(r)
  <2>1. UserOK' /\ CallInv'
    BY <1>8, GotoType DEF SetTopologyEnter, Paused, At, CallInv, MPC
  <2> QED
    BY <1>8, <1>b, <1>c, <2>1, Frames DEF SetTopologyEnter, queueVars
<1>9. CASE SetTopologyLeave(r)
  <2>1. program[r] # <<>> /\ Head(program[r]).sources \in SUBSET Rank
    BY <1>9, HeadCall, CallFields DEF SetTopologyLeave, At, CallInv
  <2>2. UserOK' /\ CallInv'
    BY <1>9, <2>1, GotoType DEF SetTopologyLeave, EndPause, MPC
  <2>3. TopoOK'
    BY <1>9 DEF SetTopologyLeave, EndPause, TopoOK
  <2>4. MpiOK'
    BY <1>9, <2>1 DEF SetTopologyLeave, MpiOK
  <2> QED
    BY <1>9, <1>b, <1>c, <2>2, <2>3, <2>4, Frames DEF SetTopologyLeave, queueVars
<1>10. CASE ClosePause(r)
  <2>1. UserOK' /\ CallInv'
    BY <1>10, ReturnType DEF ClosePause, At, CallInv
  <2>2. TopoOK'
    BY <1>10 DEF ClosePause, TopoOK
  <2> QED
    BY <1>10, <1>b, <1>c, <2>1, <2>2, Frames DEF ClosePause, queueVars
<1>11. CASE SkipNegotiateNow(r)
  <2>1. Head(program[r]).value \in BOOLEAN
    BY <1>11, HeadCall, CallFields DEF SkipNegotiateNow, Calls
  <2>2. UserOK' /\ CallInv'
    BY <1>11, ReturnType DEF SkipNegotiateNow, Calls
  <2>3. FlagOK'
    BY <1>11, <2>1 DEF SkipNegotiateNow, FlagOK
  <2> QED
    BY <1>11, <1>b, <1>c, <2>2, <2>3, Frames DEF SkipNegotiateNow, queueVars
<1>13. CASE SkipNegotiateApply(r)
  <2>1. UserOK' /\ CallInv'
    BY <1>13, GotoType DEF SkipNegotiateApply, Paused, EndPause, At, CallInv, MPC
  <2>2. FlagOK' /\ TopoOK'
    BY <1>13 DEF SkipNegotiateApply, EndPause, FlagOK, TopoOK
  <2> QED
    BY <1>13, <1>b, <1>c, <2>1, <2>2, Frames DEF SkipNegotiateApply, queueVars
<1>14. CASE SuspendOrResume(r)
  <2>1. UserOK' /\ CallInv'
    BY <1>14, ReturnType DEF SuspendOrResume, Calls
  <2>2. FlagOK'
    BY <1>14 DEF SuspendOrResume, FlagOK
  <2> QED
    BY <1>14, <1>b, <1>c, <2>1, <2>2, Frames DEF SuspendOrResume, queueVars
<1>15. CASE Shutdown(r)
  <2>1. UserOK' /\ CallInv'
    BY <1>15, GotoType DEF Shutdown, Calls, MPC
  <2>2. FlagOK'
    BY <1>15 DEF Shutdown, FlagOK
  <2> QED
    BY <1>15, <1>b, <1>c, <2>1, <2>2, Frames DEF Shutdown, queueVars
<1>16. CASE Join(r)
  BY <1>16, <1>b, <1>c, ReturnType, Frames DEF Join, At, CallInv, queueVars
<1>3. CASE AddToTensorQueue(r)
  <2> DEFINE op == Head(program[r]).op
             e  == [key |-> Key(op), op |-> op, handle |-> Len(status[r])]
  <2>1. program[r] # <<>> /\ op \in Op /\ status[r] # <<>>
    BY <1>3, HeadCall, CallFields DEF AddToTensorQueue, At, CallInv
  <2>2. Len(status[r]) \in Nat \ {0} /\ Len(status[r]) \in DOMAIN status[r]
    BY <2>1, LenProperties, EmptySeq DEF UserOK
  <2>3. e \in Entry /\ RequestOf(r, op) \in Request
    BY <2>1, <2>2, RequestOfType DEF Entry
  <2>4. CASE IsDuplicate(r, op)
    <3>1. UNCHANGED queueVars /\ Return(r) /\ UNCHANGED issued
          /\ status' = [status EXCEPT ![r][Len(status[r])] = "rejected"]
      BY <1>3, <2>4 DEF AddToTensorQueue
    <3>2. [status[r] EXCEPT ![Len(status[r])] = "rejected"] \in Seq(Status)
          /\ Len([status[r] EXCEPT ![Len(status[r])] = "rejected"]) = Len(status[r])
      BY <2>2, ExceptSeq DEF UserOK, Status
    <3>3. UserOK' /\ CallInv'
      BY <2>1, <3>1, <3>2, EmptySeq DEF Return, UserOK, CallInv, MPC
    <3> QED
      BY <1>3, <1>b, <1>c, <3>1, <3>3, Frames DEF AddToTensorQueue, queueVars
  <2>5. CASE ~IsDuplicate(r, op)
    <3>1. UNCHANGED <<status, issued>> /\ Return(r)
          /\ tensor_table' = [tensor_table EXCEPT ![r] = Emplace(@, e)]
          /\ message_queue' = [message_queue EXCEPT ![r] = Append(@, RequestOf(r, op))]
      BY <1>3, <2>5 DEF AddToTensorQueue
    <3>2. UserOK' /\ CallInv'
      BY <2>1, <3>1, ReturnType
    <3>3. /\ DOMAIN Emplace(tensor_table[r], e) = DOMAIN tensor_table[r] \cup {e.key}
          /\ \A k \in DOMAIN Emplace(tensor_table[r], e) :
                Emplace(tensor_table[r], e)[k] \in Entry
      <4> HIDE DEF e
      <4>1. \A k \in DOMAIN tensor_table[r] : tensor_table[r][k] \in Entry
        BY DEF QueueOK
      <4>2. CASE e.key \in DOMAIN tensor_table[r]
        BY <4>1, <4>2 DEF Emplace
      <4>3. CASE e.key \notin DOMAIN tensor_table[r]
        <5>1. Emplace(tensor_table[r], e) = Put(tensor_table[r], e.key, e)
          BY <4>3 DEF Emplace
        <5>2. /\ DOMAIN Put(tensor_table[r], e.key, e) = DOMAIN tensor_table[r] \cup {e.key}
              /\ Put(tensor_table[r], e.key, e)[e.key] = e
              /\ \A x \in DOMAIN tensor_table[r] \ {e.key} :
                    Put(tensor_table[r], e.key, e)[x] = tensor_table[r][x]
          BY DEF Put
        <5> QED
          BY <2>3, <4>1, <5>1, <5>2
      <4> QED
        BY <4>2, <4>3
    <3>4. QueueOK'
      <4>1. e.key \in KeySet
        BY <2>3 DEF Entry
      <4> HIDE DEF e
      <4> QED
        BY <2>3, <3>1, <3>3, <4>1 DEF QueueOK
    <3>5. FuseInv'
      <4> HIDE DEF e
      <4> QED
        BY <1>a, <3>1, <3>3, MasterRank
           DEF backgroundVars, fuseVars, FuseInv, Extending, Last, QueueOK
    <3> QED
      BY <1>3, <1>b, <3>2, <3>4, <3>5, Frames DEF AddToTensorQueue
  <2> QED
    BY <2>4, <2>5
<1> QED
  BY <1>1, <1>2, <1>3, <1>4, <1>5, <1>6, <1>7, <1>8, <1>9, <1>10, <1>11,
     <1>13, <1>14, <1>15, <1>16 DEF UserStep

-----------------------------------------------------------------------------
(* The background thread *)

\* A step of a background thread outside the fusion loop.
LEMMA FuseOther ==
    ASSUME NEW r \in Rank, FuseInv, bpc[r] \notin {"fuse", "aborted"},
           response_list' = response_list,
           \A q \in Rank \ {r} : bpc'[q] = bpc[q] /\ tensor_table'[q] = tensor_table[q]
    PROVE  FuseInv'
<1>1. CASE r = Master
  BY <1>1 DEF FuseInv, Extending, Last
<1>2. CASE r # Master
  BY <1>2, MasterRank DEF FuseInv, Extending, Last
<1> QED
  BY <1>1, <1>2

LEMMA EntryOp ==
    ASSUME NEW e \in Entry
    PROVE  e.op \in Op /\ e.handle \in Nat \ {0}
BY DEF Entry

\* PerformOperation and PerformOperationWithFusion.
LEMMA PerformType ==
    ASSUME NEW r \in Rank, UserOK, CallInv, LocalOK, ExecOK, MpiOK, RunningInv,
           bpc[r] \in {"direct", "respond"},
           NEW batch \in Seq(Entry), batch # <<>>,
           NEW pc \in {"directing", "responding"}, Perform(r, batch, pc),
           UNCHANGED <<program, mpc, issued, localVars, gather, bcast, win, sources, epoch>>
    PROVE  /\ UserOK' /\ CallInv' /\ LocalOK' /\ MpiOK' /\ RunningInv'
           /\ running' \in [Rank -> Seq(Entry)]
           /\ \A q \in Rank \ {r} : bpc'[q] = bpc[q]
<1>1. CASE BGoto(r, "aborted") /\ UNCHANGED <<status, running, hist>>
  BY <1>1 DEF UserOK, CallInv, LocalOK, ExecOK, MpiOK, RunningInv, BGoto, BPC, localVars
<1>2. ASSUME NEW st \in Status, Callback(r, batch, st), UNCHANGED <<bpc, running, hist>>
      PROVE  /\ UserOK' /\ CallInv' /\ LocalOK' /\ MpiOK' /\ RunningInv'
             /\ running' \in [Rank -> Seq(Entry)]
             /\ \A q \in Rank \ {r} : bpc'[q] = bpc[q]
  <2>1. /\ status' \in [Rank -> Seq(Status)]
        /\ \A q \in Rank : status[q] # <<>> => status'[q] # <<>>
    BY <1>2, CallbackStatus DEF UserOK
  <2>2. UserOK' /\ CallInv'
    BY <2>1 DEF UserOK, CallInv
  <2> QED
    BY <1>2, <2>2 DEF LocalOK, ExecOK, MpiOK, RunningInv, localVars
<1>3. CASE /\ running' = [running EXCEPT ![r] = batch]
           /\ hist' = [hist EXCEPT ![r] = Append(@,
                 [ops |-> [i \in DOMAIN batch |-> batch[i].op], epoch |-> epoch[r]])]
           /\ BGoto(r, pc)
           /\ UNCHANGED status
  <2> DEFINE ops == [i \in DOMAIN batch |-> batch[i].op]
  <2>1. ops \in Seq(Op)
    <3>1. \A i \in DOMAIN batch : ops[i] \in Op
      BY ElementOfSeq, LenProperties, EntryOp
    <3>2. ops = [i \in DOMAIN batch |-> ops[i]]
      OBVIOUS
    <3> HIDE DEF ops
    <3> QED
      BY <3>1, <3>2, MapSeq
  <2>2. hist' \in [Rank -> Seq(Collective)]
    <3> HIDE DEF ops
    <3>1. [ops |-> ops, epoch |-> epoch[r]] \in Collective
      BY <2>1 DEF Collective, MpiOK
    <3>2. hist' = [hist EXCEPT ![r] = Append(@, [ops |-> ops, epoch |-> epoch[r]])]
      BY <1>3 DEF ops
    <3> QED
      BY <3>1, <3>2 DEF MpiOK
  <2>3. UserOK' /\ CallInv' /\ MpiOK'
    BY <1>3, <2>2 DEF UserOK, CallInv, MpiOK
  <2>4. LocalOK' /\ RunningInv' /\ running' \in [Rank -> Seq(Entry)]
        /\ \A q \in Rank \ {r} : bpc'[q] = bpc[q]
    BY <1>3 DEF LocalOK, ExecOK, RunningInv, BGoto, BPC, localVars
  <2> QED
    BY <2>3, <2>4
<1> QED
  BY <1>1, <1>2, <1>3 DEF Perform, Status

LEMMA EndCycleType ==
    ASSUME NEW r \in Rank, TopoOK, EndCycle(r)
    PROVE  /\ TopoOK'
           /\ \E pc \in BPC \ {"directing", "responding"} : bpc' = [bpc EXCEPT ![r] = pc]
<1>1. TopoOK'
  BY DEF TopoOK, EndCycle
<1>2. \E pc \in BPC \ {"directing", "responding"} : bpc' = [bpc EXCEPT ![r] = pc]
  <2>1. (IF should_change_topo[r] THEN "park" ELSE NextCycle(r))
           \in BPC \ {"directing", "responding"}
    BY DEF NextCycle, BPC
  <2> QED
    BY <2>1 DEF EndCycle, BGoto
<1> QED
  BY <1>1, <1>2

LEMMA TypeBackground ==
    ASSUME NEW r \in Rank, IndInv, BackgroundStep(r)
    PROVE  IndInv'
<1> USE DEF IndInv, TypeOK
<1>1. CASE ReadFlags(r)
  <2>1. LocalOK'
    BY <1>1 DEF ReadFlags, BGoto, LocalOK, FlagOK, TopoOK, BPC
  <2>2. RunningInv'
    BY <1>1 DEF ReadFlags, BGoto, LocalOK, RunningInv, execVars
  <2>3. FuseInv'
    BY <1>1, FuseOther DEF ReadFlags, BGoto, LocalOK, queueVars, masterVars, fuseVars
  <2> QED
    BY <1>1, <2>1, <2>2, <2>3, Frames, InvFrames
       DEF ReadFlags, masterVars, userVars, countVars
<1>2. CASE PopMessagesFromQueue(r)
  <2>1. QueueOK'
    BY <1>2, EmptySeq DEF PopMessagesFromQueue, QueueOK
  <2>2. LocalOK'
    BY <1>2 DEF PopMessagesFromQueue, BGoto, LocalOK, QueueOK, BPC
  <2>3. RunningInv'
    BY <1>2 DEF PopMessagesFromQueue, BGoto, LocalOK, RunningInv, execVars
  <2>4. FuseInv'
    BY <1>2, FuseOther DEF PopMessagesFromQueue, BGoto, LocalOK, masterVars, fuseVars
  <2> QED
    BY <1>2, <2>1, <2>2, <2>3, <2>4, Frames, InvFrames
       DEF PopMessagesFromQueue, masterVars, userVars, countVars
<1>4. CASE ConvertDone(r)
  <2>1. LocalOK' /\ RunningInv'
    BY <1>4 DEF ConvertDone, BGoto, LocalOK, BPC, RunningInv, localVars, execVars
  <2>2. FuseInv'
    BY <1>4, FuseOther DEF ConvertDone, BGoto, LocalOK, queueVars, masterVars, fuseVars
  <2> QED
    BY <1>4, <2>1, <2>2, Frames, InvFrames DEF ConvertDone, masterVars, userVars, countVars
<1>5. CASE RemoveNext(r)
  <2>1. Head(buffer[r]) \in Request /\ Tail(buffer[r]) \in Seq(Request)
    BY <1>5 DEF RemoveNext, LocalOK
  <2>2. ~Direct(r, Head(buffer[r])) => Head(buffer[r]) \in NegotiatedRequest
    BY <2>1 DEF Direct, NegotiatedRequest
  <2>3. LocalOK'
    BY <1>5, <2>1, <2>2 DEF RemoveNext, LocalOK
  <2> QED
    BY <1>5, <2>3, Frames, InvFrames
       DEF RemoveNext, masterVars, userVars, countVars, fuseVars, queueVars, execVars
<1>6. CASE RemoveDone(r)
  <2>1. LocalOK' /\ RunningInv'
    BY <1>6 DEF RemoveDone, BGoto, LocalOK, BPC, RunningInv, localVars, execVars
  <2>2. FuseInv'
    BY <1>6, FuseOther DEF RemoveDone, BGoto, LocalOK, queueVars, masterVars, fuseVars
  <2> QED
    BY <1>6, <2>1, <2>2, Frames, InvFrames DEF RemoveDone, masterVars, userVars, countVars
<1>3. CASE ConvertNext(r)
  <2> DEFINE req == buffer[r][index[r]]
  <2>1. req \in Request
    BY <1>3, ElementOfSeq DEF ConvertNext, LocalOK
  <2>2. CASE Direct(r, req) /\ req.key \notin DOMAIN tensor_table[r]
    <3>1. UNCHANGED <<entries, tensor_table, index>> /\ BGoto(r, "aborted")
      BY <1>3, <2>2 DEF ConvertNext
    <3>2. LocalOK' /\ RunningInv'
      BY <1>3, <3>1 DEF ConvertNext, BGoto, LocalOK, BPC, RunningInv
    <3>3. FuseInv'
      BY <1>3, <3>1, FuseOther DEF ConvertNext, BGoto, LocalOK, masterVars, fuseVars
    <3> QED
      BY <1>3, <3>1, <3>2, <3>3, Frames, InvFrames
         DEF ConvertNext, masterVars, userVars, countVars, queueVars, execVars
  <2>3. CASE ~(Direct(r, req) /\ req.key \notin DOMAIN tensor_table[r])
    <3>1. /\ index' = [index EXCEPT ![r] = @ + 1]
          /\ UNCHANGED bpc
          /\ IF Direct(r, req)
               THEN /\ entries' = [entries EXCEPT ![r] = Append(@, tensor_table[r][req.key])]
                    /\ tensor_table' = [tensor_table EXCEPT ![r] = Erase(@, req.key)]
               ELSE UNCHANGED <<entries, tensor_table>>
          /\ UNCHANGED <<message_queue, running, todo>>
      BY <1>3, <2>3 DEF ConvertNext
    <3>2. LocalOK' /\ RunningInv'
      BY <1>3, <3>1 DEF ConvertNext, LocalOK, RunningInv
    <3>3. ExecOK'
      <4> HIDE DEF req
      <4>1. Direct(r, req) => tensor_table[r][req.key] \in Entry
        BY <2>3 DEF QueueOK
      <4> QED
        <5>1. CASE Direct(r, req)
          <6> DEFINE e == tensor_table[r][req.key]
          <6>1. entries' = [entries EXCEPT ![r] = Append(@, e)] /\ e \in Entry
            BY <3>1, <4>1, <5>1
          <6> HIDE DEF e
          <6> QED
            BY <3>1, <6>1 DEF ExecOK
        <5>2. CASE ~Direct(r, req)
          BY <3>1, <5>2 DEF ExecOK
        <5> QED
          BY <5>1, <5>2
    <3>4. QueueOK'
      <4> HIDE DEF req
      <4> QED
        BY <3>1 DEF QueueOK, Erase
    <3>5. FuseInv'
      <4> HIDE DEF req
      <4> QED
        BY <1>3, <3>1, FuseOther DEF ConvertNext, QueueOK, masterVars, fuseVars
    <3> QED
      BY <1>3, <3>2, <3>3, <3>4, <3>5, Frames, InvFrames
         DEF ConvertNext, masterVars, userVars, countVars
  <2> QED
    BY <2>2, <2>3
<1>7. CASE PerformDirect(r)
  <2>1. <<Head(entries[r])>> \in Seq(Entry) /\ <<Head(entries[r])>> # <<>>
        /\ Tail(entries[r]) \in Seq(Entry)
    BY <1>7 DEF PerformDirect, ExecOK
  <2>2. /\ UserOK' /\ CallInv' /\ LocalOK' /\ MpiOK' /\ RunningInv'
        /\ running' \in [Rank -> Seq(Entry)]
        /\ \A q \in Rank \ {r} : bpc'[q] = bpc[q]
    BY <1>7, <2>1, PerformType DEF PerformDirect
  <2>3. ExecOK'
    BY <1>7, <2>1, <2>2 DEF PerformDirect, ExecOK
  <2>4. FuseInv'
    BY <1>7, <2>2, FuseOther DEF PerformDirect, queueVars, masterVars, fuseVars
  <2> QED
    BY <1>7, <2>2, <2>3, <2>4, Frames, InvFrames DEF PerformDirect, masterVars, countVars
<1>8. CASE PerformResponse(r)
  <2> DEFINE response == Head(todo[r])
             keys  == response.keys
             batch == [i \in DOMAIN keys |-> tensor_table[r][keys[i]]]
             found == \A i \in DOMAIN keys : keys[i] \in DOMAIN tensor_table[r]
  <2>1. /\ bpc[r] = "respond" /\ todo[r] # <<>>
        /\ UNCHANGED <<program, mpc, issued, flagVars, topoFlags, message_queue, localVars,
                       entries, masterVars, gather, bcast, win, sources, epoch>>
    BY <1>8 DEF PerformResponse
  <2>2. /\ response \in Response /\ Tail(todo[r]) \in Seq(Response)
        /\ keys \in Seq(KeySet) /\ keys # <<>>
    <3>1. todo[r] \in Seq(Response) /\ todo[r] # <<>>
      BY <2>1 DEF ExecOK
    <3>2. response \in Response /\ Tail(todo[r]) \in Seq(Response)
      BY <3>1, HeadTailProperties
    <3> HIDE DEF response
    <3> QED
      BY <3>2 DEF Response
  <2>3. CASE ~found
    <3>1. BGoto(r, "aborted") /\ UNCHANGED <<status, tensor_table, todo, running, hist>>
      BY <1>8, <2>3 DEF PerformResponse
    <3>2. LocalOK' /\ RunningInv'
      BY <2>1, <3>1 DEF BGoto, LocalOK, BPC, RunningInv, localVars
    <3>3. FuseInv'
      BY <2>1, <3>1, FuseOther DEF BGoto, LocalOK, masterVars, fuseVars
    <3> QED
      BY <2>1, <3>1, <3>2, <3>3, Frames, InvFrames
         DEF masterVars, userVars, countVars, queueVars, execVars, mpiVars
  <2>4. CASE found
    <3>1. /\ tensor_table' = [tensor_table EXCEPT ![r] = EraseAll(@, keys)]
          /\ todo' = [todo EXCEPT ![r] = Tail(@)]
          /\ IF response.type = "ERROR"
               THEN Callback(r, batch, "error") /\ UNCHANGED <<bpc, running, hist>>
               ELSE Perform(r, batch, "responding")
      BY <1>8, <2>4 DEF PerformResponse
    <3>2. batch \in Seq(Entry) /\ batch # <<>>
      <4>1. \A i \in DOMAIN keys : batch[i] \in Entry
        BY <2>4 DEF QueueOK
      <4>2. batch = [i \in DOMAIN keys |-> batch[i]]
        OBVIOUS
      <4> HIDE DEF batch, keys
      <4>3. batch \in Seq(Entry) /\ Len(batch) = Len(keys)
        BY <2>2, <4>1, <4>2, MapSeq
      <4> QED
        BY <2>2, <4>3, EmptySeq
    <3>3. /\ UserOK' /\ CallInv' /\ LocalOK' /\ MpiOK' /\ RunningInv'
          /\ running' \in [Rank -> Seq(Entry)]
          /\ \A q \in Rank \ {r} : bpc'[q] = bpc[q]
      <4> HIDE DEF batch, response
      <4>1. CASE response.type = "ERROR"
        <5>1. /\ status' \in [Rank -> Seq(Status)]
              /\ \A q \in Rank : status[q] # <<>> => status'[q] # <<>>
          BY <3>1, <4>1, CallbackStatus DEF UserOK, Status
        <5>2. UserOK' /\ CallInv'
          BY <2>1, <5>1 DEF UserOK, CallInv
        <5> QED
          BY <2>1, <3>1, <4>1, <5>2
             DEF LocalOK, ExecOK, MpiOK, RunningInv, localVars
      <4>2. CASE response.type # "ERROR"
        BY <2>1, <3>1, <3>2, <4>2, PerformType
      <4> QED
        BY <4>1, <4>2
    <3>4. ExecOK'
      BY <2>1, <2>2, <3>1, <3>3 DEF ExecOK
    <3>5. QueueOK'
      <4> HIDE DEF keys
      <4> QED
        BY <2>1, <3>1 DEF QueueOK, EraseAll
    <3>6. FuseInv'
      <4> HIDE DEF keys
      <4> QED
        BY <2>1, <3>1, <3>3, FuseOther DEF QueueOK, masterVars, fuseVars
    <3> QED
      BY <2>1, <3>3, <3>4, <3>5, <3>6, Frames, InvFrames DEF masterVars, countVars
  <2> QED
    BY <2>3, <2>4
<1>9. CASE Complete(r)
  <2> DEFINE op == running[r][1].op
             st == IF PatternChecked(op) /\ PatternMismatch(Len(hist[r])) THEN "error" ELSE "ok"
  <2>1. /\ bpc[r] \in {"directing", "responding"}
        /\ win' = [win EXCEPT ![r] = WindowsAfter(@, op)] \/ UNCHANGED win
        /\ Callback(r, running[r], st) \/ UNCHANGED status
        /\ running' = [running EXCEPT ![r] = <<>>]
        /\ \E pc \in {"direct", "respond", "aborted"} : BGoto(r, pc)
        /\ UNCHANGED <<program, mpc, issued, flagVars, topoFlags, queueVars, localVars,
                       entries, todo, masterVars, gather, bcast, hist, sources, epoch>>
    BY <1>9 DEF Complete
  <2>2. op \in Op
    <3>1. running[r] \in Seq(Entry) /\ running[r] # <<>>
      BY <2>1 DEF RunningInv, ExecOK
    <3>2. running[r][1] \in Entry
      BY <3>1, EmptySeq, ElementOfSeq
    <3> QED
      BY <3>2, EntryOp
  <2>3. st \in Status
    BY DEF Status
  <2> HIDE DEF op, st
  <2>4. /\ status' \in [Rank -> Seq(Status)]
        /\ \A q \in Rank : status[q] # <<>> => status'[q] # <<>>
    BY <2>1, <2>3, CallbackStatus DEF UserOK
  <2>5. UserOK' /\ CallInv'
    BY <2>1, <2>4 DEF UserOK, CallInv
  <2>6. LocalOK' /\ ExecOK' /\ RunningInv'
    BY <2>1, EmptySeq DEF LocalOK, ExecOK, RunningInv, BGoto, BPC, localVars
  <2>7. MpiOK'
    <3>1. WindowsAfter(win[r], op) \in SUBSET AnyName
      BY <2>2 DEF WindowsAfter, Op, MpiOK
    <3> QED
      BY <2>1, <3>1 DEF MpiOK
  <2>8. FuseInv'
    BY <2>1, FuseOther DEF LocalOK, BGoto, queueVars, masterVars, fuseVars
  <2> QED
    BY <2>1, <2>5, <2>6, <2>7, <2>8, Frames, InvFrames DEF masterVars, countVars
<1>10. CASE DirectDone(r)
  <2>1. /\ bpc[r] = "direct"
        /\ UNCHANGED <<userVars, flagVars, queueVars, should_shut_down,
                       should_change_topo, index, buffer, execVars, message_table,
                       ready_to_reduce, fuseVars, mpiVars>>
        /\ kept' = [kept EXCEPT ![r] = IF skip[r] \/ r = Master THEN <<>> ELSE @]
    BY <1>10 DEF DirectDone
  <2>2. /\ \E pc \in BPC \ {"directing", "responding"} : bpc' = [bpc EXCEPT ![r] = pc]
        /\ TopoOK'
        /\ UNCHANGED <<inbox, from>> \/ (inbox' = kept[r] /\ from' = Master)
    <3>1. CASE skip[r]
      <4>1. EndCycle(r) /\ UNCHANGED <<inbox, from>>
        BY <1>10, <3>1 DEF DirectDone
      <4>2. /\ TopoOK'
            /\ \E pc \in BPC \ {"directing", "responding"} : bpc' = [bpc EXCEPT ![r] = pc]
        BY <4>1, EndCycleType, Zenon
      <4> QED
        BY <4>1, <4>2
    <3>2. CASE ~skip[r]
      <4> DEFINE pc == IF r = Master THEN "count" ELSE "send"
      <4>1. UNCHANGED topoFlags /\ BGoto(r, pc)
        BY <1>10, <3>2 DEF DirectDone
      <4>2. UNCHANGED <<inbox, from>> \/ (inbox' = kept[r] /\ from' = Master)
        <5>1. IF r = Master THEN inbox' = kept[r] /\ from' = Master
                            ELSE UNCHANGED <<inbox, from>>
          BY <1>10, <3>2 DEF DirectDone
        <5> QED
          BY <5>1
      <4>3. pc \in BPC \ {"directing", "responding"}
        BY DEF BPC
      <4> HIDE DEF pc
      <4> QED
        BY <4>1, <4>2, <4>3, Frames DEF BGoto
    <3> QED
      BY <3>1, <3>2
  <2>3. LocalOK' /\ RunningInv'
    BY <2>1, <2>2, EmptySeq DEF LocalOK, RunningInv, execVars
  <2>4. CountOK'
    BY <2>1, <2>2, MasterRank DEF CountOK, LocalOK
  <2>5. FuseInv'
    BY <2>1, <2>2, FuseOther DEF LocalOK, queueVars, fuseVars
  <2> QED
    BY <2>1, <2>2, <2>3, <2>4, <2>5, Frames, InvFrames DEF userVars
<1>11. CASE SlaveSend(r)
  <2>1. LocalOK' /\ RunningInv'
    BY <1>11, EmptySeq DEF SlaveSend, LocalOK, RunningInv, BGoto, BPC, execVars
  <2>2. MpiOK'
    <3>1. [requests |-> kept[r], shutdown |-> ShutdownFlag(r),
           change_topo |-> should_change_topo[r]] \in RequestList
      BY DEF RequestList, ShutdownFlag, LocalOK, FlagOK
    <3> QED
      BY <1>11, <3>1 DEF SlaveSend, MpiOK
  <2>3. FuseInv'
    BY <1>11, FuseOther DEF SlaveSend, BGoto, LocalOK, queueVars, masterVars, fuseVars
  <2> QED
    BY <1>11, <2>1, <2>2, <2>3, Frames, InvFrames
       DEF SlaveSend, masterVars, userVars, countVars
<1>12. CASE SlaveRecv(r)
  <2> DEFINE list == Head(bcast[r])
  <2>1. list \in ResponseList /\ Tail(bcast[r]) \in Seq(ResponseList)
    BY <1>12, HeadTailProperties DEF SlaveRecv, MpiOK
  <2>2. /\ bpc[r] = "recv"
        /\ bcast' = [bcast EXCEPT ![r] = Tail(@)]
        /\ todo' = [todo EXCEPT ![r] = list.responses]
        /\ should_shut_down' = [should_shut_down EXCEPT ![r] = @ \/ list.shutdown]
        /\ should_change_topo' = [should_change_topo EXCEPT ![r] = @ \/ list.change_topo]
        /\ bpc' = [bpc EXCEPT ![r] = "respond"]
        /\ UNCHANGED <<userVars, flagVars, topoFlags, queueVars, index, buffer,
                       kept, entries, running, masterVars, gather, hist, win,
                       sources, epoch>>
    BY <1>12 DEF SlaveRecv, ToExecute, BGoto
  <2> HIDE DEF list
  <2>3. LocalOK' /\ RunningInv'
    BY <2>2 DEF LocalOK, RunningInv, BPC
  <2>4. ExecOK' /\ MpiOK'
    BY <2>1, <2>2 DEF ResponseList, ExecOK, MpiOK
  <2>5. FuseInv'
    BY <2>2, FuseOther DEF LocalOK, queueVars, masterVars, fuseVars
  <2> QED
    BY <2>2, <2>3, <2>4, <2>5, Frames, InvFrames DEF masterVars, userVars, countVars
<1>13. CASE RespondDone(r)
  <2>1. TopoOK' /\ \E pc \in BPC \ {"directing", "responding"} : bpc' = [bpc EXCEPT ![r] = pc]
    BY <1>13, EndCycleType DEF RespondDone
  <2>2. LocalOK' /\ RunningInv'
    BY <1>13, <2>1 DEF RespondDone, LocalOK, RunningInv, localVars, execVars
  <2>3. FuseInv'
    BY <1>13, <2>1, FuseOther DEF RespondDone, LocalOK, queueVars, masterVars, fuseVars
  <2> QED
    BY <1>13, <2>1, <2>2, <2>3, Frames, InvFrames
       DEF RespondDone, masterVars, userVars, countVars
<1>14. CASE Unpark(r)
  <2>1. TopoOK'
    BY <1>14 DEF Unpark, TopoOK
  <2>2. LocalOK' /\ RunningInv'
    BY <1>14 DEF Unpark, BGoto, BPC, LocalOK, RunningInv, localVars, execVars
  <2>3. FuseInv'
    BY <1>14, FuseOther DEF Unpark, BGoto, LocalOK, queueVars, masterVars, fuseVars
  <2> QED
    BY <1>14, <2>1, <2>2, <2>3, Frames, InvFrames DEF Unpark, masterVars, userVars, countVars
<1>15. CASE Unparked(r)
  <2>1. LocalOK' /\ RunningInv'
    BY <1>15 DEF Unparked, NextCycle, BGoto, BPC, LocalOK, RunningInv, localVars, execVars
  <2>2. FuseInv'
    BY <1>15, FuseOther DEF Unparked, BGoto, LocalOK, queueVars, masterVars, fuseVars
  <2> QED
    BY <1>15, <2>1, <2>2, Frames, InvFrames DEF Unparked, masterVars, userVars, countVars
<1>16. CASE Exit(r)
  <2>1. FlagOK'
    BY <1>16 DEF Exit, FlagOK
  <2>2. LocalOK' /\ RunningInv'
    BY <1>16 DEF Exit, BGoto, BPC, LocalOK, RunningInv, localVars, execVars
  <2>3. FuseInv'
    BY <1>16, FuseOther DEF Exit, BGoto, LocalOK, queueVars, masterVars, fuseVars
  <2> QED
    BY <1>16, <2>1, <2>2, <2>3, Frames, InvFrames DEF Exit, masterVars, userVars, countVars
<1>17. CASE FinalizeTensorQueue(r)
  <2> DEFINE H == {h \in DOMAIN status[r] :
                     \E k \in DOMAIN tensor_table[r] : tensor_table[r][k].handle = h}
             f == [h \in DOMAIN status[r] |-> IF h \in H THEN "shutdown" ELSE status[r][h]]
  <2>1. f \in Seq(Status) /\ Len(f) = Len(status[r])
    <3>1. status[r] \in Seq(Status) /\ "shutdown" \in Status
      BY DEF UserOK, Status
    <3> HIDE DEF H
    <3> QED
      BY <3>1, MapStatus
  <2>2. f = [h \in DOMAIN status[r] |->
               IF \E k \in DOMAIN tensor_table[r] : tensor_table[r][k].handle = h
                 THEN "shutdown" ELSE status[r][h]]
    OBVIOUS
  <2> HIDE DEF f
  <2>3. status' = [status EXCEPT ![r] = f]
    BY <1>17, <2>2 DEF FinalizeTensorQueue
  <2>4. UserOK' /\ CallInv'
    <3>1. UNCHANGED <<program, mpc, issued>>
      BY <1>17 DEF FinalizeTensorQueue
    <3>2. /\ status' \in [Rank -> Seq(Status)]
          /\ \A q \in Rank : status[q] # <<>> => status'[q] # <<>>
      BY <2>1, <2>3, EmptySeq DEF UserOK
    <3> QED
      BY <3>1, <3>2 DEF UserOK, CallInv
  <2>5. QueueOK'
    BY <1>17, EmptySeq DEF FinalizeTensorQueue, QueueOK
  <2>6. LocalOK' /\ RunningInv'
    BY <1>17 DEF FinalizeTensorQueue, BGoto, BPC, LocalOK, RunningInv, localVars, execVars
  <2>7. MpiOK'
    BY <1>17 DEF FinalizeTensorQueue, MpiOK
  <2>8. FuseInv'
    BY <1>17, FuseOther
       DEF FinalizeTensorQueue, BGoto, LocalOK, QueueOK, masterVars, fuseVars
  <2> QED
    BY <1>17, <2>4, <2>5, <2>6, <2>7, <2>8, Frames, InvFrames
       DEF FinalizeTensorQueue, masterVars, countVars
<1> QED
  BY <1>1, <1>2, <1>3, <1>4, <1>5, <1>6, <1>7, <1>8, <1>9, <1>10, <1>11, <1>12, <1>13,
     <1>14, <1>15, <1>16, <1>17 DEF BackgroundStep

-----------------------------------------------------------------------------
(* The coordinator *)

LEMMA RequestKey ==
    ASSUME NEW req \in NegotiatedRequest
    PROVE  /\ req.key \in KeySet /\ req.type \in NegotiatedType
           /\ req.device \in Int
BY DEF NegotiatedRequest, Request

\* IncrementTensorCount adds one request to the list of its name and leaves the
\* other names alone.
LEMMA WithRequestTable ==
    ASSUME NEW t, NEW req \in NegotiatedRequest,
           \A k \in DOMAIN t : t[k] \in Seq(NegotiatedRequest)
    PROVE  /\ DOMAIN WithRequest(t, req) = DOMAIN t \cup {req.key}
           /\ \A k \in DOMAIN t \ {req.key} : WithRequest(t, req)[k] = t[k]
           /\ \A k \in DOMAIN WithRequest(t, req) :
                 WithRequest(t, req)[k] \in Seq(NegotiatedRequest)
           /\ req.key \in DOMAIN t =>
                 Len(WithRequest(t, req)[req.key]) = Len(t[req.key]) + 1
<1> DEFINE v == IF req.key \in DOMAIN t THEN Append(t[req.key], req) ELSE <<req>>
<1>1. WithRequest(t, req) = Put(t, req.key, v)
  BY DEF WithRequest
<1>2. v \in Seq(NegotiatedRequest)
      /\ (req.key \in DOMAIN t => Len(v) = Len(t[req.key]) + 1)
  BY AppendProperties
<1> HIDE DEF v
<1>3. /\ DOMAIN Put(t, req.key, v) = DOMAIN t \cup {req.key}
      /\ Put(t, req.key, v)[req.key] = v
      /\ \A x \in DOMAIN t \ {req.key} : Put(t, req.key, v)[x] = t[x]
  BY DEF Put
<1> QED
  BY <1>1, <1>2, <1>3

\* The device of every rank, and the response to the requests of one name.
LEMMA ConstructResponseType ==
    ASSUME NEW k \in KeySet, NEW reqs \in Seq(NegotiatedRequest), Len(reqs) >= Size
    PROVE  ConstructResponse(k, reqs) \in Response
<1>1. reqs[1] \in NegotiatedRequest
  BY SizeAssumption, ElementOfSeq, LenProperties
<1>2. <<k>> \in Seq(KeySet) \ {<<>>}
  OBVIOUS
<1>3. CASE RequestError(reqs)
  BY <1>2, <1>3, EmptySeq DEF ConstructResponse, Response, ResponseType
<1>4. CASE ~RequestError(reqs)
  <2> DEFINE devices == [i \in 1 .. Len(reqs) |-> DeviceOf(reqs, i - 1)]
  <2>1. \A r : DeviceOf(reqs, r) \in Int
    <3> TAKE r
    <3> DEFINE j == CHOOSE i \in DOMAIN reqs : reqs[i].rank = r
    <3>1. CASE \E i \in DOMAIN reqs : reqs[i].rank = r
      <4>1. j \in DOMAIN reqs
        BY <3>1
      <4>2. DeviceOf(reqs, r) = reqs[j].device
        BY <3>1 DEF DeviceOf
      <4> HIDE DEF j
      <4>3. reqs[j] \in NegotiatedRequest
        BY <4>1, ElementOfSeq, LenProperties
      <4> QED
        BY <4>2, <4>3, RequestKey
    <3>2. CASE ~\E i \in DOMAIN reqs : reqs[i].rank = r
      BY <3>2 DEF DeviceOf
    <3> QED
      BY <3>1, <3>2
  <2>2. devices \in [1 .. Len(reqs) -> Int]
    BY <2>1
  <2>3. devices \in Seq(Int)
    <3> HIDE DEF devices
    <3> QED
      BY <2>2, LenProperties, SeqDef
  <2>4. reqs[1].type \in NegotiatedType
    BY <1>1, RequestKey
  <2> HIDE DEF devices
  <2>5. ConstructResponse(k, reqs)
          = [type |-> reqs[1].type, keys |-> <<k>>, devices |-> devices]
    BY <1>4 DEF ConstructResponse, devices
  <2> QED
    BY <1>2, <2>3, <2>4, <2>5 DEF Response, ResponseType
<1> QED
  BY <1>3, <1>4

\* Bytes are counted in Nat.
LEMMA AddedBytesType ==
    ASSUME NEW op \in Op, NEW size \in Nat, MpiOK
    PROVE  AddedBytes(op, size) \in Nat
<1>1. Cardinality(sources[Master]) \in Nat
  <2>1. IsFiniteSet(Rank)
    BY SizeAssumption, FS_Interval DEF Rank
  <2>2. sources[Master] \subseteq Rank
    BY MasterRank DEF MpiOK
  <2> QED
    BY <2>1, <2>2, FS_Subset, FS_CardinalityType
<1>2. Len(op.recv) \in Nat
  BY LenProperties DEF Op
<1>3. FusionSlots(op, Cardinality(sources[Master])) \in Nat
  BY <1>1, <1>2 DEF FusionSlots
<1>4. \A a, b \in Nat : a * b \in Nat
  OBVIOUS
<1> QED
  BY <1>3, <1>4 DEF AddedBytes

LEMMA TypeCoordinator ==
    ASSUME IndInv, CoordinatorStep
    PROVE  IndInv'
<1> USE DEF IndInv, TypeOK
<1>a. UNCHANGED <<userVars, flagVars, topoFlags, queueVars, index, buffer, entries,
                  running, hist, win, sources, epoch>>
  BY DEF CoordinatorStep, CountRequest, NextList, CountDone, ConstructNext,
         ConstructDone, FuseNext, Broadcast, coordUnchanged
<1>b. UserOK' /\ FlagOK' /\ TopoOK' /\ QueueOK' /\ CallInv'
  BY <1>a, Frames, InvFrames DEF userVars
<1>1. CASE CountRequest
  <2> DEFINE req == Head(inbox)
             t   == WithRequest(message_table, req)
  <2>1. /\ inbox # <<>> /\ inbox' = Tail(inbox) /\ message_table' = t
        /\ ready_to_reduce' = IF IsReady(t[req.key]) THEN Append(ready_to_reduce, req.key)
                                                     ELSE ready_to_reduce
        /\ UNCHANGED <<bpc, should_shut_down, should_change_topo, kept, todo, from,
                       fuseVars, gather, bcast>>
    BY <1>1 DEF CountRequest
  <2>2. req \in NegotiatedRequest /\ Tail(inbox) \in Seq(NegotiatedRequest)
    BY <2>1, HeadTailProperties DEF CountOK
  <2>3. /\ DOMAIN t = DOMAIN message_table \cup {req.key}
        /\ \A k \in DOMAIN message_table \ {req.key} : t[k] = message_table[k]
        /\ \A k \in DOMAIN t : t[k] \in Seq(NegotiatedRequest)
        /\ req.key \in DOMAIN message_table =>
              Len(t[req.key]) = Len(message_table[req.key]) + 1
    BY <2>2, WithRequestTable DEF CountOK
  <2>4. req.key \in KeySet
    BY <2>2, RequestKey
  <2> HIDE DEF req, t
  <2>5. CountOK'
    BY <2>1, <2>2, <2>3, <2>4 DEF CountOK
  <2>6. ReadyInTable'
    <3>1. \A k \in DOMAIN message_table : Len(message_table[k]) \in Nat
      BY LenProperties DEF CountOK
    <3>2. \A i \in DOMAIN ready_to_reduce :
             /\ ready_to_reduce[i] \in DOMAIN t
             /\ Len(t[ready_to_reduce[i]]) >= Size
             /\ ready_to_reduce[i] = req.key => Len(t[req.key]) > Size
      BY <2>3, <3>1, SizeAssumption DEF ReadyInTable
    <3>3. CASE IsReady(t[req.key])
      <4> DEFINE n == Len(ready_to_reduce)
      <4>1. /\ DOMAIN ready_to_reduce = 1 .. n /\ n \in Nat
            /\ DOMAIN ready_to_reduce' = 1 .. (n + 1)
            /\ \A i \in 1 .. n : ready_to_reduce'[i] = ready_to_reduce[i]
            /\ ready_to_reduce'[n + 1] = req.key
        BY <2>1, <2>4, <3>3, AppendProperties, LenProperties DEF CountOK
      <4>2. Len(t[req.key]) = Size /\ req.key \in DOMAIN t
        BY <2>3, <3>3 DEF IsReady
      <4>3. \A i \in 1 .. n : ready_to_reduce[i] # req.key
        BY <3>2, <4>1, <4>2, SizeAssumption
      <4> HIDE DEF n
      <4> QED
        BY <2>1, <3>2, <4>1, <4>2, <4>3, SizeAssumption DEF ReadyInTable
    <3>4. CASE ~IsReady(t[req.key])
      BY <2>1, <3>2, <3>4 DEF ReadyInTable
    <3> QED
      BY <3>3, <3>4
  <2>7. LocalOK' /\ ExecOK' /\ FuseOK' /\ MpiOK' /\ RunningInv' /\ FuseInv'
    BY <1>a, <2>1, Frames, InvFrames
       DEF localVars, execVars, mpiVars, fuseVars, queueVars
  <2> QED
    BY <1>b, <2>5, <2>6, <2>7
<1>2. CASE NextList
  <2> DEFINE list == Head(gather[from + 1])
  <2>1. /\ from + 1 \in Rank /\ gather[from + 1] # <<>>
    BY <1>2, SizeAssumption DEF NextList, Workers, CountOK, Rank
  <2>2. list \in RequestList /\ Tail(gather[from + 1]) \in Seq(RequestList)
    BY <2>1, HeadTailProperties DEF MpiOK
  <2>3. /\ inbox' = list.requests /\ from' = from + 1
        /\ gather' = [gather EXCEPT ![from + 1] = Tail(@)]
        /\ should_shut_down' = [should_shut_down EXCEPT ![Master] = @ \/ list.shutdown]
        /\ should_change_topo' =
              [should_change_topo EXCEPT ![Master] = @ \/ list.change_topo]
        /\ UNCHANGED <<bpc, kept, todo, message_table, ready_to_reduce, fuseVars, bcast>>
    BY <1>2 DEF NextList
  <2> HIDE DEF list
  <2>4. CountOK'
    BY <2>1, <2>2, <2>3 DEF CountOK, RequestList
  <2>5. MpiOK'
    BY <1>a, <2>1, <2>2, <2>3 DEF MpiOK
  <2>6. LocalOK'
    BY <1>a, <2>3, MasterRank DEF LocalOK
  <2>7. ExecOK' /\ FuseOK' /\ RunningInv' /\ ReadyInTable' /\ FuseInv'
    BY <1>a, <2>3, Frames, InvFrames DEF execVars, fuseVars, queueVars
  <2> QED
    BY <1>b, <2>4, <2>5, <2>6, <2>7
<1>3. CASE CountDone \/ ConstructDone
  <2>1. /\ \E pc \in {"construct", "fuse"} : bpc' = [bpc EXCEPT ![Master] = pc]
        /\ bpc[Master] \in {"count", "construct"}
        /\ UNCHANGED <<should_shut_down, should_change_topo, kept, todo, countVars,
                       fuseVars, gather, bcast>>
    BY <1>3 DEF CountDone, ConstructDone, MasterGoto
  <2>2. LocalOK' /\ RunningInv'
    BY <1>a, <2>1, MasterRank DEF LocalOK, RunningInv, BPC
  <2>3. FuseInv'
    BY <1>a, <2>1, MasterRank, FuseOther DEF LocalOK, queueVars, fuseVars
  <2>4. ExecOK' /\ CountOK' /\ FuseOK' /\ MpiOK' /\ ReadyInTable'
    BY <1>a, <2>1, Frames, InvFrames DEF execVars, mpiVars, countVars
  <2> QED
    BY <1>b, <2>2, <2>3, <2>4
<1>4. CASE ConstructNext
  <2> DEFINE k == Head(ready_to_reduce)
             n == Len(ready_to_reduce)
  <2>1. /\ ready_to_reduce # <<>>
        /\ responses' = Append(responses, ConstructResponse(k, message_table[k]))
        /\ message_table' = Erase(message_table, k)
        /\ ready_to_reduce' = Tail(ready_to_reduce)
        /\ UNCHANGED <<bpc, should_shut_down, should_change_topo, kept, todo, from, inbox,
                       response_list, fused_size, gather, bcast>>
    BY <1>4 DEF ConstructNext
  <2>2. /\ k = ready_to_reduce[1] /\ k \in KeySet
        /\ Tail(ready_to_reduce) \in Seq(KeySet)
        /\ n \in Nat \ {0} /\ DOMAIN ready_to_reduce = 1 .. n
        /\ DOMAIN Tail(ready_to_reduce) = 1 .. (n - 1)
        /\ \A i \in 1 .. (n - 1) : Tail(ready_to_reduce)[i] = ready_to_reduce[i + 1]
    BY <2>1, HeadTailProperties, LenProperties, EmptySeq, ElementOfSeq DEF CountOK
  <2>3. /\ k \in DOMAIN message_table /\ Len(message_table[k]) >= Size
        /\ message_table[k] \in Seq(NegotiatedRequest)
    BY <2>2 DEF ReadyInTable, CountOK
  <2>4. ConstructResponse(k, message_table[k]) \in Response
    BY <2>2, <2>3, ConstructResponseType
  <2> HIDE DEF k, n
  <2>5. FuseOK'
    BY <2>1, <2>4 DEF FuseOK
  <2>6. CountOK'
    BY <2>1, <2>2 DEF CountOK, Erase
  <2>7. ReadyInTable'
    <3>1. \A i \in 1 .. (n - 1) : /\ ready_to_reduce'[i] = ready_to_reduce[i + 1]
                                  /\ i + 1 \in 1 .. n /\ i + 1 # 1
      BY <2>1, <2>2
    <3>2. /\ DOMAIN ready_to_reduce' = 1 .. (n - 1)
          /\ DOMAIN message_table' = DOMAIN message_table \ {k}
          /\ \A x \in DOMAIN message_table \ {k} : message_table'[x] = message_table[x]
      BY <2>1, <2>2 DEF Erase
    <3>3. ASSUME NEW i \in 1 .. (n - 1)
          PROVE  /\ ready_to_reduce'[i] \in DOMAIN message_table'
                 /\ Len(message_table'[ready_to_reduce'[i]]) >= Size
      <4>1. ready_to_reduce[i + 1] # ready_to_reduce[1]
        BY <2>2, <3>1 DEF ReadyInTable
      <4> QED
        BY <2>2, <3>1, <3>2, <4>1 DEF ReadyInTable
    <3>4. ASSUME NEW i \in 1 .. (n - 1), NEW j \in 1 .. (n - 1), i # j
          PROVE  ready_to_reduce'[i] # ready_to_reduce'[j]
      BY <2>2, <3>1, <3>4 DEF ReadyInTable
    <3> QED
      BY <3>2, <3>3, <3>4 DEF ReadyInTable
  <2>8. LocalOK' /\ ExecOK' /\ MpiOK' /\ RunningInv' /\ FuseInv'
    BY <1>a, <2>1, Frames, InvFrames DEF localVars, execVars, mpiVars, queueVars
  <2> QED
    BY <1>b, <2>5, <2>6, <2>7, <2>8
<1>5. CASE FuseNext
  <2> DEFINE new == Head(responses)
             key == new.keys[1]
             op  == MasterOp(key)
             n   == Len(response_list)
  <2>1. /\ bpc[Master] = "fuse" /\ responses # <<>>
        /\ UNCHANGED <<should_shut_down, should_change_topo, kept, todo, countVars,
                       gather, bcast>>
    BY <1>5 DEF FuseNext
  <2>2. ExecOK' /\ CountOK' /\ MpiOK' /\ ReadyInTable'
    BY <1>a, <2>1, Frames, InvFrames DEF execVars, mpiVars, countVars
  <2>3. new \in Response /\ Tail(responses) \in Seq(Response)
    BY <2>1, HeadTailProperties DEF FuseOK
  <2>4. new.keys \in Seq(KeySet) /\ key \in KeySet
    <3>1. new.keys \in Seq(KeySet) /\ new.keys # <<>>
      BY <2>3 DEF Response
    <3> QED
      BY <3>1, EmptySeq, ElementOfSeq
  <2>5. \A k \in DOMAIN tensor_table[Master] :
           MasterOp(k) \in Op /\ MasterOp(k).size \in Nat
    <3>1. \A k \in DOMAIN tensor_table[Master] : MasterOp(k) \in Op
      BY MasterRank, EntryOp DEF QueueOK, MasterOp
    <3> QED
      BY <3>1 DEF Op
  <2>6. CASE FusionFault(new) /\ MasterGoto("aborted") /\ UNCHANGED fuseVars
    <3>1. LocalOK' /\ RunningInv'
      BY <1>a, <2>1, <2>6, MasterRank DEF LocalOK, RunningInv, MasterGoto, BPC
    <3>2. FuseInv'
      BY <1>a, <2>1, <2>6, MasterRank
         DEF FuseInv, Extending, Last, LocalOK, MasterGoto, queueVars, fuseVars
    <3> QED
      BY <1>b, <2>2, <2>6, <3>1, <3>2, Frames
  <2>7. CASE /\ ~FusionFault(new) /\ Fuses(new)
             /\ response_list' = [response_list EXCEPT ![n] = WithKey(Last, key)]
             /\ fused_size' = fused_size + AddedBytes(GroupOp, op.size)
             /\ responses' = Tail(responses)
             /\ UNCHANGED bpc
    <3>1. /\ n \in Nat \ {0} /\ DOMAIN response_list = 1 .. n
          /\ Last = response_list[n] /\ Last \in Response /\ Extending
      <4>1. response_list \in Seq(Response) /\ response_list # <<>> /\ Extending
        BY <2>7 DEF Fuses, Extending, FuseOK
      <4>2. n \in Nat \ {0} /\ DOMAIN response_list = 1 .. n
        BY <4>1, EmptySeq, LenProperties
      <4>3. response_list[n] \in Response
        BY <4>1, <4>2, ElementOfSeq
      <4> QED
        BY <4>1, <4>2, <4>3 DEF Last
    <3>2. key \in DOMAIN tensor_table[Master]
      BY <2>7, <3>1 DEF FusionFault
    <3>3. GroupOp \in Op
      BY <2>5, <3>1 DEF GroupOp, FuseInv
    <3>4. AddedBytes(GroupOp, op.size) \in Nat
      BY <2>5, <3>2, <3>3, AddedBytesType
    <3>5. /\ Last.keys \in Seq(KeySet) /\ Last.keys # <<>>
          /\ Last.type \in ResponseType /\ Last.devices \in Seq(Int)
      BY <3>1 DEF Response
    <3>6. /\ Append(Last.keys, key) \in Seq(KeySet) /\ Append(Last.keys, key) # <<>>
          /\ Append(Last.keys, key)[1] = Last.keys[1]
      BY <2>4, <3>5, AppendProperties, EmptySeq
    <3>7. WithKey(Last, key) \in Response /\ WithKey(Last, key).keys[1] = Last.keys[1]
      BY <3>5, <3>6 DEF WithKey, Response
    <3> HIDE DEF new, key, n
    <3>8. response_list' \in Seq(Response) /\ Len(response_list') = n
          /\ response_list'[n] = WithKey(Last, key)
      BY <2>7, <3>1, <3>7, ExceptSeq DEF FuseOK, n
    <3>9. FuseOK'
      BY <2>3, <2>7, <3>4, <3>8 DEF FuseOK
    <3>10. FuseInv'
      <4>1. Last' = WithKey(Last, key)
        BY <3>8 DEF Last
      <4>2. Last'.keys[1] \in DOMAIN tensor_table[Master]
        BY <3>1, <3>7, <4>1 DEF FuseInv
      <4> QED
        BY <1>a, <2>1, <2>7, <4>2 DEF FuseInv, queueVars
    <3> QED
      BY <1>a, <1>b, <2>1, <2>2, <2>7, <3>9, <3>10, Frames, InvFrames DEF localVars
  <2>8. CASE /\ ~FusionFault(new) /\ ~Fuses(new)
             /\ response_list' = Append(response_list, new)
             /\ fused_size' = IF new.type \in FusibleType THEN AddedBytes(op, op.size) ELSE 0
             /\ responses' = Tail(responses)
             /\ UNCHANGED bpc
    <3>1. new.type \in FusibleType => key \in DOMAIN tensor_table[Master]
      BY <2>8 DEF FusionFault
    <3>2. fused_size' \in Nat
      <4>1. CASE new.type \in FusibleType
        <5>1. AddedBytes(op, op.size) \in Nat
          BY <2>5, <3>1, <4>1, AddedBytesType
        <5> QED
          BY <2>8, <4>1, <5>1
      <4>2. CASE new.type \notin FusibleType
        BY <2>8, <4>2
      <4> QED
        BY <4>1, <4>2
    <3> HIDE DEF new, op
    <3>3. FuseOK'
      BY <2>3, <2>8, <3>2 DEF FuseOK
    <3>4. Last' = new
      <4>1. /\ Len(response_list') = Len(response_list) + 1
            /\ response_list'[Len(response_list) + 1] = new
        BY <2>3, <2>8, AppendProperties DEF FuseOK
      <4> QED
        BY <4>1 DEF Last
    <3>5. FuseInv'
      BY <1>a, <2>1, <2>8, <3>1, <3>4 DEF FuseInv, Extending, queueVars
    <3> QED
      BY <1>a, <1>b, <2>1, <2>2, <2>8, <3>3, <3>5, Frames, InvFrames DEF localVars
  <2> QED
    BY <1>5, <2>6, <2>7, <2>8 DEF FuseNext
<1>6. CASE Broadcast
  <2> DEFINE list == [responses   |-> response_list,
                      shutdown    |-> should_shut_down[Master],
                      change_topo |-> should_change_topo[Master]]
  <2>1. /\ bpc[Master] = "fuse"
        /\ bcast' = [s \in Rank |-> IF s \in Workers THEN Append(bcast[s], list)
                                                     ELSE bcast[s]]
        /\ todo' = [todo EXCEPT ![Master] = response_list]
        /\ response_list' = <<>> /\ fused_size' = 0
        /\ bpc' = [bpc EXCEPT ![Master] = "respond"]
        /\ UNCHANGED <<should_shut_down, should_change_topo, kept, countVars, responses,
                       gather>>
    BY <1>6 DEF Broadcast, MasterGoto
  <2>2. list \in ResponseList
    BY MasterRank DEF ResponseList, FuseOK, LocalOK
  <2> HIDE DEF list
  <2>3. MpiOK'
    BY <1>a, <2>1, <2>2 DEF MpiOK
  <2>4. FuseOK' /\ FuseInv'
    BY <2>1, EmptySeq DEF FuseOK, FuseInv, Extending
  <2>5. LocalOK' /\ ExecOK' /\ RunningInv'
    BY <1>a, <2>1, MasterRank DEF LocalOK, ExecOK, RunningInv, FuseOK, BPC
  <2>6. CountOK' /\ ReadyInTable'
    BY <2>1, Frames, InvFrames DEF countVars
  <2> QED
    BY <1>b, <2>3, <2>4, <2>5, <2>6
<1> QED
  BY <1>1, <1>2, <1>3, <1>4, <1>5, <1>6 DEF CoordinatorStep

-----------------------------------------------------------------------------
LEMMA IndStep == IndInv /\ [Next]_vars => IndInv'
<1> SUFFICES ASSUME IndInv, [Next]_vars PROVE IndInv'
  OBVIOUS
<1>1. CASE UNCHANGED vars
  BY <1>1, Frames, InvFrames
     DEF IndInv, TypeOK, vars, userVars, queueVars, localVars, execVars, countVars, fuseVars
<1>2. CASE Terminating
  BY <1>1, <1>2 DEF Terminating
<1> QED
  BY <1>1, <1>2, TypeUser, TypeBackground, TypeCoordinator DEF Next

\* Type correctness: no step of any thread puts a value of the wrong type into
\* the queues, the tables, the handles or the MPI messages.
THEOREM TypeCorrect == Spec => []TypeOK
<1>1. IndInv => TypeOK
  BY DEF IndInv
<1> QED
  BY <1>1, IndInit, IndStep, PTL DEF Spec

\* The assertion of ConstructResponse never fails: whatever the ranks send and
\* in whatever order, a name is listed in ready_to_reduce once and its requests
\* are in the message table until its response has been built.
THEOREM ConstructAssertionHolds == Spec => []ReadyInTable
<1>1. IndInv => ReadyInTable
  BY DEF IndInv
<1> QED
  BY <1>1, IndInit, IndStep, PTL DEF Spec

-----------------------------------------------------------------------------
(* The pause *)

\* The types of the variables the pause uses.
PauseType ==
    /\ mpc \in [Rank -> MPC]
    /\ bpc \in [Rank -> BPC]
    /\ setting_topology_done \in [Rank -> BOOLEAN]
    /\ ready_to_setting_topology \in [Rank -> BOOLEAN]
    /\ DOMAIN skip = Rank /\ DOMAIN sources = Rank /\ DOMAIN epoch = Rank

PauseInv == PauseType /\ Handshake

LEMMA PauseInit == Init => PauseInv
BY Sources0Assumption DEF Init, PauseInv, PauseType, Handshake, MPC, BPC

LEMMA PauseUser ==
    ASSUME NEW r \in Rank, PauseInv, UserStep(r)
    PROVE  PauseInv'
<1> USE DEF PauseInv, PauseType, Handshake, MPC, BPC, backgroundVars, At, Calls, Return,
            Goto, topoFlags, localVars, flagVars,
            mpiVars
<1>1. CASE EnqueueFail(r)
  BY <1>1 DEF EnqueueFail
<1>2. CASE EnqueueBegin(r)
  BY <1>2 DEF EnqueueBegin
<1>3. CASE AddToTensorQueue(r)
  BY <1>3 DEF AddToTensorQueue
<1>4. CASE Synchronize(r)
  BY <1>4 DEF Synchronize
<1>5. CASE SetTopologyRefused(r)
  BY <1>5 DEF SetTopologyRefused
<1>6. CASE SetTopologyBegin(r)
  BY <1>6 DEF SetTopologyBegin, RequestPause
<1>7. CASE SetTopologyUnfinished(r)
  BY <1>7 DEF SetTopologyUnfinished, Paused
<1>8. CASE SetTopologyEnter(r)
  BY <1>8 DEF SetTopologyEnter, Paused
<1>9. CASE SetTopologyLeave(r)
  BY <1>9 DEF SetTopologyLeave, EndPause
<1>10. CASE ClosePause(r)
  BY <1>10 DEF ClosePause
<1>11. CASE SkipNegotiateNow(r)
  BY <1>11 DEF SkipNegotiateNow
<1>12. CASE SkipNegotiateBegin(r)
  BY <1>12 DEF SkipNegotiateBegin, RequestPause
<1>13. CASE SkipNegotiateApply(r)
  BY <1>13 DEF SkipNegotiateApply, Paused, EndPause
<1>14. CASE SuspendOrResume(r)
  BY <1>14 DEF SuspendOrResume
<1>15. CASE Shutdown(r)
  BY <1>15 DEF Shutdown
<1>16. CASE Join(r)
  BY <1>16 DEF Join
<1> QED
  BY <1>1, <1>2, <1>3, <1>4, <1>5, <1>6, <1>7, <1>8, <1>9, <1>10, <1>11, <1>12,
     <1>13, <1>14, <1>15, <1>16 DEF UserStep

\* The end of a cycle parks the thread and says so, or does neither.
LEMMA PauseEndCycle ==
    ASSUME NEW r \in Rank, PauseInv, bpc[r] # "park", EndCycle(r),
           UNCHANGED <<mpc, skip, sources, epoch>>
    PROVE  PauseInv'
BY DEF PauseInv, PauseType, Handshake, MPC, BPC, EndCycle, BGoto, NextCycle

LEMMA PauseBackground ==
    ASSUME NEW r \in Rank, PauseInv, BackgroundStep(r)
    PROVE  PauseInv'
<1> USE DEF PauseInv, PauseType, Handshake, MPC, BPC, BGoto, userVars, flagVars,
            topoFlags, mpiVars
<1>1. CASE ReadFlags(r)
  BY <1>1 DEF ReadFlags
<1>2. CASE PopMessagesFromQueue(r)
  BY <1>2 DEF PopMessagesFromQueue
<1>3. CASE ConvertNext(r)
  BY <1>3 DEF ConvertNext
<1>4. CASE ConvertDone(r)
  BY <1>4 DEF ConvertDone
<1>5. CASE RemoveNext(r)
  BY <1>5 DEF RemoveNext
<1>6. CASE RemoveDone(r)
  BY <1>6 DEF RemoveDone
<1>7. CASE PerformDirect(r)
  BY <1>7 DEF PerformDirect, Perform
<1>8. CASE PerformResponse(r)
  BY <1>8 DEF PerformResponse, Perform
<1>9. CASE Complete(r)
  BY <1>9 DEF Complete
<1>10. CASE DirectDone(r)
  <2>1. CASE skip[r]
    BY <1>10, <2>1, PauseEndCycle DEF DirectDone
  <2>2. CASE ~skip[r]
    <3>1. /\ bpc[r] = "direct"
          /\ \E pc \in {"count", "send"} : bpc' = [bpc EXCEPT ![r] = pc]
          /\ UNCHANGED <<mpc, setting_topology_done, ready_to_setting_topology,
                         skip, sources, epoch>>
      BY <1>10, <2>2 DEF DirectDone
    <3> QED
      BY <3>1
  <2> QED
    BY <2>1, <2>2
<1>11. CASE SlaveSend(r)
  BY <1>11 DEF SlaveSend
<1>12. CASE SlaveRecv(r)
  BY <1>12 DEF SlaveRecv
<1>13. CASE RespondDone(r)
  BY <1>13, PauseEndCycle DEF RespondDone
<1>14. CASE Unpark(r)
  BY <1>14 DEF Unpark
<1>15. CASE Unparked(r)
  BY <1>15 DEF Unparked, NextCycle
<1>16. CASE Exit(r)
  BY <1>16 DEF Exit
<1>17. CASE FinalizeTensorQueue(r)
  BY <1>17 DEF FinalizeTensorQueue
<1> QED
  BY <1>1, <1>2, <1>3, <1>4, <1>5, <1>6, <1>7, <1>8, <1>9, <1>10, <1>11, <1>12,
     <1>13, <1>14, <1>15, <1>16, <1>17 DEF BackgroundStep

LEMMA PauseCoordinator ==
    ASSUME PauseInv, CoordinatorStep
    PROVE  PauseInv'
<1> USE DEF PauseInv, PauseType, Handshake, MPC, BPC, MasterGoto, coordUnchanged,
            userVars, flagVars, topoFlags, mpiVars
<1>1. CASE CountRequest
  BY <1>1 DEF CountRequest
<1>2. CASE NextList
  BY <1>2 DEF NextList
<1>3. CASE CountDone
  BY <1>3 DEF CountDone
<1>4. CASE ConstructNext
  BY <1>4 DEF ConstructNext
<1>5. CASE ConstructDone
  BY <1>5 DEF ConstructDone
<1>6. CASE FuseNext
  BY <1>6 DEF FuseNext
<1>7. CASE Broadcast
  BY <1>7 DEF Broadcast
<1> QED
  BY <1>1, <1>2, <1>3, <1>4, <1>5, <1>6, <1>7 DEF CoordinatorStep

LEMMA PauseStep == PauseInv /\ [Next]_vars => PauseInv'
<1> SUFFICES ASSUME PauseInv, [Next]_vars PROVE PauseInv'
  OBVIOUS
<1>1. CASE UNCHANGED vars
  BY <1>1 DEF PauseInv, PauseType, Handshake, vars, userVars, topoFlags, flagVars, mpiVars
<1>2. CASE Terminating
  BY <1>1, <1>2 DEF Terminating
<1> QED
  BY <1>1, <1>2, PauseUser, PauseBackground, PauseCoordinator DEF Next

\* The flags of the pause always say where the two threads of a rank are: the
\* user thread is inside MPI_Dist_graph_create only while its background thread
\* waits, and neither thread can see a flag left over from an earlier pause.
THEOREM PauseCorrect == Spec => []Handshake
<1>1. PauseInv => Handshake
  BY DEF PauseInv
<1> QED
  BY <1>1, PauseInit, PauseStep, PTL DEF Spec

\* A step that changes the graph communicator or turns the negotiation off
\* finds the background thread of that rank parked: bluefog_set_topology and
\* SetSkipNegotiateStageState never pull the topology from under an operation.
THEOREM TopologyChangesWhenParked == Spec => ChangeOnlyWhenParked
<1> DEFINE Safe == \A r \in Rank :
                      (\/ epoch'[r] # epoch[r] \/ sources'[r] # sources[r]
                       \/ ~skip[r] /\ skip'[r])
                      => bpc[r] = "park"
<1>1. ASSUME PauseInv, Next PROVE Safe
  <2>1. ASSUME NEW r \in Rank, UserStep(r) PROVE Safe
    <3> USE DEF PauseInv, PauseType, Handshake, At, Calls, flagVars, mpiVars
    <3>1. CASE SetTopologyLeave(r)
      BY <3>1, <1>1 DEF SetTopologyLeave
    <3>2. CASE SkipNegotiateApply(r)
      BY <3>2, <1>1 DEF SkipNegotiateApply, Paused
    <3>3. CASE SkipNegotiateNow(r)
      BY <3>3, <1>1 DEF SkipNegotiateNow
    <3>4. CASE UNCHANGED <<skip, sources, epoch>>
      BY <3>4
    <3> QED
      BY <2>1, <3>1, <3>2, <3>3, <3>4
         DEF UserStep, EnqueueFail, EnqueueBegin, AddToTensorQueue, Synchronize,
             SetTopologyRefused, SetTopologyBegin, RequestPause, SetTopologyUnfinished,
             SetTopologyEnter, ClosePause, SkipNegotiateBegin, SuspendOrResume,
             Shutdown, Join
  <2>2. ASSUME NEW r \in Rank, BackgroundStep(r)
        PROVE  UNCHANGED <<skip, sources, epoch>>
    BY <2>2 DEF BackgroundStep, ReadFlags, PopMessagesFromQueue, ConvertNext, ConvertDone,
                RemoveNext, RemoveDone, PerformDirect, PerformResponse, Complete,
                DirectDone, SlaveSend, SlaveRecv, RespondDone, Unpark, Unparked, Exit,
                FinalizeTensorQueue, flagVars, mpiVars
  <2>3. ASSUME CoordinatorStep PROVE UNCHANGED <<skip, sources, epoch>>
    BY <2>3 DEF CoordinatorStep, CountRequest, NextList, CountDone, ConstructNext,
                ConstructDone, FuseNext, Broadcast, coordUnchanged, flagVars
  <2>4. ASSUME Terminating PROVE UNCHANGED <<skip, sources, epoch>>
    BY <2>4 DEF Terminating, vars, flagVars, mpiVars
  <2> QED
    BY <1>1, <2>1, <2>2, <2>3, <2>4 DEF Next
<1>2. PauseInv /\ [Next]_vars => [Safe]_vars
  BY <1>1
<1> QED
  BY <1>2, PauseInit, PauseStep, PTL DEF Spec, ChangeOnlyWhenParked
=============================================================================
