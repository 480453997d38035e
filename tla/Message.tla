------------------------------ MODULE Message ------------------------------
(***************************************************************************)
(* The messages of the negotiation: what a user thread submits (an Op), the *)
(* Request it is turned into, the checks the coordinator runs on the        *)
(* requests of one tensor and the Response it builds from them.             *)
(* Source: bluefog/common/message.h, common.h and the first part of         *)
(* operations.cc.  Everything here is constant level.                       *)
(***************************************************************************)
EXTENDS Integers, Sequences

CONSTANTS
    Size,       \* mpi_context.size_, the number of processes
    Name,       \* names of tensors and of windows
    DType       \* data types of tensors

ASSUME SizeAssumption == Size \in Nat \ {0}
ASSUME DTypeAssumption == "BLUEFOG_UINT8" \in DType

Rank == 0 .. Size - 1

Master == 0                     \* COORDINATE_RANK
CPU_DEVICE_ID == -1

\* EnqueueTensorWindowFree with an empty name frees every window.
AllWindows == ""
AnyName == Name \cup {AllWindows}

-----------------------------------------------------------------------------
(* Operations *)

\* The types that take part in the negotiation; the others are one-sided.
NegotiatedType == {"ALLREDUCE", "ALLGATHER", "BROADCAST", "NEIGHBOR_ALLREDUCE",
                   "NEIGHBOR_ALLGATHER", "WIN_CREATE", "WIN_FREE"}
OneSidedType   == {"WIN_PUT", "WIN_ACCUMULATE", "WIN_GET"}
WindowType     == OneSidedType \cup {"WIN_CREATE", "WIN_FREE"}
OpType         == NegotiatedType \cup OneSidedType
FusibleType    == {"ALLREDUCE", "NEIGHBOR_ALLREDUCE"}

(***************************************************************************)
(* What a call of one of the Enqueue functions carries.  size is            *)
(* tensor->size(), the bytes of the tensor; send and recv are the neighbor  *)
(* lists of a dynamic neighbor_allreduce (dyn) and check its                *)
(* enable_topo_check; root is the root of a broadcast.                      *)
(***************************************************************************)
Op == [type : OpType, name : AnyName, dtype : DType, device : Int,
       hier : BOOLEAN, shape : Seq(Nat), size : Nat, root : Rank,
       dyn : BOOLEAN, send : Seq(Rank), recv : Seq(Rank), check : BOOLEAN]

\* e.tensor != nullptr: EnqueueTensorWindowFree and EnqueueTensorWindowGet
\* leave the tensor of the entry unset.
HasTensor(op) == op.type \notin {"WIN_FREE", "WIN_GET"}

\* message.tensor_name(): window operations prefix the name of the window, so
\* that different operations may be outstanding on the same window.
Prefix == {""} \cup WindowType
KeySet == Prefix \X AnyName
Key(op) == <<IF op.type \in WindowType THEN op.type ELSE "", op.name>>

\* e.tensor_name: for a window operation, the name of the window itself.
TensorName(op) == <<"", op.name>>

-----------------------------------------------------------------------------
(* Requests *)

Request == [rank : Rank, key : KeySet, type : OpType, dtype : DType,
            device : Int, hier : BOOLEAN, shape : Seq(Nat), root : Rank]

\* What reaches the coordinator.
NegotiatedRequest == {req \in Request : req.type \in NegotiatedType}

HasShape(op) == op.type \notin {"WIN_FREE", "WIN_PUT", "WIN_ACCUMULATE", "WIN_GET"}

\* variant: an unset root is sent as -1
UnsetRoot(op) == -1

\* EnqueueTensorBroadcast stores the root in the table entry only: the root
\* rank of every request keeps its default.
RequestRoot(op) == 0

(***************************************************************************)
(* The request each Enqueue function sends.  What a function does not set   *)
(* has the default of message.h.                                            *)
(***************************************************************************)
RequestOf(r, op) ==
    [rank   |-> r,
     key    |-> Key(op),
     type   |-> op.type,
     dtype  |-> IF HasTensor(op) THEN op.dtype ELSE "BLUEFOG_UINT8",
     device |-> IF op.type = "WIN_GET" THEN 0 ELSE op.device,
     hier   |-> op.type \in FusibleType /\ op.hier,
     shape  |-> IF HasShape(op) THEN op.shape ELSE <<>>,
     root   |-> RequestRoot(op)]

-----------------------------------------------------------------------------
(* Responses *)

ResponseType == NegotiatedType \cup {"ERROR"}

\* devices is indexed by rank, and empty in an error response.
Response == [type : ResponseType, keys : Seq(KeySet) \ {<<>>}, devices : Seq(Int)]

\* Each check is true when it finds an error: a request that differs from the
\* first one.
CheckRequestAndDataType(reqs) ==
    \/ \E i \in DOMAIN reqs : reqs[i].type # reqs[1].type
    \/ /\ reqs[1].type # "WIN_FREE"
       /\ \E i \in DOMAIN reqs : reqs[i].dtype # reqs[1].dtype

CheckRequestDevice(reqs) ==
    \E i \in DOMAIN reqs :
        (reqs[i].device = CPU_DEVICE_ID) # (reqs[1].device = CPU_DEVICE_ID)

CheckRequestRootRank(reqs) ==
    \E i \in DOMAIN reqs : reqs[i].root # reqs[1].root

CheckRequestIsHierarchical(reqs) ==
    \E i \in DOMAIN reqs : reqs[i].hier # reqs[1].hier

CheckRequestTensorShape(reqs) ==
    \E i \in DOMAIN reqs : reqs[i].shape # reqs[1].shape

\* variants: the second dimension is skipped, the first is compared as well
GatherShapeFrom(reqs, first) ==
    \/ reqs[1].shape = <<>>
    \/ \E i \in DOMAIN reqs :
          \/ Len(reqs[i].shape) # Len(reqs[1].shape)
          \/ \E d \in first .. Len(reqs[1].shape) :
                reqs[i].shape[d] # reqs[1].shape[d]
GatherShapeFromThird(reqs) == GatherShapeFrom(reqs, 3)
GatherShapeFromFirst(reqs) == GatherShapeFrom(reqs, 1)

\* All but the first dimension agree, and there is a first dimension.
CheckRequestGatherTensorShape(reqs) ==
    \/ reqs[1].shape = <<>>
    \/ \E i \in DOMAIN reqs :
          \/ Len(reqs[i].shape) # Len(reqs[1].shape)
          \/ \E d \in 2 .. Len(reqs[1].shape) :
                reqs[i].shape[d] # reqs[1].shape[d]

\* The checks that apply to the type of the first request.
RequestError(reqs) ==
    LET type == reqs[1].type IN
    \/ CheckRequestAndDataType(reqs)
    \/ CheckRequestDevice(reqs)
    \/ type = "BROADCAST" /\ CheckRequestRootRank(reqs)
    \/ type \in FusibleType /\ CheckRequestIsHierarchical(reqs)
    \/ /\ type \in FusibleType \cup {"BROADCAST", "WIN_CREATE"}
       /\ CheckRequestTensorShape(reqs)
    \/ /\ type \in {"ALLGATHER", "NEIGHBOR_ALLGATHER"}
       /\ CheckRequestGatherTensorShape(reqs)

\* devices[r] of the response, which has one place per request; 0 where no
\* request is of rank r.
DeviceOf(reqs, r) ==
    IF \E i \in DOMAIN reqs : reqs[i].rank = r
      THEN reqs[CHOOSE i \in DOMAIN reqs : reqs[i].rank = r].device
      ELSE 0

ConstructResponse(key, reqs) ==
    IF RequestError(reqs)
      THEN [type |-> "ERROR", keys |-> <<key>>, devices |-> <<>>]
      ELSE [type |-> reqs[1].type, keys |-> <<key>>,
            devices |-> [i \in 1 .. Len(reqs) |-> DeviceOf(reqs, i - 1)]]

-----------------------------------------------------------------------------
(* Tensor fusion *)

(***************************************************************************)
(* Whether the coordinator may add the response new to a fused response     *)
(* whose first tensor is op, by what the operations of the coordinator's    *)
(* own entries say; bytes is what the fused response would occupy.          *)
(***************************************************************************)
CanFuse(response, op, new, newOp, bytes, threshold) ==
    /\ response.type = new.type
    /\ response.devices = new.devices
    /\ op.dtype = newOp.dtype
    /\ op.hier = newOp.hier
    /\ response.type = "NEIGHBOR_ALLREDUCE" =>
          op.dyn = newOp.dyn /\ op.send = newOp.send /\ op.recv = newOp.recv
    /\ bytes <= threshold

\* How many tensors of its size a fused tensor occupies: a neighbor_allreduce
\* stores one per in-neighbor next to its own.
FusionSlots(op, indegree) ==
    IF op.type # "NEIGHBOR_ALLREDUCE" THEN 1
    ELSE 1 + IF op.dyn THEN Len(op.recv) ELSE indegree
=============================================================================
