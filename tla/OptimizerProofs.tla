--------------------------- MODULE OptimizerProofs ---------------------------
(***************************************************************************)
(* The distributed optimizers, proved for every number of ranks and of      *)
(* parameters, every virtual topology, every num_steps_per_communication    *)
(* and every script.                                                        *)
(***************************************************************************)
EXTENDS Optimizer, FunctionTheorems, FiniteSetTheorems, TLAPS

Tensors == [Param -> SUBSET Work]

\* The types of the control state, and of the data.
ControlType ==
    /\ setup \in Setups
    /\ todo \in [Rank -> Seq(Call)]
    /\ mpc \in [Rank -> {"run", "barrier", "wait", "failed"}]
    /\ delay \in [Rank -> [Param -> Int]]
    /\ step_delay \in [Rank -> [Param -> Int]]
    /\ handles \in [Rank -> SUBSET Param]
    /\ pend \in [Rank -> SUBSET Param]
    /\ warned \in [Rank -> BOOLEAN]
    /\ barriers \in [Rank -> Nat]
    /\ steps \in [Rank -> Nat]
    /\ comms \in [Rank -> [Param -> Nat]]

DataType ==
    /\ out \in [Rank -> Tensors]
    /\ param \in [Rank -> Tensors]
    /\ grad \in [Rank -> Tensors]
    /\ reg \in [Rank -> Tensors]
    /\ made \in [Rank -> Tensors]
    /\ due \in [Rank -> Tensors]
    /\ DOMAIN buf = Rank
    /\ \A r \in Rank : buf[r] \in [Peers[r] -> Tensors]
    /\ \A r \in Rank, p \in Param : IsFiniteSet(made[r][p])

-----------------------------------------------------------------------------
(* Scripts *)

LEMMA SetupFacts ==
    ASSUME setup \in Setups
    PROVE  /\ cls \in Class
           /\ J \in Nat /\ J >= 1
           /\ setup.script \in [Rank -> Seq(Call)]
           /\ setup.func \in BOOLEAN
BY SetupTypeAssumption DEF Setup, cls, J

LEMMA CallFacts ==
    ASSUME NEW s \in Seq(Call), s # <<>>
    PROVE  /\ Head(s) \in Call
           /\ Tail(s) \in Seq(Call)
           /\ Head(s) = s[1]
           /\ Head(s).used \subseteq Param
           /\ 1 \in DOMAIN s
           /\ Len(Tail(s)) = Len(s) - 1
           /\ \A i \in DOMAIN Tail(s) : i + 1 \in DOMAIN s /\ Tail(s)[i] = s[i + 1]
<1>1. Head(s) \in Call /\ Head(s) = s[1] /\ Tail(s) \in Seq(Call) /\ 1 \in DOMAIN s
  OBVIOUS
<1>2. Head(s).used \subseteq Param
  BY <1>1 DEF Call
<1>3. Len(Tail(s)) = Len(s) - 1 /\ \A i \in DOMAIN Tail(s) : i + 1 \in DOMAIN s /\ Tail(s)[i] = s[i + 1]
  OBVIOUS
<1> QED
  BY <1>1, <1>2, <1>3

-----------------------------------------------------------------------------
(* Types *)

LEMMA ControlInit == Init => ControlType
<1> SUFFICES ASSUME Init PROVE ControlType
  OBVIOUS
<1>1. setup \in Setups /\ J \in Int /\ setup.script \in [Rank -> Seq(Call)]
  BY SetupFacts DEF Init
<1> QED
  BY <1>1 DEF Init, ControlType

LEMMA HooksType ==
    ASSUME ControlType, NEW r \in Rank, NEW ps \in SUBSET Param, RunHooks(r, ps)
    PROVE  /\ delay' \in [Rank -> [Param -> Int]]
           /\ handles' \in [Rank -> SUBSET Param]
           /\ pend' \in [Rank -> SUBSET Param]
           /\ warned' \in [Rank -> BOOLEAN]
<1>1. Count(delay[r], ps) \in [Param -> Int]
  BY DEF Count, ControlType
<1>2. delay' \in [Rank -> [Param -> Int]]
  BY <1>1 DEF RunHooks, ControlType
<1>3. Started(r, ps) \subseteq Param
  BY DEF Started
<1>4. handles' \in [Rank -> SUBSET Param]
  BY <1>3 DEF RunHooks, ControlType
<1>5. pend' \in [Rank -> SUBSET Param]
  BY <1>3 DEF RunHooks, ControlType
<1>6. warned' \in [Rank -> BOOLEAN]
  <2>1. Overrun(r, ps) \in BOOLEAN
    BY DEF Overrun
  <2> QED
    BY <2>1 DEF RunHooks, ControlType
<1> QED
  BY <1>2, <1>4, <1>5, <1>6

LEMMA ReturnType ==
    ASSUME todo \in [Rank -> Seq(Call)], NEW r \in Rank, todo[r] # <<>>, Return(r)
    PROVE  todo' \in [Rank -> Seq(Call)]
BY CallFacts DEF Return

LEMMA StartSynchronizeType ==
    ASSUME ControlType, NEW r \in Rank, StartSynchronize(r)
    PROVE  /\ handles' \in [Rank -> SUBSET Param]
           /\ pend' \in [Rank -> SUBSET Param]
           /\ mpc' \in [Rank -> {"run", "barrier", "wait", "failed"}]
<1>1. Missing(r) \subseteq Param
  BY DEF Missing
<1> QED
  BY <1>1 DEF StartSynchronize, ControlType

LEMMA StepDoneType ==
    ASSUME ControlType, NEW r \in Rank, todo[r] # <<>>, StepDone(r)
    PROVE  /\ todo' \in [Rank -> Seq(Call)]
           /\ steps' \in [Rank -> Nat]
BY ReturnType DEF StepDone, ControlType

LEMMA ControlProcess ==
    ASSUME ControlType, TypeOK, NEW r \in Rank, Process(r)
    PROVE  ControlType'
<1> USE DEF ControlType, Now
<1>0. J \in Int /\ todo[r] \in Seq(Call)
  BY SetupFacts
<1>1. CASE Forward(r)
  BY <1>1, HooksType, ReturnType DEF Forward
<1>2. CASE EvalForward(r)
  BY <1>2, ReturnType DEF EvalForward
<1>3. CASE Backward(r)
  BY <1>3, HooksType, ReturnType, CallFacts DEF Backward
<1>4. CASE AtcBackward(r)
  <2>1. CASE ~setup.func
    BY <1>4, <2>1 DEF AtcBackward
  <2>2. CASE setup.func
    <3> DEFINE ps == Head(todo[r]).used
    <3>1. ps \in SUBSET Param /\ todo[r] # <<>>
      BY <1>4, CallFacts DEF AtcBackward
    <3>2. RunHooks(r, ps) /\ Return(r) /\ step_delay' = [step_delay EXCEPT ![r] = Count(@, ps)]
      BY <1>4, <2>2 DEF AtcBackward
    <3>3. Count(step_delay[r], ps) \in [Param -> Int]
      BY DEF Count
    <3>4. step_delay' \in [Rank -> [Param -> Int]]
      BY <3>2, <3>3
    <3> QED
      BY <1>4, <2>2, <3>1, <3>2, <3>4, HooksType, ReturnType DEF AtcBackward
  <2> QED
    BY <2>1, <2>2
<1>5. CASE ZeroGrad(r)
  <2>1. CASE ZeroGradRefused(r)
    BY <1>5, <2>1 DEF ZeroGrad
  <2>2. CASE ~ZeroGradRefused(r)
    BY <1>5, <2>2, ReturnType DEF ZeroGrad
  <2> QED
    BY <2>1, <2>2
<1>6. CASE Synchronize(r)
  BY <1>6, StartSynchronizeType DEF Synchronize
<1>7. CASE Step(r)
  <2>1. CASE force_barrier
    <3>1. /\ barriers' = [barriers EXCEPT ![r] = @ + 1]
          /\ mpc' = [mpc EXCEPT ![r] = "barrier"]
          /\ UNCHANGED <<setup, todo, delay, step_delay, handles, pend, warned, steps, comms>>
      BY <1>7, <2>1 DEF Step
    <3> QED
      BY <3>1
  <2>2. CASE ~force_barrier
    <3>1. StartSynchronize(r)
      BY <1>7, <2>2 DEF Step
    <3> QED
      BY <1>7, <2>2, <3>1, StartSynchronizeType DEF Step
  <2> QED
    BY <2>1, <2>2
<1>8. CASE LeaveBarrier(r)
  <2>0. todo[r] # <<>>
    BY <1>8 DEF LeaveBarrier, TypeOK
  <2>1. CASE Head(todo[r]).op = "step"
    BY <1>8, <2>1, StartSynchronizeType DEF LeaveBarrier
  <2>2. CASE Head(todo[r]).op # "step"
    BY <1>8, <2>0, <2>2, StepDoneType DEF LeaveBarrier
  <2> QED
    BY <2>1, <2>2
<1>9. CASE SkipStep(r)
  BY <1>9, StepDoneType DEF SkipStep
<1>10. CASE AtcStep(r)
  <2>1. CASE handles[r] = {}
    BY <1>10, <2>1, StepDoneType DEF AtcStep
  <2>2. CASE handles[r] # {} /\ \A p \in Param : step_delay[r][p] # 0
    BY <1>10, <2>2, StartSynchronizeType DEF AtcStep
  <2>3. CASE handles[r] # {} /\ \A p \in Param : step_delay[r][p] = 0
    <3>0. \E p \in Param : step_delay[r][p] = 0
      BY <2>3
    <3>1. /\ step_delay' = [step_delay EXCEPT ![r] = [p \in Param |-> J]]
          /\ StartSynchronize(r)
          /\ UNCHANGED <<todo, steps>>
      BY <1>10, <2>3, <3>0 DEF AtcStep
    <3>2. step_delay' \in [Rank -> [Param -> Int]]
      BY <1>0, <3>1
    <3> QED
      BY <1>10, <3>1, <3>2, StartSynchronizeType DEF AtcStep
  <2>4. CASE handles[r] # {} /\ \E p, q \in Param : step_delay[r][p] = 0 /\ step_delay[r][q] # 0
    BY <1>10, <2>4 DEF AtcStep
  <2> QED
    BY <2>1, <2>2, <2>3, <2>4
<1>11. CASE EndSynchronize(r)
  <2>0. todo[r] # <<>>
    BY <1>11 DEF EndSynchronize, TypeOK
  <2>1. CASE Head(todo[r]).op = "step"
    BY <1>11, <2>0, <2>1, StepDoneType DEF EndSynchronize
  <2>2. CASE Head(todo[r]).op # "step"
    BY <1>11, <2>0, <2>2, ReturnType DEF EndSynchronize
  <2> QED
    BY <2>1, <2>2
<1>12. ASSUME NEW p \in Param, SyncParam(r, p)
       PROVE  ControlType'
  <2>1. [delay[r] EXCEPT ![p] = J] \in [Param -> Int] /\ [comms[r] EXCEPT ![p] = @ + 1] \in [Param -> Nat]
    BY <1>0
  <2>2. delay' = [delay EXCEPT ![r] = [delay[r] EXCEPT ![p] = J]]
    BY <1>12 DEF SyncParam
  <2>3. comms' = [comms EXCEPT ![r] = [comms[r] EXCEPT ![p] = @ + 1]]
    BY <1>12 DEF SyncParam
  <2>4. delay' \in [Rank -> [Param -> Int]] /\ comms' \in [Rank -> [Param -> Nat]]
    BY <2>1, <2>2, <2>3
  <2> QED
    BY <1>12, <2>4 DEF SyncParam
<1> QED
  BY <1>1, <1>2, <1>3, <1>4, <1>5, <1>6, <1>7, <1>8, <1>9, <1>10, <1>11, <1>12 DEF Process

LEMMA ControlCommunication ==
    ASSUME ControlType, Communication
    PROVE  ControlType'
<1> USE DEF ControlType, Now
<1>1. ASSUME NEW op, \A r \in Rank : Now(r, op), todo' = [r \in Rank |-> Tail(todo[r])],
             UNCHANGED <<setup, mpc, delay, step_delay, handles, pend, warned, barriers, steps, comms>>
      PROVE  ControlType'
  <2>1. \A r \in Rank : Tail(todo[r]) \in Seq(Call)
    BY <1>1, CallFacts
  <2> QED
    BY <1>1, <2>1
<1>2. CASE BroadcastParameters
  BY <1>1, <1>2 DEF BroadcastParameters, ExchangeParameters
<1>3. CASE AllreduceParameters
  BY <1>1, <1>3 DEF AllreduceParameters, ExchangeParameters
<1>4. CASE BroadcastOptimizerState
  BY <1>1, <1>4 DEF BroadcastOptimizerState
<1>5. ASSUME NEW p \in Param, Collective(p)
      PROVE  ControlType'
  BY <1>5 DEF Collective
<1>6. ASSUME NEW p \in Param, NEW r \in Rank, OneSided(r, p)
      PROVE  ControlType'
  BY <1>6 DEF OneSided
<1> QED
  BY <1>2, <1>3, <1>4, <1>5, <1>6 DEF Communication

\* What a thread inside a call is doing, and the bounds of the counts.
CallInv ==
    \A r \in Rank :
        /\ mpc[r] = "barrier" => todo[r] # <<>> /\ Head(todo[r]).op \in StepCalls
        /\ mpc[r] = "wait" => todo[r] # <<>> /\ Head(todo[r]).op \in {"step", "synchronize"}
        /\ pend[r] \subseteq handles[r]
        /\ \A p \in Param : delay[r][p] <= J /\ step_delay[r][p] <= J

LEMMA FreshType ==
    ASSUME DataType, NEW r \in Rank
    PROVE  Fresh(r) \subseteq Work /\ IsFiniteSet(Fresh(r))
<1> DEFINE S == {made[r][p] : p \in Param}
<1>1. IsFiniteSet(S)
  <2>1. made[r] \in [Param -> S] /\ \A T \in S : \E p \in Param : made[r][p] = T
    BY DEF DataType, Tensors
  <2>2. made[r] \in Surjection(Param, S)
    BY <2>1, Fun_IsSurj
  <2> QED
    BY <2>2, ParamAssumption, FS_Surjection
<1>2. \A T \in S : IsFiniteSet(T)
  BY DEF DataType
<1>3. IsFiniteSet(UNION S)
  BY <1>1, <1>2, FS_UNION
<1>4. Cardinality(UNION S) \in Nat
  BY <1>3, FS_CardinalityType
<1>5. Cardinality(UNION S) + 1 \in Nat
  BY <1>4
<1>6. Fresh(r) = {<<r, Cardinality(UNION S) + 1>>}
  BY DEF Fresh
<1>7. Fresh(r) \subseteq Work
  BY <1>5, <1>6 DEF Work
<1>8. IsFiniteSet(Fresh(r))
  BY <1>6, FS_Singleton
<1> QED
  BY <1>7, <1>8

LEMMA AccumulateType ==
    ASSUME NEW f \in [Rank -> Tensors], NEW r \in Rank, NEW ps, NEW g \in SUBSET Work
    PROVE  Accumulate(f, r, ps, g) \in [Rank -> Tensors]
<1>1. [p \in Param |-> f[r][p] \cup (IF p \in ps THEN g ELSE {})] \in Tensors
  BY DEF Tensors
<1> QED
  BY <1>1 DEF Accumulate

LEMMA ApplyType ==
    ASSUME NEW f \in Tensors, NEW g \in Tensors
    PROVE  Apply(f, g) \in Tensors
BY DEF Apply, Tensors

LEMMA ReceivedType ==
    ASSUME DataType, NEW r \in Rank, NEW p \in Param
    PROVE  Received(r, p) \subseteq Work
BY DEF Received, DataType, Tensors

LEMMA ResultType ==
    ASSUME DataType, NEW r \in Rank, NEW p \in Param
    PROVE  Result(r, p) \subseteq Work
<1>1. param[r][p] \subseteq Work /\ reg[r][p] \subseteq Work /\ out[r][p] \subseteq Work
  BY DEF DataType, Tensors
<1>2. param[r][p] \cup Received(r, p) \subseteq Work /\ reg[r][p] \cup Received(r, p) \subseteq Work
  BY <1>1, ReceivedType
<1> QED
  BY <1>1, <1>2, Zenon DEF Result

LEMMA DataInit == Init => DataType
<1> SUFFICES ASSUME Init PROVE DataType
  OBVIOUS
<1>1. [p \in Param |-> {}] \in Tensors
  BY DEF Tensors
<1>2. param \in [Rank -> Tensors]
  <2>2. \A r \in Rank : [p \in Param |-> {<<r, 0>>}] \in Tensors
    BY DEF Tensors, Work
  <2> QED
    BY <2>2 DEF Init
<1>3. DOMAIN buf = Rank /\ \A r \in Rank : buf[r] \in [Peers[r] -> Tensors]
  <2>1. \A r \in Rank : param[r] \in Tensors
    BY <1>2
  <2> QED
    BY <1>1, <2>1 DEF Init
<1>4. \A r \in Rank, p \in Param : IsFiniteSet(made[r][p])
  BY FS_EmptySet DEF Init
<1> QED
  BY <1>1, <1>2, <1>3, <1>4 DEF Init, DataType

LEMMA BackwardType ==
    ASSUME DataType, NEW r \in Rank, NEW ps,
           grad' = Accumulate(grad, r, ps, Fresh(r)),
           made' = Accumulate(made, r, ps, Fresh(r))
    PROVE  /\ grad' \in [Rank -> Tensors]
           /\ made' \in [Rank -> Tensors]
           /\ \A s \in Rank, p \in Param : IsFiniteSet(made'[s][p])
<1>1. grad' \in [Rank -> Tensors] /\ made' \in [Rank -> Tensors]
  BY AccumulateType, FreshType DEF DataType
<1>2. ASSUME NEW s \in Rank, NEW p \in Param
      PROVE  IsFiniteSet(made'[s][p])
  <2> DEFINE g == IF p \in ps THEN Fresh(r) ELSE {}
  <2>1. IsFiniteSet(made[s][p]) /\ IsFiniteSet(g)
    BY FreshType, FS_EmptySet DEF DataType
  <2>2. IsFiniteSet(made[s][p] \cup g)
    BY <2>1, FS_Union
  <2>3. made'[s][p] = IF s = r THEN made[s][p] \cup g ELSE made[s][p]
    BY DEF Accumulate, DataType
  <2> HIDE DEF g
  <2> QED
    BY <2>1, <2>2, <2>3
<1> QED
  BY <1>1, <1>2

LEMMA DataProcess ==
    ASSUME ControlType, DataType, NEW r \in Rank, Process(r)
    PROVE  DataType'
<1>0. ASSUME UNCHANGED <<out, reg, buf, made, param, grad, due>>
      PROVE  DataType'
  BY <1>0 DEF DataType
<1>1. ASSUME param' = [param EXCEPT ![r] = Apply(@, grad[r])],
             due' = [due EXCEPT ![r] = made[r]],
             UNCHANGED <<out, reg, buf, made, grad>>
      PROVE  DataType'
  BY <1>1, ApplyType DEF DataType
<1>2. ASSUME NEW f \in Tensors, param' = [param EXCEPT ![r] = f],
             due' = due \/ due' = [due EXCEPT ![r] = made[r]],
             UNCHANGED <<out, reg, buf, made, grad>>
      PROVE  DataType'
  BY <1>2 DEF DataType
<1>3. Apply(param[r], grad[r]) \in Tensors
  BY ApplyType DEF DataType
<1>4. CASE Forward(r)
  <2>1. Copied(r, Param) \in Tensors
    BY DEF Copied, DataType, Tensors
  <2>2. out' = out \/ out' = [out EXCEPT ![r] = Copied(r, Param)]
    BY <1>4 DEF Forward
  <2>3. out' \in [Rank -> Tensors]
    BY <2>1, <2>2 DEF DataType
  <2> QED
    BY <1>4, <2>3 DEF Forward, DataType
<1>5. CASE EvalForward(r)
  BY <1>0, <1>5 DEF EvalForward
<1>6. CASE Backward(r)
  BY <1>6, BackwardType DEF Backward, DataType
<1>7. CASE AtcBackward(r)
  <2>1. CASE ~setup.func
    BY <1>0, <1>7, <2>1 DEF AtcBackward
  <2>2. CASE setup.func
    <3> DEFINE ps == Head(todo[r]).used
               now == {p \in ps : step_delay[r][p] = 1}
    <3>1. /\ param' = [param EXCEPT ![r] = StepFunc(@, now, Fresh(r))]
          /\ grad' = Accumulate(grad, r, ps, Fresh(r))
          /\ made' = Accumulate(made, r, ps, Fresh(r))
          /\ UNCHANGED <<out, reg, buf, due>>
      BY <1>7, <2>2 DEF AtcBackward
    <3> HIDE DEF ps, now
    <3>2. StepFunc(param[r], now, Fresh(r)) \in Tensors
      BY FreshType DEF StepFunc, DataType, Tensors
    <3>3. param' \in [Rank -> Tensors]
      BY <3>1, <3>2 DEF DataType
    <3> QED
      BY <3>1, <3>3, BackwardType DEF DataType
  <2> QED
    BY <2>1, <2>2
<1>8. CASE ZeroGrad(r)
  <2>1. [p \in Param |-> {}] \in Tensors
    BY DEF Tensors
  <2> QED
    BY <1>8, <2>1 DEF ZeroGrad, DataType
<1>9. CASE Synchronize(r)
  BY <1>0, <1>9 DEF Synchronize
<1>10. CASE Step(r)
  BY <1>0, <1>10 DEF Step
<1>11. CASE LeaveBarrier(r)
  BY <1>0, <1>1, <1>11 DEF LeaveBarrier, StepDone
<1>12. CASE SkipStep(r)
  BY <1>1, <1>12 DEF SkipStep, StepDone
<1>13. CASE AtcStep(r)
  BY <1>0, <1>2, <1>3, <1>13 DEF AtcStep, StepDone
<1>14. CASE EndSynchronize(r)
  <2>1. param[r] \in Tensors
    BY DEF DataType
  <2> QED
    BY <1>0, <1>2, <1>3, <1>14, <2>1 DEF EndSynchronize, StepDone
<1>15. ASSUME NEW p \in Param, SyncParam(r, p)
       PROVE  DataType'
  <2> DEFINE w == Result(r, p)
  <2>1. w \in SUBSET Work
    BY ResultType
  <2>2. /\ grad' = grad \/ grad' = [grad EXCEPT ![r] = [grad[r] EXCEPT ![p] = w]]
        /\ param' = param \/ param' = [param EXCEPT ![r] = [param[r] EXCEPT ![p] = w]]
        /\ reg' = reg \/ reg' = [reg EXCEPT ![r] = [reg[r] EXCEPT ![p] = w]]
        /\ \/ buf' = buf
           \/ buf' = [buf EXCEPT ![r] = [s \in Peers[r] |-> [@[s] EXCEPT ![p] = {}]]]
        /\ UNCHANGED <<out, made, due>>
    BY <1>15 DEF SyncParam
  <2> HIDE DEF w
  <2>3. /\ [grad[r] EXCEPT ![p] = w] \in Tensors
        /\ [param[r] EXCEPT ![p] = w] \in Tensors
        /\ [reg[r] EXCEPT ![p] = w] \in Tensors
    BY <2>1 DEF DataType, Tensors
  <2>4. grad' \in [Rank -> Tensors]
    BY <2>2, <2>3 DEF DataType
  <2>5. param' \in [Rank -> Tensors]
    BY <2>2, <2>3 DEF DataType
  <2>6. reg' \in [Rank -> Tensors]
    BY <2>2, <2>3 DEF DataType
  <2>7. \A s \in Peers[r] : [buf[r][s] EXCEPT ![p] = {}] \in Tensors
    BY DEF DataType, Tensors
  <2>8. DOMAIN buf' = Rank /\ \A q \in Rank : buf'[q] \in [Peers[q] -> Tensors]
    BY <2>2, <2>7 DEF DataType
  <2> QED
    BY <2>2, <2>4, <2>5, <2>6, <2>8 DEF DataType
<1> QED
  BY <1>4, <1>5, <1>6, <1>7, <1>8, <1>9, <1>10, <1>11, <1>12, <1>13, <1>14, <1>15 DEF Process

LEMMA TensorType ==
    ASSUME DataType, NEW r \in Rank
    PROVE  Tensor(r) \in Tensors
<1>1. grad[r] \in Tensors /\ out[r] \in Tensors /\ param[r] \in Tensors
  BY DEF DataType
<1> QED
  BY <1>1, Zenon DEF Tensor

LEMMA DataCommunication ==
    ASSUME DataType, Communication
    PROVE  DataType'
<1>1. ASSUME NEW op, NEW flow \in SUBSET Rank, ExchangeParameters(op, flow)
      PROVE  DataType'
  <2>1. [p \in Param |-> UNION {param[s][p] : s \in flow}] \in Tensors
    BY DEF DataType, Tensors
  <2> QED
    BY <1>1, <2>1 DEF ExchangeParameters, DataType
<1>2. CASE BroadcastParameters
  <2>1. CASE Rank = {}
    BY <1>2, <2>1 DEF BroadcastParameters, ExchangeParameters, DataType
  <2>2. CASE Rank # {}
    <3>1. Cardinality(Rank) \in Nat /\ 0 \in Rank
      BY <2>2, RankAssumption, FS_CardinalityType
    <3> QED
      BY <1>1, <1>2, <3>1 DEF BroadcastParameters
  <2> QED
    BY <2>1, <2>2
<1>3. CASE AllreduceParameters
  BY <1>1, <1>3 DEF AllreduceParameters
<1>4. CASE BroadcastOptimizerState
  <2>1. [p \in Param |-> {}] \in Tensors
    BY DEF Tensors
  <2> QED
    BY <1>4, <2>1 DEF BroadcastOptimizerState, DataType
<1>5. ASSUME NEW p \in Param, Collective(p)
      PROVE  DataType'
  <2>1. \A r \in Rank : Flow(r) \subseteq Rank
    <3> SUFFICES ASSUME NEW r \in Rank PROVE Flow(r) \subseteq Rank
      OBVIOUS
    <3>1. {r} \cup Peers[r] \subseteq Rank
      BY PeersAssumption
    <3>2. {s \in Rank : \E q \in {r} \cup Peers[r] : Machine(s) = Machine(q)} \subseteq Rank /\ {r} \subseteq Rank
      OBVIOUS
    <3> QED
      BY <3>1, <3>2, Zenon DEF Flow
  <2>2. \A s \in Rank : Tensor(s) \in Tensors
    BY TensorType
  <2>3. \A r \in Rank : UNION {Tensor(s)[p] : s \in Flow(r)} \in SUBSET Work
    BY <2>1, <2>2 DEF Tensors
  <2>4. \A r \in Rank : [out[r] EXCEPT ![p] = UNION {Tensor(s)[p] : s \in Flow(r)}] \in Tensors
    BY <2>3 DEF DataType, Tensors
  <2> QED
    BY <1>5, <2>4 DEF Collective, DataType
<1>6. ASSUME NEW p \in Param, NEW r \in Rank, OneSided(r, p)
      PROVE  DataType'
  <2>1. ASSUME NEW s \in Rank, r \in Peers[s]
        PROVE  [buf[s] EXCEPT ![r][p] =
                  Tensor(r)[p] \cup (IF cls = "push_sum" THEN @ ELSE {})] \in [Peers[s] -> Tensors]
    <3> DEFINE w == Tensor(r)[p] \cup (IF cls = "push_sum" THEN buf[s][r][p] ELSE {})
    <3>1. w \in SUBSET Work
      BY <2>1, TensorType DEF DataType, Tensors
    <3> HIDE DEF w
    <3>2. [buf[s][r] EXCEPT ![p] = w] \in Tensors
      BY <2>1, <3>1 DEF DataType, Tensors
    <3>3. [buf[s] EXCEPT ![r] = [buf[s][r] EXCEPT ![p] = w]] \in [Peers[s] -> Tensors]
      BY <3>2 DEF DataType
    <3> QED
      BY <3>3 DEF w
  <2>2. DOMAIN buf' = Rank /\ \A s \in Rank : buf'[s] \in [Peers[s] -> Tensors]
    BY <1>6, <2>1 DEF OneSided, DataType
  <2> QED
    BY <1>6, <2>2 DEF OneSided, DataType
<1> QED
  BY <1>2, <1>3, <1>4, <1>5, <1>6 DEF Communication

LEMMA CallInit == Init => CallInv
<1> SUFFICES ASSUME Init PROVE CallInv
  OBVIOUS
<1>1. J \in Int
  BY SetupFacts DEF Init
<1> QED
  BY <1>1 DEF Init, CallInv

\* A hook counts down, and an operation it starts gets a handle.
LEMMA HooksCall ==
    ASSUME ControlType, CallInv, NEW r \in Rank, NEW ps \in SUBSET Param, RunHooks(r, ps)
    PROVE  \A s \in Rank :
             /\ pend'[s] \subseteq handles'[s]
             /\ \A p \in Param : delay'[s][p] <= J
<1>1. J \in Int
  BY SetupFacts DEF ControlType
<1>2. ASSUME NEW s \in Rank PROVE pend'[s] \subseteq handles'[s]
  BY DEF RunHooks, ControlType, CallInv
<1>3. ASSUME NEW s \in Rank, NEW p \in Param PROVE delay'[s][p] <= J
  <2>1. delay[s][p] \in Int /\ delay[s][p] <= J
    BY DEF ControlType, CallInv
  <2>2. delay'[s][p] = IF s = r /\ p \in ps THEN delay[s][p] - 1 ELSE delay[s][p]
    BY DEF RunHooks, ControlType, Count
  <2> QED
    BY <1>1, <2>1, <2>2
<1> QED
  BY <1>2, <1>3

LEMMA CallProcess ==
    ASSUME ControlType, CallInv, NEW r \in Rank, Process(r)
    PROVE  CallInv'
<1> USE DEF ControlType, Now
<1>0. J \in Int /\ todo[r] \in Seq(Call)
  BY SetupFacts
<1>1. CASE Forward(r)
  <2>1. CASE ForwardHooked
    BY <1>1, <2>1, HooksCall DEF Forward, CallInv, Return, J
  <2>2. CASE ~ForwardHooked
    BY <1>1, <2>2 DEF Forward, CallInv, Return, J
  <2> QED
    BY <2>1, <2>2
<1>2. CASE EvalForward(r)
  BY <1>2 DEF EvalForward, CallInv, Return, J
<1>3. CASE Backward(r)
  <2>1. Head(todo[r]).used \in SUBSET Param
    BY <1>3, CallFacts DEF Backward
  <2>2. CASE cls = "gradient"
    BY <1>3, <2>1, <2>2, HooksCall DEF Backward, CallInv, Return, J
  <2>3. CASE cls # "gradient"
    BY <1>3, <2>3 DEF Backward, CallInv, Return, J
  <2> QED
    BY <2>2, <2>3
<1>4. CASE AtcBackward(r)
  <2>1. CASE ~setup.func
    BY <1>4, <2>1 DEF AtcBackward, CallInv, J
  <2>2. CASE setup.func
    <3> DEFINE ps == Head(todo[r]).used
    <3>1. ps \in SUBSET Param /\ todo[r] # <<>>
      BY <1>4, CallFacts DEF AtcBackward
    <3>2. /\ RunHooks(r, ps) /\ Return(r) /\ step_delay' = [step_delay EXCEPT ![r] = Count(@, ps)]
          /\ mpc[r] = "run" /\ UNCHANGED <<mpc, setup>>
      BY <1>4, <2>2 DEF AtcBackward
    <3> HIDE DEF ps
    <3>3. ASSUME NEW s \in Rank, NEW p \in Param PROVE step_delay'[s][p] <= J
      <4>1. step_delay[s][p] \in Int /\ step_delay[s][p] <= J
        BY DEF CallInv
      <4>2. step_delay'[s][p] = IF s = r /\ p \in ps THEN step_delay[s][p] - 1 ELSE step_delay[s][p]
        BY <3>2 DEF Count
      <4> QED
        BY <1>0, <4>1, <4>2
    <3> QED
      BY <3>1, <3>2, <3>3, HooksCall DEF CallInv, Return, J
  <2> QED
    BY <2>1, <2>2
<1>5. CASE ZeroGrad(r)
  BY <1>5 DEF ZeroGrad, CallInv, Return, J
<1>6. CASE Synchronize(r)
  BY <1>6 DEF Synchronize, StartSynchronize, CallInv, J
<1>7. CASE Step(r)
  <2>1. CASE force_barrier
    <3>1. /\ todo[r] # <<>> /\ Head(todo[r]).op \in StepCalls
          /\ mpc' = [mpc EXCEPT ![r] = "barrier"]
          /\ UNCHANGED <<setup, todo, delay, step_delay, handles, pend>>
      BY <1>7, <2>1 DEF Step, StepCalls
    <3> QED
      BY <3>1 DEF CallInv, J
  <2>2. CASE ~force_barrier
    <3>1. /\ todo[r] # <<>> /\ Head(todo[r]).op = "step"
          /\ StartSynchronize(r)
          /\ UNCHANGED <<setup, todo, delay, step_delay>>
      BY <1>7, <2>2 DEF Step
    <3> QED
      BY <3>1 DEF CallInv, StartSynchronize, J
  <2> QED
    BY <2>1, <2>2
<1>8. CASE LeaveBarrier(r)
  <2>1. /\ mpc[r] = "barrier" /\ todo[r] # <<>>
        /\ \/ Head(todo[r]).op = "step" /\ StartSynchronize(r) /\ UNCHANGED todo
           \/ mpc' = [mpc EXCEPT ![r] = "run"] /\ Return(r) /\ UNCHANGED <<handles, pend>>
        /\ UNCHANGED <<setup, delay, step_delay>>
    BY <1>8 DEF LeaveBarrier, CallInv, StepDone
  <2>2. CASE Head(todo[r]).op = "step" /\ StartSynchronize(r) /\ UNCHANGED todo
    BY <2>1, <2>2 DEF CallInv, StartSynchronize, J
  <2>3. CASE mpc' = [mpc EXCEPT ![r] = "run"] /\ Return(r) /\ UNCHANGED <<handles, pend>>
    BY <2>1, <2>3 DEF CallInv, Return, J
  <2> QED
    BY <2>1, <2>2, <2>3
<1>9. CASE SkipStep(r)
  BY <1>9 DEF SkipStep, CallInv, StepDone, Return, J
<1>10. CASE AtcStep(r)
  <2>1. ASSUME NEW s \in Rank, NEW p \in Param PROVE step_delay'[s][p] <= J
    <3>1. step_delay[s][p] \in Int /\ step_delay[s][p] <= J
      BY DEF CallInv
    <3>2. step_delay' = step_delay \/ step_delay' = [step_delay EXCEPT ![r] = [q \in Param |-> J]]
      BY <1>10 DEF AtcStep
    <3>3. CASE step_delay' = step_delay
      BY <3>1, <3>3
    <3>4. CASE step_delay' = [step_delay EXCEPT ![r] = [q \in Param |-> J]]
      <4>1. step_delay'[s] = IF s = r THEN [q \in Param |-> J] ELSE step_delay[s]
        BY <3>4
      <4> QED
        BY <1>0, <3>1, <4>1
    <3> QED
      BY <3>2, <3>3, <3>4
  <2>2. \/ mpc' = mpc /\ Return(r) /\ UNCHANGED <<handles, pend>>
        \/ StartSynchronize(r) /\ UNCHANGED todo
        \/ mpc' = [mpc EXCEPT ![r] = "failed"] /\ UNCHANGED <<todo, handles, pend>>
    BY <1>10 DEF AtcStep, StepDone
  <2>3. /\ mpc[r] = "run" /\ todo[r] # <<>> /\ Head(todo[r]).op = "step"
        /\ UNCHANGED <<setup, delay>>
    BY <1>10 DEF AtcStep
  <2>4. CASE mpc' = mpc /\ Return(r) /\ UNCHANGED <<handles, pend>>
    BY <2>1, <2>3, <2>4 DEF CallInv, Return, J
  <2>5. CASE StartSynchronize(r) /\ UNCHANGED todo
    BY <2>1, <2>3, <2>5 DEF CallInv, StartSynchronize, J
  <2>6. CASE mpc' = [mpc EXCEPT ![r] = "failed"] /\ UNCHANGED <<todo, handles, pend>>
    BY <2>1, <2>3, <2>6 DEF CallInv, J
  <2> QED
    BY <2>2, <2>4, <2>5, <2>6
<1>11. CASE EndSynchronize(r)
  BY <1>11 DEF EndSynchronize, CallInv, StepDone, Return, J
<1>12. ASSUME NEW p \in Param, SyncParam(r, p)
       PROVE  CallInv'
  <2>1. ASSUME NEW s \in Rank, NEW q \in Param PROVE delay'[s][q] <= J
    <3>1. delay[s][q] \in Int /\ delay[s][q] <= J
      BY DEF CallInv
    <3>2. delay'[s][q] = IF s = r /\ q = p THEN J ELSE delay[s][q]
      BY <1>12 DEF SyncParam
    <3> QED
      BY <1>0, <3>1, <3>2
  <2>2. \A s \in Rank : pend'[s] \subseteq handles'[s]
    BY <1>12 DEF SyncParam, CallInv
  <2> QED
    BY <1>12, <2>1, <2>2 DEF SyncParam, CallInv, J
<1> QED
  BY <1>1, <1>2, <1>3, <1>4, <1>5, <1>6, <1>7, <1>8, <1>9, <1>10, <1>11, <1>12 DEF Process

LEMMA CallCommunication ==
    ASSUME ControlType, CallInv, Communication
    PROVE  CallInv'
<1> USE DEF ControlType, Now
<1>1. ASSUME NEW op, \A r \in Rank : Now(r, op),
             UNCHANGED <<setup, mpc, delay, step_delay, handles, pend>>
      PROVE  CallInv'
  BY <1>1 DEF CallInv, J
<1>2. CASE BroadcastParameters
  BY <1>1, <1>2 DEF BroadcastParameters, ExchangeParameters
<1>3. CASE AllreduceParameters
  BY <1>1, <1>3 DEF AllreduceParameters, ExchangeParameters
<1>4. CASE BroadcastOptimizerState
  BY <1>1, <1>4 DEF BroadcastOptimizerState
<1>5. ASSUME NEW p \in Param, Collective(p)
      PROVE  CallInv'
  BY <1>5 DEF Collective, CallInv, J
<1>6. ASSUME NEW p \in Param, NEW r \in Rank, OneSided(r, p)
      PROVE  CallInv'
  BY <1>6 DEF OneSided, CallInv, J
<1> QED
  BY <1>2, <1>3, <1>4, <1>5, <1>6 DEF Communication

TypeInv == ControlType /\ DataType /\ CallInv

LEMMA TypeInit == Init => TypeInv
BY ControlInit, DataInit, CallInit DEF TypeInv

LEMMA TypeImplied == TypeInv => TypeOK
<1> SUFFICES ASSUME TypeInv, NEW r \in Rank, NEW p \in Param
             PROVE  param[r][p] \cup grad[r][p] \cup out[r][p] \subseteq Work
  BY DEF TypeInv, TypeOK, ControlType, CallInv
<1> QED
  BY DEF TypeInv, DataType, Tensors

LEMMA TypeStep == TypeInv /\ [Next]_vars => TypeInv'
<1> SUFFICES ASSUME TypeInv, [Next]_vars PROVE TypeInv'
  OBVIOUS
<1>1. ASSUME NEW r \in Rank, Process(r) PROVE TypeInv'
  BY <1>1, ControlProcess, DataProcess, CallProcess, TypeImplied DEF TypeInv
<1>2. CASE Communication
  BY <1>2, ControlCommunication, DataCommunication, CallCommunication DEF TypeInv
<1>3. CASE UNCHANGED vars
  BY <1>3 DEF vars, TypeInv, ControlType, DataType, CallInv, J
<1> QED
  BY <1>1, <1>2, <1>3 DEF Next, Terminating

-----------------------------------------------------------------------------
(* Handles and counts: outside synchronize(), a parameter has a handle       *)
(* exactly when its count is used up.                                        *)

HandleInv ==
    \A r \in Rank, p \in Param :
        /\ p \notin handles[r] => delay[r][p] >= 1
        /\ mpc[r] \in {"run", "barrier"} /\ p \in handles[r] => delay[r][p] <= 0

LEMMA HandleInit == Init => HandleInv
<1> SUFFICES ASSUME Init PROVE HandleInv
  OBVIOUS
<1>1. J \in Nat /\ J >= 1
  BY SetupFacts DEF Init
<1> QED
  BY <1>1 DEF Init, HandleInv

LEMMA HooksHandle ==
    ASSUME ControlType, HandleInv, NEW r \in Rank, NEW ps \in SUBSET Param, RunHooks(r, ps),
           UNCHANGED mpc
    PROVE  HandleInv'
<1> SUFFICES ASSUME NEW s \in Rank, NEW p \in Param
             PROVE  /\ p \notin handles'[s] => delay'[s][p] >= 1
                    /\ mpc[s] \in {"run", "barrier"} /\ p \in handles'[s] => delay'[s][p] <= 0
  BY DEF HandleInv
<1>1. delay[s][p] \in Int
  BY DEF ControlType
<1>2. delay'[s][p] = IF s = r /\ p \in ps THEN delay[s][p] - 1 ELSE delay[s][p]
  BY DEF RunHooks, ControlType, Count
<1>3. p \in handles'[s] <=> p \in handles[s] \/ (s = r /\ p \in ps /\ delay[s][p] = 1)
  BY DEF RunHooks, ControlType, Started
<1> QED
  BY <1>1, <1>2, <1>3 DEF HandleInv

LEMMA HandleStart ==
    ASSUME ControlType, HandleInv, NEW r \in Rank, StartSynchronize(r), UNCHANGED delay
    PROVE  HandleInv'
BY DEF StartSynchronize, ControlType, HandleInv

LEMMA HandleProcess ==
    ASSUME TypeInv, HandleInv, NEW r \in Rank, Process(r)
    PROVE  HandleInv'
<1> USE DEF ControlType, Now, TypeInv
<1>0. J \in Int /\ J >= 1 /\ todo[r] \in Seq(Call)
  BY SetupFacts
<1>1. CASE Forward(r)
  BY <1>1, HooksHandle DEF Forward, HandleInv
<1>2. CASE EvalForward(r)
  BY <1>2 DEF EvalForward, HandleInv
<1>3. CASE Backward(r)
  <2>1. Head(todo[r]).used \in SUBSET Param
    BY <1>3, CallFacts DEF Backward
  <2> QED
    BY <1>3, <2>1, HooksHandle DEF Backward, HandleInv
<1>4. CASE AtcBackward(r)
  <2>1. Head(todo[r]).used \in SUBSET Param
    BY <1>4, CallFacts DEF AtcBackward
  <2>2. CASE ~setup.func
    BY <1>4, <2>2 DEF AtcBackward, HandleInv
  <2>3. CASE setup.func
    BY <1>4, <2>1, <2>3, HooksHandle DEF AtcBackward
  <2> QED
    BY <2>2, <2>3
<1>5. CASE ZeroGrad(r)
  BY <1>5 DEF ZeroGrad, HandleInv
<1>6. CASE Synchronize(r)
  BY <1>6, HandleStart DEF Synchronize
<1>7. CASE Step(r)
  <2>1. \/ mpc' = [mpc EXCEPT ![r] = "barrier"] /\ UNCHANGED handles
        \/ StartSynchronize(r)
    BY <1>7 DEF Step
  <2> QED
    BY <1>7, <2>1, HandleStart DEF Step, HandleInv
<1>8. CASE LeaveBarrier(r)
  <2>1. \/ StartSynchronize(r)
        \/ mpc' = [mpc EXCEPT ![r] = "run"] /\ UNCHANGED handles
    BY <1>8 DEF LeaveBarrier
  <2> QED
    BY <1>8, <2>1, HandleStart DEF LeaveBarrier, HandleInv
<1>9. CASE SkipStep(r)
  BY <1>9 DEF SkipStep, HandleInv
<1>10. CASE AtcStep(r)
  <2>1. \/ StartSynchronize(r)
        \/ mpc' = [mpc EXCEPT ![r] = "failed"] /\ UNCHANGED handles
        \/ UNCHANGED <<mpc, handles>>
    BY <1>10 DEF AtcStep
  <2> QED
    BY <1>10, <2>1, HandleStart DEF AtcStep, HandleInv
<1>11. CASE EndSynchronize(r)
  BY <1>11 DEF EndSynchronize, HandleInv
<1>12. ASSUME NEW p \in Param, SyncParam(r, p)
       PROVE  HandleInv'
  <2> SUFFICES ASSUME NEW s \in Rank, NEW q \in Param
               PROVE  /\ q \notin handles'[s] => delay'[s][q] >= 1
                      /\ mpc'[s] \in {"run", "barrier"} /\ q \in handles'[s] => delay'[s][q] <= 0
    BY DEF HandleInv
  <2>1. delay'[s][q] = IF s = r /\ q = p THEN J ELSE delay[s][q]
    BY <1>12 DEF SyncParam
  <2>2. q \in handles'[s] <=> q \in handles[s] /\ ~(s = r /\ q = p)
    BY <1>12 DEF SyncParam
  <2>3. mpc' = mpc
    BY <1>12 DEF SyncParam
  <2> QED
    BY <1>0, <2>1, <2>2, <2>3 DEF HandleInv
<1> QED
  BY <1>1, <1>2, <1>3, <1>4, <1>5, <1>6, <1>7, <1>8, <1>9, <1>10, <1>11, <1>12 DEF Process

LEMMA HandleStep == TypeInv /\ HandleInv /\ [Next]_vars => HandleInv'
<1> SUFFICES ASSUME TypeInv, HandleInv, [Next]_vars PROVE HandleInv'
  OBVIOUS
<1>1. ASSUME UNCHANGED <<mpc, delay, handles>> PROVE HandleInv'
  BY <1>1 DEF HandleInv
<1>2. CASE Communication
  BY <1>1, <1>2 DEF Communication, BroadcastParameters, AllreduceParameters, ExchangeParameters,
                    BroadcastOptimizerState, Collective, OneSided
<1>3. CASE UNCHANGED vars
  BY <1>1, <1>3 DEF vars
<1> QED
  BY <1>2, <1>3, HandleProcess DEF Next, Terminating

-----------------------------------------------------------------------------
(* Orderly scripts *)

\* Every call of s in to has one in via before it.
Before(s, via, to) ==
    \A j \in DOMAIN s : s[j].op \in to => \E k \in 1 .. j - 1 : s[k].op \in via

HeadIs(r, S) == todo[r] # <<>> /\ Head(todo[r]).op \in S

LEMMA SeparatedTail ==
    ASSUME NEW s \in Seq(Call), s # <<>>, NEW from, NEW via, NEW to, Separated(s, from, via, to)
    PROVE  /\ Separated(Tail(s), from, via, to)
           /\ Head(s).op \in from => Before(Tail(s), via, to)
<1> DEFINE t == Tail(s)
<1>1. \A i \in DOMAIN t : i \in Nat /\ i >= 1 /\ i + 1 \in DOMAIN s /\ t[i] = s[i + 1]
  BY CallFacts
<1>2. \A i \in Nat : i >= 1 /\ i + 1 \in DOMAIN s => i \in DOMAIN t
  OBVIOUS
<1>3. 1 \in DOMAIN s /\ Head(s) = s[1] /\ \A i \in DOMAIN s : i \in Nat /\ i >= 1
  BY CallFacts
<1>4. \A i \in DOMAIN s, k \in Nat : 1 <= k /\ k <= i => k \in DOMAIN s
  OBVIOUS
<1> HIDE DEF t
<1>5. ASSUME NEW i \in DOMAIN t, NEW j \in DOMAIN t, i < j, t[i].op \in from, t[j].op \in to
      PROVE  \E k \in i + 1 .. j - 1 : t[k].op \in via
  <2>1. \E k \in (i + 1) + 1 .. (j + 1) - 1 : s[k].op \in via
    BY <1>1, <1>5 DEF Separated
  <2>2. PICK k \in (i + 1) + 1 .. (j + 1) - 1 : s[k].op \in via
    BY <2>1
  <2>3. k - 1 \in i + 1 .. j - 1 /\ k - 1 \in Nat /\ k - 1 >= 1 /\ (k - 1) + 1 = k /\ k \in DOMAIN s
    BY <1>1, <1>4, <2>2
  <2>4. t[k - 1] = s[k]
    BY <1>1, <1>2, <2>3
  <2> QED
    BY <2>2, <2>3, <2>4
<1>6. ASSUME s[1].op \in from, NEW j \in DOMAIN t, t[j].op \in to
      PROVE  \E k \in 1 .. j - 1 : t[k].op \in via
  <2>1. PICK k \in 1 + 1 .. (j + 1) - 1 : s[k].op \in via
    BY <1>1, <1>3, <1>6 DEF Separated
  <2>2. k - 1 \in 1 .. j - 1 /\ k - 1 \in Nat /\ k - 1 >= 1 /\ (k - 1) + 1 = k /\ k \in DOMAIN s
    BY <1>1, <1>4, <2>1
  <2>3. t[k - 1] = s[k]
    BY <1>1, <1>2, <2>2
  <2> QED
    BY <2>1, <2>2, <2>3
<1> QED
  BY <1>3, <1>5, <1>6 DEF Separated, Before, t

LEMMA BeforeTail ==
    ASSUME NEW s \in Seq(Call), s # <<>>, NEW via, NEW to, Before(s, via, to)
    PROVE  /\ Head(s).op \notin to
           /\ Head(s).op \notin via => Before(Tail(s), via, to)
<1> DEFINE t == Tail(s)
<1>1. \A i \in DOMAIN t : i \in Nat /\ i >= 1 /\ i + 1 \in DOMAIN s /\ t[i] = s[i + 1]
  BY CallFacts
<1>2. \A i \in Nat : i >= 1 /\ i + 1 \in DOMAIN s => i \in DOMAIN t
  OBVIOUS
<1>3. 1 \in DOMAIN s /\ Head(s) = s[1]
  BY CallFacts
<1>4. \A i \in DOMAIN s, k \in Nat : 1 <= k /\ k <= i => k \in DOMAIN s
  OBVIOUS
<1> HIDE DEF t
<1>5. Head(s).op \notin to
  BY <1>3 DEF Before
<1>6. ASSUME Head(s).op \notin via, NEW j \in DOMAIN t, t[j].op \in to
      PROVE  \E k \in 1 .. j - 1 : t[k].op \in via
  <2>1. PICK k \in 1 .. (j + 1) - 1 : s[k].op \in via
    BY <1>1, <1>6 DEF Before
  <2>2. k # 1
    BY <1>3, <1>6, <2>1
  <2>3. k - 1 \in 1 .. j - 1 /\ k - 1 \in Nat /\ k - 1 >= 1 /\ (k - 1) + 1 = k /\ k \in DOMAIN s
    BY <1>1, <1>4, <2>1, <2>2
  <2>4. t[k - 1] = s[k]
    BY <1>1, <1>2, <2>3
  <2> QED
    BY <2>1, <2>3, <2>4
<1> QED
  BY <1>5, <1>6 DEF Before, t

LEMMA PairedTail ==
    ASSUME NEW s \in Seq(Call), s # <<>>, Paired(s)
    PROVE  /\ Paired(Tail(s))
           /\ Tail(s) # <<>> => (Head(s).op = "synchronize" <=> Head(Tail(s)).op = "skip_step")
           /\ Head(s).op = "synchronize" => Tail(s) # <<>>
<1> DEFINE t == Tail(s)
<1>1. \A i \in DOMAIN t : i + 1 \in DOMAIN s /\ t[i] = s[i + 1]
  BY CallFacts
<1>2. \A i \in DOMAIN t : (i + 1) + 1 \in DOMAIN s <=> i + 1 \in DOMAIN t
  OBVIOUS
<1>3. t \in Seq(Call) /\ 1 \in DOMAIN s /\ Head(s) = s[1] /\ (1 + 1 \in DOMAIN s => 1 \in DOMAIN t)
  BY CallFacts
<1> HIDE DEF t
<1>4. Paired(t)
  BY <1>1, <1>2 DEF Paired
<1>5. ASSUME t # <<>>
      PROVE  Head(s).op = "synchronize" <=> Head(t).op = "skip_step"
  <2>1. 1 \in DOMAIN t /\ Head(t) = t[1]
    BY <1>3, <1>5, CallFacts
  <2>2. 1 + 1 \in DOMAIN s /\ t[1] = s[1 + 1]
    BY <1>1, <2>1
  <2>3. s[1].op = "synchronize" <=> s[1 + 1].op = "skip_step"
    BY <1>3, <2>2 DEF Paired
  <2> QED
    BY <1>3, <2>1, <2>2, <2>3
<1>6. ASSUME Head(s).op = "synchronize" PROVE t # <<>>
  <2>1. 1 \in DOMAIN t
    BY <1>3, <1>6 DEF Paired
  <2> QED
    BY <2>1
<1> QED
  BY <1>4, <1>5, <1>6 DEF t

\* A rank changes nothing of another one, but for what it puts into its windows.
LEMMA Others ==
    ASSUME ControlType, DataType, NEW r \in Rank, Process(r), NEW s \in Rank, s # r
    PROVE  /\ todo'[s] = todo[s] /\ mpc'[s] = mpc[s] /\ delay'[s] = delay[s]
           /\ step_delay'[s] = step_delay[s] /\ handles'[s] = handles[s] /\ pend'[s] = pend[s]
           /\ out'[s] = out[s] /\ param'[s] = param[s] /\ grad'[s] = grad[s] /\ reg'[s] = reg[s]
           /\ buf'[s] = buf[s] /\ warned'[s] = warned[s] /\ made'[s] = made[s] /\ due'[s] = due[s]
           /\ steps'[s] = steps[s] /\ comms'[s] = comms[s]
<1> USE DEF ControlType, DataType, Return, RunHooks, StartSynchronize, StepDone, Accumulate
<1>1. CASE Forward(r)
  BY <1>1 DEF Forward
<1>2. CASE EvalForward(r)
  BY <1>2 DEF EvalForward
<1>3. CASE Backward(r)
  BY <1>3 DEF Backward
<1>4. CASE AtcBackward(r)
  BY <1>4 DEF AtcBackward
<1>5. CASE ZeroGrad(r)
  BY <1>5 DEF ZeroGrad
<1>6. CASE Synchronize(r)
  BY <1>6 DEF Synchronize
<1>7. CASE Step(r)
  BY <1>7 DEF Step
<1>8. CASE LeaveBarrier(r)
  BY <1>8 DEF LeaveBarrier
<1>9. CASE SkipStep(r)
  BY <1>9 DEF SkipStep
<1>10. CASE AtcStep(r)
  BY <1>10 DEF AtcStep
<1>11. CASE EndSynchronize(r)
  BY <1>11 DEF EndSynchronize
<1>12. ASSUME NEW p \in Param, SyncParam(r, p)
       PROVE  /\ todo'[s] = todo[s] /\ mpc'[s] = mpc[s] /\ delay'[s] = delay[s]
              /\ step_delay'[s] = step_delay[s] /\ handles'[s] = handles[s] /\ pend'[s] = pend[s]
              /\ out'[s] = out[s] /\ param'[s] = param[s] /\ grad'[s] = grad[s] /\ reg'[s] = reg[s]
              /\ buf'[s] = buf[s] /\ warned'[s] = warned[s] /\ made'[s] = made[s] /\ due'[s] = due[s]
              /\ steps'[s] = steps[s] /\ comms'[s] = comms[s]
  BY <1>12 DEF SyncParam
<1> QED
  BY <1>1, <1>2, <1>3, <1>4, <1>5, <1>6, <1>7, <1>8, <1>9, <1>10, <1>11, <1>12 DEF Process

Passes == {"forward", "backward"}

\* In an orderly script nothing is under way at an exchange, nor at a step that
\* skips synchronize().
RankOrder(r) ==
    /\ Paired(todo[r])
    /\ Separated(todo[r], Passes, StepCalls, Exchanges)
    /\ mpc[r] = "run" /\ handles[r] # {} =>
         Before(todo[r], StepCalls, Exchanges) /\ ~HeadIs(r, {"skip_step"})
    /\ mpc[r] = "barrier" /\ HeadIs(r, {"skip_step"}) => handles[r] = {}
OrderInv == \A r \in Rank : RankOrder(r)

LEMMA OrderInit ==
    ASSUME Init, \A r \in Rank : Orderly(setup.script[r])
    PROVE  OrderInv
BY DEF Init, Orderly, OrderInv, RankOrder, Passes

LEMMA ReturnOrder ==
    ASSUME ControlType, NEW r \in Rank, RankOrder(r), todo[r] # <<>>, todo'[r] = Tail(todo[r]),
           mpc'[r] = "run",
           \/ handles'[r] = {}
           \/ Head(todo[r]).op \in Passes
           \/ mpc[r] = "run" /\ handles'[r] = handles[r] /\ Head(todo[r]).op \in {"eval", "zero_grad"}
    PROVE  RankOrder(r)'
<1>1. todo[r] \in Seq(Call)
  BY DEF ControlType
<1>2. Paired(todo[r]) /\ Separated(todo[r], Passes, StepCalls, Exchanges)
  BY DEF RankOrder
<1>3. Paired(todo'[r]) /\ Separated(todo'[r], Passes, StepCalls, Exchanges)
  BY <1>1, <1>2, PairedTail, SeparatedTail
<1>4. ASSUME handles'[r] # {}
      PROVE  Before(todo'[r], StepCalls, Exchanges)
  <2>1. CASE Head(todo[r]).op \in Passes
    BY <1>1, <1>2, <2>1, SeparatedTail
  <2>2. CASE Head(todo[r]).op \notin Passes
    <3>1. mpc[r] = "run" /\ handles[r] # {} /\ Head(todo[r]).op \in {"eval", "zero_grad"}
      BY <1>4, <2>2
    <3>2. Before(todo[r], StepCalls, Exchanges) /\ Head(todo[r]).op \notin StepCalls
      BY <3>1 DEF RankOrder, StepCalls
    <3> QED
      BY <1>1, <3>2, BeforeTail
  <2> QED
    BY <2>1, <2>2
<1>5. ASSUME handles'[r] # {}, todo'[r] # <<>>
      PROVE  Head(todo'[r]).op # "skip_step"
  <2>1. Head(todo[r]).op # "synchronize"
    BY <1>5 DEF Passes
  <2> QED
    BY <1>1, <1>2, <1>5, <2>1, PairedTail
<1> QED
  BY <1>3, <1>4, <1>5 DEF RankOrder, HeadIs

LEMMA OrderProcess ==
    ASSUME TypeInv, OrderInv, NEW r \in Rank, Process(r)
    PROVE  OrderInv'
<1> USE DEF TypeInv, Now
<1>1. ASSUME NEW s \in Rank, s # r
      PROVE  RankOrder(s)'
  BY <1>1, Others DEF OrderInv, RankOrder, HeadIs
<1> SUFFICES RankOrder(r)'
  BY <1>1 DEF OrderInv
<1>2. RankOrder(r) /\ mpc \in [Rank -> {"run", "barrier", "wait", "failed"}]
      /\ todo \in [Rank -> Seq(Call)] /\ handles \in [Rank -> SUBSET Param]
  BY DEF OrderInv, ControlType
<1>3. ASSUME todo'[r] = todo[r], mpc'[r] \in {"wait", "failed"}
      PROVE  RankOrder(r)'
  BY <1>2, <1>3 DEF RankOrder
<1>4. CASE Forward(r)
  BY <1>2, <1>4, ReturnOrder DEF Forward, Return, Passes
<1>5. CASE EvalForward(r)
  BY <1>2, <1>5, ReturnOrder DEF EvalForward, Return
<1>6. CASE Backward(r)
  BY <1>2, <1>6, ReturnOrder DEF Backward, Return, Passes
<1>7. CASE AtcBackward(r)
  BY <1>2, <1>3, <1>7, ReturnOrder DEF AtcBackward, Return, Passes
<1>8. CASE ZeroGrad(r)
  BY <1>2, <1>3, <1>8, ReturnOrder DEF ZeroGrad, Return
<1>9. CASE Synchronize(r)
  BY <1>2, <1>3, <1>9 DEF Synchronize, StartSynchronize
<1>10. CASE Step(r)
  <2>1. CASE force_barrier
    <3>1. mpc'[r] = "barrier" /\ todo' = todo /\ handles' = handles /\ mpc[r] = "run"
      BY <1>2, <1>10, <2>1 DEF Step
    <3> QED
      BY <1>2, <3>1 DEF RankOrder, HeadIs
  <2>2. CASE ~force_barrier
    <3>1. mpc'[r] = "wait" /\ todo' = todo
      BY <1>2, <1>10, <2>2 DEF Step, StartSynchronize
    <3> QED
      BY <1>3, <3>1
  <2> QED
    BY <2>1, <2>2
<1>11. CASE LeaveBarrier(r)
  <2>1. CASE Head(todo[r]).op = "step"
    BY <1>2, <1>3, <1>11, <2>1 DEF LeaveBarrier, StartSynchronize
  <2>2. CASE Head(todo[r]).op # "step"
    <3>1. HeadIs(r, {"skip_step"}) /\ handles[r] = {}
      BY <1>11, <2>2, <1>2 DEF LeaveBarrier, CallInv, StepCalls, HeadIs, RankOrder
    <3> QED
      BY <1>2, <1>11, <2>2, <3>1, ReturnOrder DEF LeaveBarrier, StepDone, Return, HeadIs
  <2> QED
    BY <2>1, <2>2
<1>12. CASE SkipStep(r)
  <2>1. handles[r] = {}
    BY <1>2, <1>12 DEF SkipStep, RankOrder, HeadIs
  <2> QED
    BY <1>2, <1>12, <2>1, ReturnOrder DEF SkipStep, StepDone, Return
<1>13. CASE AtcStep(r)
  <2>1. CASE handles[r] = {}
    BY <1>2, <1>13, <2>1, ReturnOrder DEF AtcStep, StepDone, Return
  <2>2. CASE handles[r] # {}
    BY <1>2, <1>3, <1>13, <2>2 DEF AtcStep, StartSynchronize
  <2> QED
    BY <2>1, <2>2
<1>14. CASE EndSynchronize(r)
  <2>1. handles[r] = {} /\ todo[r] # <<>> /\ handles' = handles
    BY <1>14 DEF EndSynchronize, CallInv
  <2> QED
    BY <1>2, <1>14, <2>1, ReturnOrder DEF EndSynchronize, StepDone, Return
<1>15. ASSUME NEW p \in Param, SyncParam(r, p)
       PROVE  RankOrder(r)'
  BY <1>2, <1>3, <1>15 DEF SyncParam
<1> QED
  BY <1>4, <1>5, <1>6, <1>7, <1>8, <1>9, <1>10, <1>11, <1>12, <1>13, <1>14, <1>15 DEF Process

LEMMA OrderExchange ==
    ASSUME ControlType, OrderInv, NEW op \in Exchanges, \A r \in Rank : Now(r, op),
           todo' = [r \in Rank |-> Tail(todo[r])], UNCHANGED <<mpc, handles>>
    PROVE  OrderInv' /\ \A r \in Rank : handles[r] = {}
<1> SUFFICES ASSUME NEW r \in Rank PROVE RankOrder(r)' /\ handles[r] = {}
  BY DEF OrderInv
<1>1. mpc[r] = "run" /\ todo[r] # <<>> /\ Head(todo[r]).op \in Exchanges /\ todo[r] \in Seq(Call)
  BY DEF Now, ControlType
<1>2. RankOrder(r)
  BY DEF OrderInv
<1>3. handles[r] = {}
  BY <1>1, <1>2, BeforeTail DEF RankOrder
<1> QED
  BY <1>1, <1>2, <1>3, ReturnOrder

LEMMA OrderStep == TypeInv /\ OrderInv /\ [Next]_vars => OrderInv'
<1> SUFFICES ASSUME TypeInv, OrderInv, [Next]_vars PROVE OrderInv'
  OBVIOUS
<1>1. CASE BroadcastParameters \/ AllreduceParameters \/ BroadcastOptimizerState
  BY <1>1, OrderExchange
     DEF BroadcastParameters, AllreduceParameters, ExchangeParameters, BroadcastOptimizerState,
         Exchanges, TypeInv
<1>2. ASSUME UNCHANGED <<mpc, todo, handles>> PROVE OrderInv'
  BY <1>2 DEF OrderInv, RankOrder, HeadIs
<1>3. CASE UNCHANGED vars
  BY <1>2, <1>3 DEF vars
<1> QED
  BY <1>1, <1>2, <1>3, OrderProcess DEF Next, Terminating, Communication, Collective, OneSided

-----------------------------------------------------------------------------
(* Adapt then combine: the two counts run together until the optimizer warns *)

RankAtc(r) ==
    /\ mpc[r] # "barrier"
    /\ ~warned[r] /\ mpc[r] = "run" /\ todo[r] # <<>> /\ Head(todo[r]).op # "skip_step" =>
         \A p \in Param : /\ step_delay[r][p] = delay[r][p]
                          /\ p \in handles[r] => delay[r][p] = 0
    /\ ~warned[r] /\ mpc[r] = "wait" /\ HeadIs(r, {"step"}) =>
         \A p \in Param : /\ step_delay[r][p] = J
                          /\ p \notin handles[r] => delay[r][p] = J
AtcInv == cls = "atc" => \A r \in Rank : RankAtc(r)

LEMMA AtcInit == Init => AtcInv
BY DEF Init, AtcInv, RankAtc, HeadIs

LEMMA AtcProcess ==
    ASSUME TypeInv, HandleInv, OrderInv, AtcInv, NEW r \in Rank, Process(r)
    PROVE  AtcInv'
<1> USE DEF Now
<1>1. setup' = setup
  BY DEF Process, Forward, EvalForward, Backward, AtcBackward, ZeroGrad, Synchronize, Step,
         LeaveBarrier, SkipStep, AtcStep, EndSynchronize, SyncParam
<1>2. SUFFICES ASSUME cls = "atc" PROVE RankAtc(r)'
  <2>1. ASSUME NEW s \in Rank, s # r, cls = "atc" PROVE RankAtc(s)'
    BY <1>1, <2>1, Others DEF TypeInv, AtcInv, RankAtc, HeadIs, J
  <2> QED
    BY <1>1, <2>1 DEF AtcInv, cls
<1>3. /\ RankAtc(r) /\ todo[r] \in Seq(Call) /\ J' = J /\ J \in Int
      /\ mpc \in [Rank -> {"run", "barrier", "wait", "failed"}] /\ todo \in [Rank -> Seq(Call)]
      /\ handles \in [Rank -> SUBSET Param] /\ warned \in [Rank -> BOOLEAN]
      /\ delay \in [Rank -> [Param -> Int]] /\ step_delay \in [Rank -> [Param -> Int]]
  BY <1>1, <1>2, SetupFacts DEF AtcInv, TypeInv, ControlType, J
<1>4. ASSUME mpc'[r] = "failed" \/ (mpc'[r] = "wait" /\ ~HeadIs(r, {"step"})')
      PROVE  RankAtc(r)'
  BY <1>4 DEF RankAtc
<1>5. ASSUME mpc[r] = "run", todo[r] # <<>>, Head(todo[r]).op # "skip_step", mpc' = mpc,
             UNCHANGED <<delay, step_delay, handles, warned>>
      PROVE  RankAtc(r)'
  BY <1>3, <1>5 DEF RankAtc
<1>6. CASE Forward(r)
  BY <1>2, <1>5, <1>6 DEF Forward, ForwardHooked
<1>7. CASE EvalForward(r)
  BY <1>5, <1>7 DEF EvalForward
<1>8. CASE Backward(r)
  BY <1>2, <1>8 DEF Backward
<1>9. CASE AtcBackward(r)
  <2>1. CASE ~setup.func
    BY <1>3, <1>4, <1>9, <2>1 DEF AtcBackward
  <2>2. CASE setup.func
    <3> DEFINE ps == Head(todo[r]).used
    <3>1. ps \in SUBSET Param /\ todo[r] # <<>> /\ Head(todo[r]).op = "backward"
      BY <1>3, <1>9, CallFacts DEF AtcBackward
    <3>2. /\ RunHooks(r, ps) /\ step_delay' = [step_delay EXCEPT ![r] = Count(@, ps)]
          /\ mpc[r] = "run" /\ mpc' = mpc
      BY <1>9, <2>2 DEF AtcBackward
    <3> HIDE DEF ps
    <3>3. ASSUME NEW p \in Param
          PROVE  /\ delay'[r][p] = IF p \in ps THEN delay[r][p] - 1 ELSE delay[r][p]
                 /\ step_delay'[r][p] = IF p \in ps THEN step_delay[r][p] - 1 ELSE step_delay[r][p]
                 /\ p \in handles'[r] <=> p \in handles[r] \/ (p \in ps /\ delay[r][p] = 1)
      BY <1>3, <3>2 DEF RunHooks, Count, Started
    <3>4. ASSUME ~warned'[r]
          PROVE  ~warned[r] /\ \A p \in ps : delay[r][p] > 0
      <4>1. warned'[r] = (warned[r] \/ Overrun(r, ps))
        BY <1>3, <3>2, Zenon DEF RunHooks
      <4>2. ~warned[r] /\ ~Overrun(r, ps)
        BY <3>4, <4>1
      <4>3. \A p \in ps : delay[r][p] \in Int /\ ~(delay[r][p] <= 0)
        BY <1>3, <3>1, <4>2 DEF Overrun
      <4> QED
        BY <4>2, <4>3
    <3>5. ASSUME ~warned'[r], NEW p \in Param
          PROVE  step_delay'[r][p] = delay'[r][p] /\ (p \in handles'[r] => delay'[r][p] = 0)
      <4>1. step_delay[r][p] = delay[r][p] /\ (p \in handles[r] => delay[r][p] = 0)
        BY <1>3, <3>1, <3>2, <3>4, <3>5 DEF RankAtc
      <4>2. delay[r][p] \in Int
        BY <1>3
      <4> QED
        BY <3>3, <3>4, <3>5, <4>1, <4>2
    <3> QED
      BY <3>2, <3>5 DEF RankAtc
  <2> QED
    BY <2>1, <2>2
<1>10. CASE ZeroGrad(r)
  BY <1>3, <1>4, <1>5, <1>10 DEF ZeroGrad
<1>11. CASE Synchronize(r)
  BY <1>3, <1>4, <1>11 DEF Synchronize, StartSynchronize, HeadIs
<1>12. CASE Step(r)
  BY <1>2, <1>12 DEF Step
<1>13. CASE LeaveBarrier(r)
  BY <1>3, <1>13 DEF LeaveBarrier, RankAtc
<1>14. CASE SkipStep(r)
  BY <1>2, <1>14 DEF SkipStep
<1>15. CASE AtcStep(r)
  <2>1. mpc[r] = "run" /\ todo[r] # <<>> /\ Head(todo[r]).op = "step" /\ UNCHANGED <<delay, warned>>
    BY <1>15 DEF AtcStep
  <2>2. CASE handles[r] = {}
    BY <1>5, <1>15, <2>1, <2>2 DEF AtcStep
  <2>3. CASE handles[r] # {} /\ \A p \in Param : step_delay[r][p] # 0
    <3>1. PICK p \in Param : p \in handles[r]
      BY <1>3, <2>3
    <3>2. warned[r]
      BY <1>3, <2>1, <2>3, <3>1 DEF RankAtc
    <3>3. mpc'[r] = "wait" /\ warned'[r]
      BY <1>3, <1>15, <2>1, <2>3, <3>1, <3>2 DEF AtcStep, StartSynchronize
    <3> QED
      BY <3>3 DEF RankAtc
  <2>4. CASE handles[r] # {} /\ \A p \in Param : step_delay[r][p] = 0
    <3>0. \E p \in Param : step_delay[r][p] = 0
      BY <1>3, <2>4
    <3>1. /\ step_delay' = [step_delay EXCEPT ![r] = [p \in Param |-> J]]
          /\ StartSynchronize(r)
      BY <1>15, <2>4, <3>0 DEF AtcStep
    <3>2. ASSUME ~warned'[r], NEW p \in Param
          PROVE  step_delay'[r][p] = J /\ p \in handles'[r]
      <4>1. delay[r][p] = 0
        BY <1>3, <2>1, <2>4, <3>2 DEF RankAtc
      <4>2. p \in handles[r]
        BY <4>1 DEF HandleInv
      <4>3. handles'[r] = handles[r] \cup Missing(r)
        BY <1>3, <3>1 DEF StartSynchronize
      <4>4. step_delay'[r] = [q \in Param |-> J]
        BY <1>3, <3>1
      <4> QED
        BY <4>2, <4>3, <4>4
    <3>3. mpc'[r] = "wait"
      BY <1>3, <3>1 DEF StartSynchronize
    <3> QED
      BY <1>3, <3>2, <3>3 DEF RankAtc
  <2>5. CASE handles[r] # {} /\ \E p, q \in Param : step_delay[r][p] = 0 /\ step_delay[r][q] # 0
    BY <1>3, <1>4, <1>15, <2>5 DEF AtcStep
  <2> QED
    BY <2>2, <2>3, <2>4, <2>5
<1>16. CASE EndSynchronize(r)
  <2>1. /\ mpc[r] = "wait" /\ handles[r] = {} /\ handles'[r] = {} /\ mpc'[r] = "run"
        /\ UNCHANGED <<delay, step_delay, warned>> /\ todo[r] # <<>> /\ todo'[r] = Tail(todo[r])
        /\ Head(todo[r]).op \in {"step", "synchronize"}
    BY <1>3, <1>16 DEF EndSynchronize, StepDone, Return, CallInv, TypeInv
  <2>2. CASE Head(todo[r]).op = "step"
    BY <1>3, <2>1, <2>2 DEF RankAtc, HeadIs
  <2>3. CASE Head(todo[r]).op = "synchronize"
    <3>1. todo'[r] # <<>> => Head(todo'[r]).op = "skip_step"
      BY <1>3, <2>1, <2>3, PairedTail DEF OrderInv, RankOrder
    <3> QED
      BY <2>1, <3>1 DEF RankAtc
  <2> QED
    BY <2>1, <2>2, <2>3
<1>17. ASSUME NEW p \in Param, SyncParam(r, p)
       PROVE  RankAtc(r)'
  <2>1. \A q \in Param : /\ delay'[r][q] = IF q = p THEN J ELSE delay[r][q]
                         /\ q \in handles'[r] <=> q \in handles[r] /\ q # p
    BY <1>3, <1>17 DEF SyncParam
  <2>2. UNCHANGED <<mpc, todo, step_delay, warned>> /\ mpc[r] = "wait"
    BY <1>17 DEF SyncParam
  <2> QED
    BY <1>3, <2>1, <2>2 DEF RankAtc, HeadIs
<1> QED
  BY <1>6, <1>7, <1>8, <1>9, <1>10, <1>11, <1>12, <1>13, <1>14, <1>15, <1>16, <1>17 DEF Process

LEMMA AtcInvStep == TypeInv /\ HandleInv /\ OrderInv /\ AtcInv /\ [Next]_vars => AtcInv'
<1> SUFFICES ASSUME TypeInv, HandleInv, OrderInv, AtcInv, [Next]_vars PROVE AtcInv'
  OBVIOUS
<1>1. ASSUME UNCHANGED <<setup, mpc, todo, delay, step_delay, handles, warned>> PROVE AtcInv'
  BY <1>1 DEF AtcInv, RankAtc, HeadIs, J, cls
<1>2. ASSUME NEW op \in Exchanges, \A r \in Rank : Now(r, op),
             UNCHANGED <<setup, mpc, delay, step_delay, handles, warned>>
      PROVE  AtcInv'
  <2>1. \A r \in Rank : mpc[r] = "run" /\ todo[r] # <<>> /\ Head(todo[r]).op # "skip_step"
    BY <1>2 DEF Now, Exchanges
  <2> QED
    BY <1>2, <2>1 DEF AtcInv, RankAtc, HeadIs, J, cls
<1>3. CASE BroadcastParameters \/ AllreduceParameters \/ BroadcastOptimizerState
  BY <1>2, <1>3
     DEF BroadcastParameters, AllreduceParameters, ExchangeParameters, BroadcastOptimizerState,
         Exchanges
<1>4. CASE UNCHANGED vars
  BY <1>1, <1>4 DEF vars
<1> QED
  BY <1>1, <1>3, <1>4, AtcProcess DEF Next, Terminating, Communication, Collective, OneSided

-----------------------------------------------------------------------------
(* What an operation may be reading is left alone *)

LEMMA HooksWarn ==
    ASSUME ControlType, NEW r \in Rank, NEW ps \in SUBSET Param, RunHooks(r, ps),
           NEW p \in ps, delay[r][p] <= 0
    PROVE  warned'[r]
<1>1. warned'[r] = (warned[r] \/ Overrun(r, ps))
  BY Zenon DEF RunHooks, ControlType
<1>2. Overrun(r, ps)
  BY DEF Overrun
<1> QED
  BY <1>1, <1>2

\* What the optimizer communicates: gradients or parameters. Push-sum sends
\* copies of the parameters, the other classes send these tensors themselves.
Kept(r) == IF cls = "gradient" THEN grad[r] ELSE param[r]

LEMMA KeptTensor ==
    /\ cls # "push_sum" => \A r \in Rank : Tensor(r) = Kept(r)
    /\ cls = "push_sum" => \A r \in Rank : Tensor(r) = out[r]
<1>1. cls = "push_sum" => cls # "gradient"
  OBVIOUS
<1> QED
  BY <1>1, Zenon DEF Tensor, Kept

\* As long as a parameter has a handle, its tensor stays as it is.
LEMMA HandledProcess ==
    ASSUME TypeInv, HandleInv, OrderInv, AtcInv, NEW r \in Rank, Process(r),
           NEW s \in Rank, NEW p \in Param, p \in handles[s], p \in handles'[s],
           Kept(s)[p]' # Kept(s)[p]
    PROVE  warned'[s] /\ cls \in {"gradient", "atc"}
<1> USE DEF Now
<1>1. setup' = setup
  BY DEF Process, Forward, EvalForward, Backward, AtcBackward, ZeroGrad, Synchronize, Step,
         LeaveBarrier, SkipStep, AtcStep, EndSynchronize, SyncParam
<1>2. s = r
  BY <1>1, Others DEF Kept, TypeInv, cls
<1>3. /\ p \in handles'[r] /\ p \in handles[r] /\ handles[r] # {}
      /\ cls = "gradient" => grad'[r][p] # grad[r][p]
      /\ cls # "gradient" => param'[r][p] # param[r][p]
      /\ todo[r] \in Seq(Call)
  BY <1>1, <1>2 DEF Kept, TypeInv, CallInv, cls, ControlType
<1>4. /\ mpc \in [Rank -> {"run", "barrier", "wait", "failed"}] /\ todo \in [Rank -> Seq(Call)]
      /\ handles \in [Rank -> SUBSET Param] /\ warned \in [Rank -> BOOLEAN]
      /\ grad \in [Rank -> Tensors] /\ param \in [Rank -> Tensors]
  BY DEF TypeInv, ControlType, DataType
<1>5. CASE Forward(r)
  BY <1>3, <1>5 DEF Forward
<1>6. CASE EvalForward(r)
  BY <1>3, <1>6 DEF EvalForward
<1>7. CASE Backward(r)
  <2> DEFINE ps == Head(todo[r]).used
  <2>1. cls = "gradient" /\ ps \in SUBSET Param /\ grad' = Accumulate(grad, r, ps, Fresh(r))
    BY <1>3, <1>7, CallFacts DEF Backward
  <2>2. RunHooks(r, ps) /\ mpc[r] = "run"
    BY <1>7, <2>1 DEF Backward
  <2> HIDE DEF ps
  <2>3. p \in ps
    BY <1>3, <1>4, <2>1 DEF Accumulate, Tensors
  <2>4. delay[r][p] <= 0
    BY <1>3, <2>2 DEF HandleInv
  <2> QED
    BY <1>2, <2>1, <2>2, <2>3, <2>4, HooksWarn DEF TypeInv
<1>8. CASE AtcBackward(r)
  <2> DEFINE ps == Head(todo[r]).used
             now == {q \in ps : step_delay[r][q] = 1}
  <2>1. cls = "atc" /\ cls # "gradient" /\ ps \in SUBSET Param
    BY <1>3, <1>8, CallFacts DEF AtcBackward
  <2>2. setup.func /\ mpc[r] = "run"
    BY <1>3, <1>8, <2>1 DEF AtcBackward
  <2>3. RunHooks(r, ps) /\ param' = [param EXCEPT ![r] = StepFunc(@, now, Fresh(r))]
    BY <1>8, <2>2 DEF AtcBackward
  <2>4. p \in ps
    BY <1>3, <1>4, <2>1, <2>3 DEF StepFunc
  <2> HIDE DEF ps, now
  <2>5. delay[r][p] <= 0
    BY <1>3, <2>2 DEF HandleInv
  <2> QED
    BY <1>2, <2>1, <2>3, <2>4, <2>5, HooksWarn DEF TypeInv
<1>9. CASE ZeroGrad(r)
  <2>1. cls = "gradient"
    BY <1>3, <1>9 DEF ZeroGrad
  <2>2. ZeroGradRefused(r)
    BY <1>3, <2>1 DEF ZeroGradRefused
  <2> QED
    BY <1>3, <1>9, <2>1, <2>2 DEF ZeroGrad
<1>10. CASE Synchronize(r)
  BY <1>3, <1>10 DEF Synchronize
<1>11. CASE Step(r)
  BY <1>3, <1>11 DEF Step
<1>12. CASE LeaveBarrier(r)
  <2>1. Head(todo[r]).op # "step"
    BY <1>3, <1>12 DEF LeaveBarrier
  <2>2. HeadIs(r, {"skip_step"}) /\ mpc[r] = "barrier"
    BY <1>12, <2>1 DEF LeaveBarrier, TypeInv, CallInv, StepCalls, HeadIs
  <2> QED
    BY <1>3, <2>2 DEF OrderInv, RankOrder
<1>13. CASE SkipStep(r)
  <2>1. HeadIs(r, {"skip_step"}) /\ mpc[r] = "run"
    BY <1>13 DEF SkipStep, HeadIs
  <2> QED
    BY <1>3, <2>1 DEF OrderInv, RankOrder
<1>14. CASE AtcStep(r)
  <2>1. /\ mpc[r] = "run" /\ todo[r] # <<>> /\ Head(todo[r]).op = "step" /\ cls = "atc"
        /\ \A q \in Param : step_delay[r][q] # 0
        /\ warned' = warned
    BY <1>3, <1>14 DEF AtcStep
  <2>2. step_delay[r][p] # 0
    BY <2>1
  <2> QED
    BY <1>2, <1>3, <2>1, <2>2 DEF AtcInv, RankAtc
<1>15. CASE EndSynchronize(r)
  BY <1>3, <1>15 DEF EndSynchronize
<1>16. ASSUME NEW q \in Param, SyncParam(r, q)
       PROVE  FALSE
  <2>1. q # p
    BY <1>3, <1>4, <1>16 DEF SyncParam
  <2> QED
    BY <1>3, <1>4, <1>16, <2>1 DEF SyncParam, Tensors
<1> QED
  BY <1>5, <1>6, <1>7, <1>8, <1>9, <1>10, <1>11, <1>12, <1>13, <1>14, <1>15, <1>16 DEF Process

LEMMA HandledCommunication ==
    ASSUME TypeInv, OrderInv, Communication, NEW s \in Rank, NEW p \in Param, p \in handles[s]
    PROVE  Kept(s)[p]' = Kept(s)[p]
<1>2. ASSUME BroadcastParameters \/ AllreduceParameters \/ BroadcastOptimizerState
      PROVE  FALSE
  BY <1>2, OrderExchange
     DEF BroadcastParameters, AllreduceParameters, ExchangeParameters, BroadcastOptimizerState,
         Exchanges, TypeInv
<1> QED
  BY <1>2 DEF Communication, Collective, OneSided, Kept, cls

\* A job keeps its optimizer and its scripts.
LEMMA SetupKept == [Next]_vars => setup' = setup
<1> SUFFICES ASSUME [Next]_vars PROVE setup' = setup
  OBVIOUS
<1>1. ASSUME NEW r \in Rank, Process(r) PROVE setup' = setup
  BY <1>1 DEF Process, Forward, EvalForward, Backward, AtcBackward, ZeroGrad, Synchronize, Step,
              LeaveBarrier, SkipStep, AtcStep, EndSynchronize, SyncParam
<1>2. CASE Communication
  BY <1>2 DEF Communication, BroadcastParameters, AllreduceParameters, ExchangeParameters,
              BroadcastOptimizerState, Collective, OneSided
<1>3. CASE UNCHANGED vars
  BY <1>3 DEF vars
<1> QED
  BY <1>1, <1>2, <1>3 DEF Next, Terminating

\* The copy that push-sum sends is still the parameter.
CopyInv ==
    cls = "push_sum" => \A r \in Rank, p \in Param : p \in handles[r] => out[r][p] = param[r][p]

\* A handle of push-sum is new only in a forward pass, which makes the copy.
LEMMA CopyForward ==
    ASSUME TypeInv, CopyInv, cls = "push_sum", NEW r \in Rank, Forward(r),
           NEW p \in Param, p \in handles'[r]
    PROVE  out'[r][p] = param'[r][p]
<1>0. out \in [Rank -> Tensors] /\ handles \in [Rank -> SUBSET Param]
  BY DEF TypeInv, ControlType, DataType
<1>1. RunHooks(r, Param) /\ out' = [out EXCEPT ![r] = Copied(r, Param)] /\ param' = param
  BY DEF Forward, ForwardHooked
<1>2. handles'[r] = handles[r] \cup Started(r, Param)
  BY <1>0, <1>1 DEF RunHooks
<1>3. out'[r][p] = IF p \in Started(r, Param) THEN param[r][p] ELSE out[r][p]
  BY <1>0, <1>1 DEF Copied
<1> QED
  BY <1>1, <1>2, <1>3 DEF CopyInv

LEMMA CopyElse ==
    ASSUME TypeInv, cls = "push_sum", NEW r \in Rank, Process(r), ~Forward(r)
    PROVE  out' = out /\ \A s \in Rank : handles'[s] \subseteq handles[s]
<1>0. handles \in [Rank -> SUBSET Param]
  BY DEF TypeInv, ControlType
<1>1. ASSUME StartSynchronize(r) PROVE handles' = handles
  BY <1>0, <1>1 DEF StartSynchronize, Missing
<1>2. ASSUME NEW p \in Param, SyncParam(r, p)
      PROVE  out' = out /\ \A s \in Rank : handles'[s] \subseteq handles[s]
  BY <1>0, <1>2 DEF SyncParam
<1>3. CASE EvalForward(r) \/ Backward(r) \/ AtcBackward(r) \/ ZeroGrad(r) \/ SkipStep(r) \/ AtcStep(r)
           \/ EndSynchronize(r)
  BY <1>3 DEF EvalForward, Backward, AtcBackward, ZeroGrad, SkipStep, AtcStep, EndSynchronize
<1>4. CASE Synchronize(r) \/ Step(r) \/ LeaveBarrier(r)
  BY <1>1, <1>4 DEF Synchronize, Step, LeaveBarrier
<1> QED
  BY <1>2, <1>3, <1>4 DEF Process

LEMMA CopyStep ==
    TypeInv /\ HandleInv /\ OrderInv /\ AtcInv /\ CopyInv /\ [Next]_vars => CopyInv'
<1> SUFFICES ASSUME TypeInv, HandleInv, OrderInv, AtcInv, CopyInv, [Next]_vars PROVE CopyInv'
  OBVIOUS
<1>0. setup' = setup
  BY SetupKept
<1>1. SUFFICES ASSUME cls = "push_sum", NEW s \in Rank, NEW p \in Param, p \in handles'[s]
               PROVE  out'[s][p] = param'[s][p]
  BY <1>0 DEF CopyInv, cls
<1>2. ASSUME p \in handles[s], out'[s] = out[s], Kept(s)[p]' = Kept(s)[p]
      PROVE  out'[s][p] = param'[s][p]
  <2>1. param'[s][p] = param[s][p]
    BY <1>0, <1>1, <1>2 DEF Kept, cls
  <2> QED
    BY <1>1, <1>2, <2>1 DEF CopyInv
<1>3. ASSUME NEW r \in Rank, Process(r) PROVE out'[s][p] = param'[s][p]
  <2>1. ASSUME p \in handles[s] PROVE Kept(s)[p]' = Kept(s)[p]
    BY <1>1, <1>3, <2>1, HandledProcess
  <2>2. CASE Forward(r) /\ s = r
    BY <1>1, <2>2, CopyForward
  <2>3. CASE Forward(r) /\ s # r
    <3>1. out'[s] = out[s] /\ handles'[s] = handles[s]
      BY <1>3, <2>3, Others DEF TypeInv
    <3> QED
      BY <1>1, <1>2, <2>1, <3>1
  <2>4. CASE ~Forward(r)
    BY <1>1, <1>2, <1>3, <2>1, <2>4, CopyElse
  <2> QED
    BY <2>2, <2>3, <2>4
<1>4. CASE Communication
  <2>1. UNCHANGED <<out, handles>>
    BY <1>1, <1>4 DEF Communication, BroadcastParameters, AllreduceParameters, ExchangeParameters,
                      BroadcastOptimizerState, Collective, OneSided
  <2> QED
    BY <1>1, <1>2, <1>4, <2>1, HandledCommunication
<1>5. CASE UNCHANGED vars
  BY <1>1, <1>2, <1>5 DEF vars, Kept, cls
<1> QED
  BY <1>3, <1>4, <1>5 DEF Next, Terminating

OrderlyInv == TypeInv /\ HandleInv /\ OrderInv /\ AtcInv /\ CopyInv

\* The scripts of this job are orderly.
OrderlyJob == \A r \in Rank : Orderly(setup.script[r])

LEMMA OrderlyInit == Init /\ OrderlyJob => OrderlyInv
<1>1. Init => CopyInv
  BY DEF Init, CopyInv
<1> QED
  BY <1>1, TypeInit, HandleInit, OrderInit, AtcInit DEF OrderlyInv, OrderlyJob

LEMMA OrderlyStep == OrderlyInv /\ [Next]_vars => OrderlyInv'
BY TypeStep, HandleStep, OrderStep, AtcInvStep, CopyStep DEF OrderlyInv

-----------------------------------------------------------------------------
(* Theorems *)

\* A tensor that a nonblocking operation of the optimizer may be reading is
\* not written before the operation is done, unless the optimizer has warned:
\* for every class, every communication, every number of ranks and parameters
\* and every num_steps_per_communication, as long as the scripts exchange
\* parameters and optimizer states outside of a pass and its step, and skip
\* synchronize() in a step only right after they have called it.
THEOREM InFlightTensorsUntouched ==
    ASSUME \A s \in Setups, r \in Rank : Orderly(s.script[r])
    PROVE  Spec => InFlightUntouched
<1> DEFINE Safe == \A r \in Rank, p \in Param :
                      p \in pend[r] /\ p \in pend'[r] /\ Tensor(r)[p]' # Tensor(r)[p] => warned'[r]
<1>1. OrderlyInv /\ [Next]_vars => [Safe]_vars
  <2> SUFFICES ASSUME OrderlyInv, Next PROVE Safe
    OBVIOUS
  <2>0. /\ \A r \in Rank : pend[r] \subseteq handles[r]
        /\ \A r \in Rank : pend'[r] \subseteq handles'[r]
    BY TypeStep DEF OrderlyInv, TypeInv, CallInv
  <2> DEFINE SafeKept == \A r \in Rank, p \in Param :
                           p \in handles[r] /\ p \in handles'[r] /\ Kept(r)[p]' # Kept(r)[p]
                           => warned'[r] /\ cls # "push_sum"
  <2>1. ASSUME NEW r \in Rank, Process(r) PROVE SafeKept
    BY <2>1, HandledProcess DEF OrderlyInv
  <2>2. ASSUME Communication PROVE SafeKept
    BY <2>2, HandledCommunication DEF OrderlyInv
  <2>3. ASSUME UNCHANGED vars PROVE SafeKept
    BY <2>3 DEF vars, Kept, cls
  <2>4. SafeKept
    BY <2>1, <2>2, <2>3 DEF Next, Terminating
  <2> HIDE DEF SafeKept
  <2>5. setup' = setup
    BY SetupKept
  <2>6. CASE cls # "push_sum"
    <3>1. (cls # "push_sum")' /\ \A r \in Rank : Tensor(r) = Kept(r)
      BY <2>5, <2>6, KeptTensor DEF cls
    <3>2. \A r \in Rank : Tensor(r)' = Kept(r)'
      BY <3>1, Zenon DEF Tensor, Kept
    <3> QED
      BY <2>0, <2>4, <3>1, <3>2 DEF SafeKept
  <2>7. CASE cls = "push_sum"
    <3>1. (cls = "push_sum")' /\ \A r \in Rank : Tensor(r) = out[r]
      BY <2>5, <2>7, KeptTensor DEF cls
    <3>2. \A r \in Rank : Tensor(r)' = out'[r]
      <4>1. cls' = "push_sum" /\ cls' # "gradient"
        BY <3>1
      <4> QED
        BY <4>1, Zenon DEF Tensor
    <3>3. \A r \in Rank : Kept(r) = param[r] /\ Kept(r)' = param'[r]
      BY <2>5, <2>7 DEF Kept, cls
    <3>4. \A r \in Rank, p \in Param :
             /\ p \in handles[r] => out[r][p] = param[r][p]
             /\ p \in handles'[r] => out'[r][p] = param'[r][p]
      BY <2>5, <2>7, OrderlyStep DEF OrderlyInv, CopyInv, cls
    <3> QED
      BY <2>0, <2>4, <2>7, <3>1, <3>2, <3>3, <3>4 DEF SafeKept
  <2> QED
    BY <2>6, <2>7
<1>2. Init => OrderlyInv
  BY OrderlyInit DEF OrderlyJob, Init
<1> QED
  BY <1>1, <1>2, OrderlyStep, PTL DEF Spec, InFlightUntouched

-----------------------------------------------------------------------------
(* Averaged gradients: the replicas stay together.  A rank is at most one    *)
(* step ahead of another one, and when it is, the other one has what it is   *)
(* going to apply in its gradients, or in the results it is waiting for.     *)

Synced(r) == mpc[r] = "run" /\ HeadIs(r, {"skip_step"})
\* The result of the operation on p is in the gradient and not yet applied.
Got(r, p) == (mpc[r] = "wait" /\ p \notin handles[r]) \/ Synced(r)
\* The operations on p that took place, seen from rank r.
Done(r, p) == comms[r][p] + (IF p \in handles[r] \ pend[r] THEN 1 ELSE 0)

CountsInv ==
    \A r \in Rank, p \in Param :
        /\ mpc[r] # "barrier"
        /\ comms[r][p] = steps[r] + (IF Got(r, p) THEN 1 ELSE 0)
        /\ Got(r, p) => grad[r][p] = out[r][p]

RoundsInv ==
    \A r, s \in Rank, p \in Param : Done(r, p) = Done(s, p) /\ out[r][p] = out[s][p]

\* The first call of every script is broadcast_parameters, and not yet made.
Unbegun == \A r \in Rank :
    /\ mpc[r] \in {"run", "failed"} /\ handles[r] = {} /\ steps[r] = 0
    /\ todo[r] # <<>> => Head(todo[r]).op = "broadcast_parameters"

StepsAligned ==
    \A r, s \in Rank, p \in Param :
        /\ steps[r] = steps[s] => param[r][p] = param[s][p]
        /\ steps[s] = steps[r] + 1 => param[s][p] = param[r][p] \cup out[r][p]

ReplicaInv == cls = "gradient" => CountsInv /\ RoundsInv /\ (Unbegun \/ StepsAligned)

\* Training scripts that begin with a broadcast of the parameters.
Broadcasting(s) == s # <<>> => s[1].op = "broadcast_parameters"

LEMMA ReplicaInit ==
    ASSUME Init, \A r \in Rank : Broadcasting(setup.script[r])
    PROVE  ReplicaInv
<1>0. \A r \in Rank : setup.script[r] \in Seq(Call)
  BY SetupFacts DEF Init
<1>1. Unbegun
  BY <1>0, CallFacts DEF Init, Unbegun, Broadcasting
<1>2. \A r \in Rank : ~HeadIs(r, {"skip_step"})
  BY <1>1 DEF Unbegun, HeadIs
<1>3. CountsInv /\ RoundsInv
  BY <1>2 DEF Init, CountsInv, RoundsInv, Got, Done, Synced
<1> QED
  BY <1>1, <1>3 DEF ReplicaInv

LEMMA DoneBound ==
    ASSUME ControlType, OrderInv, CountsInv, NEW r \in Rank, NEW p \in Param
    PROVE  /\ Done(r, p) \in {steps[r], steps[r] + 1}
           /\ Got(r, p) => p \notin handles[r] /\ Done(r, p) = steps[r] + 1
           /\ steps[r] \in Nat
<1>1. steps[r] \in Nat /\ comms[r][p] \in Nat
  BY DEF ControlType
<1>2. Synced(r) => handles[r] = {}
  BY DEF OrderInv, RankOrder, Synced
<1>3. Got(r, p) => p \notin handles[r]
  BY <1>2 DEF Got
<1>4. comms[r][p] = steps[r] + (IF Got(r, p) THEN 1 ELSE 0)
  BY DEF CountsInv
<1> QED
  BY <1>1, <1>3, <1>4 DEF Done

LEMMA UnbegunStuck ==
    ASSUME Unbegun, NEW r \in Rank, Process(r)
    PROVE  FALSE
BY DEF Unbegun, Now, Process, Forward, EvalForward, Backward, AtcBackward, ZeroGrad, Synchronize,
       Step, LeaveBarrier, SkipStep, AtcStep, EndSynchronize, SyncParam

\* A step of rank r that finishes no operation and applies nothing.
LEMMA ReplicaQuiet ==
    ASSUME TypeInv, CountsInv, RoundsInv, NEW r \in Rank, Process(r),
           UNCHANGED <<comms, steps, out, param>>, mpc'[r] # "barrier",
           \A p \in Param : /\ ~Got(r, p) /\ ~Got(r, p)'
                            /\ p \in handles'[r] \ pend'[r] <=> p \in handles[r] \ pend[r]
    PROVE  CountsInv' /\ RoundsInv' /\ (StepsAligned => StepsAligned')
<1>1. ASSUME NEW s \in Rank, NEW p \in Param
      PROVE  /\ mpc'[s] # "barrier"
             /\ Got(s, p)' <=> Got(s, p)
             /\ Got(s, p) => grad'[s][p] = grad[s][p]
             /\ p \in handles'[s] \ pend'[s] <=> p \in handles[s] \ pend[s]
  <2>1. CASE s = r
    BY <2>1
  <2>2. CASE s # r
    BY <2>2, Others DEF TypeInv, CountsInv, Got, Synced, HeadIs
  <2> QED
    BY <2>1, <2>2
<1>2. CountsInv'
  BY <1>1 DEF CountsInv
<1>3. RoundsInv'
  <2>1. \A s \in Rank, p \in Param : Done(s, p)' = Done(s, p)
    BY <1>1 DEF Done
  <2> QED
    BY <2>1 DEF RoundsInv
<1>4. StepsAligned => StepsAligned'
  BY DEF StepsAligned
<1> QED
  BY <1>2, <1>3, <1>4

\* A step of rank r that applies the averaged gradients.
LEMMA ReplicaApply ==
    ASSUME TypeInv, OrderInv, CountsInv, RoundsInv, StepsAligned, NEW r \in Rank, Process(r),
           \A p \in Param : Got(r, p) /\ ~Got(r, p)',
           param' = [param EXCEPT ![r] = Apply(@, grad[r])],
           steps' = [steps EXCEPT ![r] = @ + 1],
           mpc'[r] = "run",
           UNCHANGED <<comms, handles, pend, out, grad>>
    PROVE  CountsInv' /\ RoundsInv' /\ StepsAligned'
<1>0. /\ steps \in [Rank -> Nat] /\ param \in [Rank -> Tensors] /\ grad \in [Rank -> Tensors]
  BY DEF TypeInv, ControlType, DataType
<1>1. ASSUME NEW s \in Rank, NEW p \in Param, s # r
      PROVE  /\ mpc'[s] # "barrier"
             /\ Got(s, p)' <=> Got(s, p)
             /\ steps'[s] = steps[s] /\ param'[s] = param[s]
  BY <1>1, Others DEF TypeInv, CountsInv, Got, Synced, HeadIs
<1>2. CountsInv'
  <2>1. ASSUME NEW p \in Param PROVE comms'[r][p] = steps'[r]
    BY <1>0, <2>1 DEF CountsInv
  <2> QED
    BY <1>0, <1>1, <2>1 DEF CountsInv
<1>3. RoundsInv'
  <2>1. \A s \in Rank, p \in Param : Done(s, p)' = Done(s, p)
    BY DEF Done
  <2> QED
    BY <2>1 DEF RoundsInv
<1>4. ASSUME NEW p \in Param
      PROVE  param'[r][p] = param[r][p] \cup out[r][p]
  BY <1>0 DEF Apply, CountsInv, Tensors
<1>5. ASSUME NEW s \in Rank, NEW p \in Param, s # r
      PROVE  /\ steps[s] \in {steps[r], steps[r] + 1}
             /\ steps[r] \in Nat /\ steps'[r] = steps[r] + 1 /\ steps[s] \in Nat
             /\ out[r][p] = out[s][p]
  <2>1. Done(r, p) = steps[r] + 1
    BY DoneBound DEF TypeInv
  <2>2. Done(s, p) \in {steps[s], steps[s] + 1} /\ Done(s, p) = Done(r, p) /\ out[r][p] = out[s][p]
    BY DoneBound DEF TypeInv, RoundsInv
  <2>3. steps[r] \in Nat /\ steps'[r] = steps[r] + 1 /\ steps[s] \in Nat
    BY <1>0
  <2> QED
    BY <2>1, <2>2, <2>3
<1>6. ASSUME NEW s \in Rank, NEW q \in Rank, NEW p \in Param
      PROVE  /\ steps'[s] = steps'[q] => param'[s][p] = param'[q][p]
             /\ steps'[q] = steps'[s] + 1 => param'[q][p] = param'[s][p] \cup out'[s][p]
  <2>0. /\ steps[s] = steps[q] => param[s][p] = param[q][p]
        /\ steps[q] = steps[s] + 1 => param[q][p] = param[s][p] \cup out[s][p]
        /\ steps[q] = steps[s] => param[q][p] = param[s][p]
        /\ steps[s] = steps[q] + 1 => param[s][p] = param[q][p] \cup out[q][p]
    BY DEF StepsAligned
  <2>1. CASE s # r /\ q # r
    BY <1>1, <2>0, <2>1
  <2>2. CASE s = r /\ q = r
    BY <1>0, <2>2
  <2>3. CASE s = r /\ q # r
    <3>1. /\ steps[q] \in {steps[r], steps[r] + 1} /\ steps[r] \in Nat /\ steps[q] \in Nat
          /\ steps'[r] = steps[r] + 1 /\ steps'[q] = steps[q] /\ param'[q] = param[q]
      BY <1>1, <1>5, <2>3
    <3>2. steps'[s] = steps'[q] => steps[q] = steps[s] + 1
      BY <2>3, <3>1
    <3>3. steps'[q] # steps'[s] + 1
      BY <2>3, <3>1
    <3> QED
      BY <1>4, <2>0, <2>3, <3>1, <3>2, <3>3
  <2>4. CASE s # r /\ q = r
    <3>1. /\ steps[s] \in {steps[r], steps[r] + 1} /\ steps[r] \in Nat /\ steps[s] \in Nat
          /\ steps'[r] = steps[r] + 1 /\ steps'[s] = steps[s] /\ param'[s] = param[s]
          /\ out[r][p] = out[s][p]
      BY <1>1, <1>5, <2>4
    <3>2. steps'[s] = steps'[q] => steps[s] = steps[q] + 1
      BY <2>4, <3>1
    <3>3. steps'[q] = steps'[s] + 1 => steps[s] = steps[q]
      BY <2>4, <3>1
    <3> QED
      BY <1>4, <2>0, <2>4, <3>1, <3>2, <3>3
  <2> QED
    BY <2>1, <2>2, <2>3, <2>4
<1> QED
  BY <1>2, <1>3, <1>6 DEF StepsAligned

LEMMA ReplicaProcess ==
    ASSUME TypeInv, HandleInv, OrderInv, ReplicaInv, NEW r \in Rank, Process(r)
    PROVE  ReplicaInv'
<1> USE DEF Now
<1>1. setup' = setup
  BY DEF Process, Forward, EvalForward, Backward, AtcBackward, ZeroGrad, Synchronize, Step,
         LeaveBarrier, SkipStep, AtcStep, EndSynchronize, SyncParam
<1>2. SUFFICES ASSUME cls = "gradient", CountsInv, RoundsInv, StepsAligned
               PROVE  CountsInv' /\ RoundsInv' /\ StepsAligned'
  BY <1>1, UnbegunStuck DEF ReplicaInv, cls
<1>3. /\ todo[r] \in Seq(Call) /\ RankOrder(r)
      /\ mpc \in [Rank -> {"run", "barrier", "wait", "failed"}] /\ todo \in [Rank -> Seq(Call)]
      /\ handles \in [Rank -> SUBSET Param] /\ pend \in [Rank -> SUBSET Param]
      /\ comms \in [Rank -> [Param -> Nat]] /\ grad \in [Rank -> Tensors]
      /\ delay \in [Rank -> [Param -> Int]]
  BY DEF TypeInv, ControlType, DataType, OrderInv
<1>4. ASSUME mpc[r] = "run", todo[r] # <<>>, Head(todo[r]).op # "skip_step", NEW p \in Param
      PROVE  ~Got(r, p)
  BY <1>4 DEF Got, Synced, HeadIs
<1>5. ASSUME todo[r] # <<>>, Head(todo[r]).op # "synchronize", todo' = [todo EXCEPT ![r] = Tail(@)],
             mpc'[r] = "run", NEW p \in Param
      PROVE  ~Got(r, p)'
  <2>1. todo'[r] # <<>> => Head(todo'[r]).op # "skip_step"
    BY <1>3, <1>5, PairedTail DEF RankOrder
  <2> QED
    BY <1>5, <2>1 DEF Got, Synced, HeadIs
<1>6. CASE Forward(r)
  BY <1>2, <1>3, <1>4, <1>5, <1>6, ReplicaQuiet DEF Forward, ForwardHooked, Return
<1>7. CASE EvalForward(r)
  BY <1>2, <1>3, <1>4, <1>5, <1>7, ReplicaQuiet DEF EvalForward, Return
<1>8. CASE Backward(r)
  <2> DEFINE ps == Head(todo[r]).used
  <2>1. ps \in SUBSET Param /\ todo[r] # <<>> /\ Head(todo[r]).op = "backward"
    BY <1>3, <1>8, CallFacts DEF Backward
  <2>2. /\ RunHooks(r, ps) /\ mpc[r] = "run" /\ mpc' = mpc /\ UNCHANGED <<comms, steps, out, param>>
        /\ todo' = [todo EXCEPT ![r] = Tail(@)]
    BY <1>2, <1>8 DEF Backward, Return
  <2>3. ~Silent
    BY <1>2 DEF Silent
  <2> HIDE DEF ps
  <2>4. ASSUME NEW p \in Param
        PROVE  p \in handles'[r] \ pend'[r] <=> p \in handles[r] \ pend[r]
    <3>1. /\ p \in handles'[r] <=> p \in handles[r] \/ (p \in ps /\ delay[r][p] = 1)
          /\ p \in pend'[r] <=> p \in pend[r] \/ (p \in ps /\ delay[r][p] = 1)
      BY <1>3, <2>2, <2>3 DEF RunHooks, Started
    <3>2. delay[r][p] = 1 => p \notin handles[r]
      BY <2>2 DEF HandleInv
    <3> QED
      BY <3>1, <3>2
  <2> QED
    BY <1>2, <1>3, <1>4, <1>5, <2>1, <2>2, <2>4, ReplicaQuiet
<1>9. CASE AtcBackward(r)
  BY <1>2, <1>9 DEF AtcBackward
<1>10. CASE ZeroGrad(r)
  <2>1. CASE ZeroGradRefused(r)
    <3>1. mpc'[r] = "failed" /\ \A p \in Param : ~Got(r, p)'
      BY <1>3, <1>10, <2>1 DEF ZeroGrad, Got, Synced
    <3> QED
      BY <1>2, <1>4, <1>10, <3>1, ReplicaQuiet DEF ZeroGrad
  <2>2. CASE ~ZeroGradRefused(r)
    BY <1>2, <1>3, <1>4, <1>5, <1>10, <2>2, ReplicaQuiet DEF ZeroGrad, Return
  <2> QED
    BY <2>1, <2>2
<1>11. ASSUME mpc[r] = "run", todo[r] # <<>>, Head(todo[r]).op # "skip_step", StartSynchronize(r),
              UNCHANGED <<comms, steps, out, param>>
       PROVE  CountsInv' /\ RoundsInv' /\ StepsAligned'
  <2>1. ASSUME NEW p \in Param
        PROVE  /\ mpc'[r] = "wait" /\ p \in handles'[r]
               /\ p \in handles'[r] \ pend'[r] <=> p \in handles[r] \ pend[r]
    BY <1>2, <1>3, <1>11 DEF StartSynchronize, Missing
  <2>2. \A p \in Param : ~Got(r, p)'
    BY <2>1 DEF Got, Synced
  <2>3. mpc'[r] # "barrier"
    BY <1>3, <1>11 DEF StartSynchronize
  <2> QED
    BY <1>2, <1>4, <1>11, <2>1, <2>2, <2>3, ReplicaQuiet
<1>12. CASE Synchronize(r)
  BY <1>11, <1>12 DEF Synchronize
<1>13. CASE Step(r)
  BY <1>2, <1>11, <1>13 DEF Step, force_barrier
<1>14. CASE LeaveBarrier(r)
  <2>1. \A p \in Param : FALSE
    BY <1>2, <1>14 DEF LeaveBarrier, CountsInv
  <2> QED
    BY <2>1 DEF CountsInv, RoundsInv, StepsAligned
<1>15. CASE SkipStep(r)
  <2>1. \A p \in Param : Got(r, p)
    BY <1>15 DEF SkipStep, Got, Synced, HeadIs
  <2>2. \A p \in Param : ~Got(r, p)'
    BY <1>5, <1>15 DEF SkipStep, StepDone, Return
  <2> QED
    BY <1>2, <1>15, <2>1, <2>2, ReplicaApply DEF SkipStep, StepDone
<1>16. CASE AtcStep(r)
  BY <1>2, <1>16 DEF AtcStep
<1>17. CASE EndSynchronize(r)
  <2>0. /\ mpc[r] = "wait" /\ handles[r] = {} /\ todo[r] # <<>>
        /\ Head(todo[r]).op \in {"step", "synchronize"}
        /\ mpc'[r] = "run" /\ todo' = [todo EXCEPT ![r] = Tail(@)]
        /\ UNCHANGED <<handles, pend, out, grad, comms>>
    BY <1>3, <1>17 DEF EndSynchronize, TypeInv, CallInv, StepDone, Return
  <2>1. \A p \in Param : Got(r, p)
    BY <2>0 DEF Got
  <2>2. CASE Head(todo[r]).op = "step"
    <3>1. \A p \in Param : ~Got(r, p)'
      BY <1>5, <2>0, <2>2
    <3>2. param' = [param EXCEPT ![r] = Apply(@, grad[r])] /\ steps' = [steps EXCEPT ![r] = @ + 1]
      BY <1>2, <1>17, <2>2 DEF EndSynchronize, StepDone
    <3> QED
      BY <1>2, <2>0, <2>1, <3>1, <3>2, ReplicaApply
  <2>3. CASE Head(todo[r]).op = "synchronize"
    <3>1. todo'[r] # <<>> /\ Head(todo'[r]).op = "skip_step"
      BY <1>3, <2>0, <2>3, PairedTail DEF RankOrder
    <3>2. \A p \in Param : Got(r, p)'
      BY <2>0, <3>1 DEF Got, Synced, HeadIs
    <3>3. UNCHANGED <<steps, param>>
      BY <1>17, <2>3 DEF EndSynchronize
    <3>4. ASSUME NEW s \in Rank, NEW p \in Param
          PROVE  /\ mpc'[s] # "barrier"
                 /\ Got(s, p)' <=> Got(s, p)
                 /\ Done(s, p)' = Done(s, p)
      <4>1. CASE s = r
        <5>1. mpc'[s] # "barrier" /\ (Got(s, p)' <=> Got(s, p))
          BY <2>0, <2>1, <3>2, <4>1
        <5>2. Done(s, p)' = Done(s, p)
          BY <2>0 DEF Done
        <5> QED
          BY <5>1, <5>2
      <4>2. CASE s # r
        <5>1. mpc'[s] # "barrier" /\ (Got(s, p)' <=> Got(s, p))
          BY <1>2, <4>2, Others DEF TypeInv, CountsInv, Got, Synced, HeadIs
        <5>2. Done(s, p)' = Done(s, p)
          BY <2>0 DEF Done
        <5> QED
          BY <5>1, <5>2
      <4> QED
        BY <4>1, <4>2
    <3>5. ASSUME NEW s \in Rank, NEW p \in Param
          PROVE  /\ mpc'[s] # "barrier"
                 /\ comms'[s][p] = steps'[s] + (IF Got(s, p)' THEN 1 ELSE 0)
                 /\ Got(s, p)' => grad'[s][p] = out'[s][p]
      <4>1. /\ comms[s][p] = steps[s] + (IF Got(s, p) THEN 1 ELSE 0)
            /\ Got(s, p) => grad[s][p] = out[s][p]
        BY <1>2 DEF CountsInv
      <4> QED
        BY <2>0, <3>3, <3>4, <4>1
    <3>6. RoundsInv'
      BY <1>2, <2>0, <3>4 DEF RoundsInv
    <3> QED
      BY <1>2, <2>0, <3>3, <3>5, <3>6 DEF StepsAligned, CountsInv
  <2> QED
    BY <2>0, <2>2, <2>3
<1>18. ASSUME NEW q \in Param, SyncParam(r, q)
       PROVE  CountsInv' /\ RoundsInv' /\ StepsAligned'
  <2>0. /\ mpc[r] = "wait" /\ q \in handles[r] /\ q \notin pend[r]
        /\ grad' = [grad EXCEPT ![r][q] = Result(r, q)]
        /\ comms' = [comms EXCEPT ![r][q] = @ + 1]
        /\ handles' = [handles EXCEPT ![r] = @ \ {q}]
        /\ UNCHANGED <<todo, mpc, pend, out, param, steps>>
    BY <1>2, <1>18 DEF SyncParam
  <2>1. Result(r, q) = out[r][q]
    BY <1>2, Zenon DEF Result, Silent
  <2>2. ASSUME NEW s \in Rank, NEW p \in Param, ~(s = r /\ p = q)
        PROVE  /\ Got(s, p)' <=> Got(s, p)
               /\ grad'[s][p] = grad[s][p] /\ comms'[s][p] = comms[s][p]
               /\ p \in handles'[s] <=> p \in handles[s]
    <3>1. /\ grad'[s][p] = grad[s][p] /\ comms'[s][p] = comms[s][p]
          /\ p \in handles'[s] <=> p \in handles[s]
      BY <1>3, <2>0, <2>2 DEF Tensors
    <3> QED
      BY <2>0, <3>1 DEF Got, Synced, HeadIs
  <2>3. ~Got(r, q) /\ Got(r, q)' /\ q \notin handles'[r]
    BY <1>3, <2>0 DEF Got, Synced
  <2>4. grad'[r][q] = out[r][q] /\ comms'[r][q] = comms[r][q] + 1 /\ comms[r][q] \in Nat
    BY <1>3, <2>0, <2>1 DEF Tensors
  <2>5. CountsInv'
    <3> SUFFICES ASSUME NEW s \in Rank, NEW p \in Param
                 PROVE  /\ mpc'[s] # "barrier"
                        /\ comms'[s][p] = steps'[s] + (IF Got(s, p)' THEN 1 ELSE 0)
                        /\ Got(s, p)' => grad'[s][p] = out'[s][p]
      BY DEF CountsInv
    <3>1. /\ mpc[s] # "barrier"
          /\ comms[s][p] = steps[s] + (IF Got(s, p) THEN 1 ELSE 0)
          /\ Got(s, p) => grad[s][p] = out[s][p]
      BY <1>2 DEF CountsInv
    <3>2. CASE s = r /\ p = q
      <4>1. steps[r] \in Nat /\ comms[r][q] = steps[r]
        BY <2>3, <3>1, <3>2 DEF TypeInv, ControlType
      <4> QED
        BY <2>0, <2>3, <2>4, <3>1, <3>2, <4>1
    <3>3. CASE ~(s = r /\ p = q)
      BY <2>0, <2>2, <3>1, <3>3
    <3> QED
      BY <3>2, <3>3
  <2>6. ASSUME NEW s \in Rank, NEW p \in Param PROVE Done(s, p)' = Done(s, p)
    <3>1. CASE s = r /\ p = q
      BY <2>0, <2>3, <2>4, <3>1 DEF Done
    <3>2. CASE ~(s = r /\ p = q)
      BY <2>0, <2>2, <3>2 DEF Done
    <3> QED
      BY <3>1, <3>2
  <2> QED
    BY <1>2, <2>0, <2>5, <2>6 DEF RoundsInv, StepsAligned
<1> QED
  BY <1>6, <1>7, <1>8, <1>9, <1>10, <1>12, <1>13, <1>14, <1>15, <1>16, <1>17, <1>18 DEF Process

\* All ranks exchange parameters or optimizer states: nothing is under way.
LEMMA ReplicaExchange ==
    ASSUME TypeInv, OrderInv, CountsInv, RoundsInv, NEW op \in Exchanges, \A r \in Rank : Now(r, op),
           todo' = [r \in Rank |-> Tail(todo[r])],
           UNCHANGED <<mpc, handles, pend, out, steps, comms>>
    PROVE  /\ CountsInv' /\ RoundsInv'
           /\ \A r, s \in Rank, p \in Param : steps[r] = steps[s] /\ steps[r] \in Nat
<1>1. \A r \in Rank : handles[r] = {}
  BY OrderExchange DEF TypeInv
<1>2. ASSUME NEW r \in Rank, NEW p \in Param
      PROVE  ~Got(r, p) /\ ~Got(r, p)' /\ mpc[r] = "run"
  <2>1. /\ mpc[r] = "run" /\ todo[r] # <<>> /\ Head(todo[r]).op \notin {"skip_step", "synchronize"}
        /\ todo[r] \in Seq(Call) /\ Paired(todo[r])
    BY DEF Now, Exchanges, TypeInv, ControlType, OrderInv, RankOrder
  <2>2. todo'[r] # <<>> => Head(todo'[r]).op # "skip_step"
    BY <2>1, PairedTail
  <2> QED
    BY <2>1, <2>2 DEF Got, Synced, HeadIs
<1>3. CountsInv'
  BY <1>2 DEF CountsInv
<1>4. RoundsInv'
  BY DEF RoundsInv, Done
<1>5. ASSUME NEW r \in Rank, NEW s \in Rank, NEW p \in Param
      PROVE  steps[r] = steps[s] /\ steps[r] \in Nat
  <2>1. /\ comms[r][p] = steps[r] /\ comms[s][p] = steps[s] /\ Done(r, p) = Done(s, p)
        /\ steps[r] \in Nat /\ steps[s] \in Nat
    BY <1>2 DEF CountsInv, RoundsInv, TypeInv, ControlType
  <2> QED
    BY <1>1, <2>1 DEF Done
<1> QED
  BY <1>3, <1>4, <1>5

LEMMA ReplicaStep ==
    TypeInv /\ HandleInv /\ OrderInv /\ ReplicaInv /\ [Next]_vars => ReplicaInv'
<1> SUFFICES ASSUME TypeInv, HandleInv, OrderInv, ReplicaInv, [Next]_vars PROVE ReplicaInv'
  OBVIOUS
<1>1. CASE UNCHANGED vars
  BY <1>1 DEF vars, ReplicaInv, CountsInv, RoundsInv, Unbegun, StepsAligned, Got, Done, Synced, HeadIs, cls
<1>2. CASE Communication
  <2>0. setup' = setup
    BY <1>2 DEF Communication, BroadcastParameters, AllreduceParameters, ExchangeParameters,
                BroadcastOptimizerState, Collective, OneSided
  <2>1. SUFFICES ASSUME cls = "gradient", CountsInv, RoundsInv, Unbegun \/ StepsAligned
                 PROVE  CountsInv' /\ RoundsInv' /\ (Unbegun' \/ StepsAligned')
    BY <2>0 DEF ReplicaInv, cls
  <2>2. ASSUME NEW op \in Exchanges, NEW flow, ExchangeParameters(op, flow)
        PROVE  CountsInv' /\ RoundsInv' /\ StepsAligned'
    <3>1. /\ CountsInv' /\ RoundsInv' /\ UNCHANGED <<steps, out>>
          /\ \A r, s \in Rank, p \in Param : steps[r] = steps[s] /\ steps[r] \in Nat
      BY <2>1, <2>2, ReplicaExchange DEF ExchangeParameters
    <3>2. \A r, s \in Rank, p \in Param : param'[r][p] = param'[s][p]
      BY <2>2 DEF ExchangeParameters
    <3> QED
      BY <3>1, <3>2 DEF StepsAligned
  <2>3. CASE BroadcastParameters \/ AllreduceParameters
    BY <2>2, <2>3 DEF BroadcastParameters, AllreduceParameters, Exchanges
  <2>4. CASE BroadcastOptimizerState
    <3>1. /\ CountsInv' /\ RoundsInv' /\ UNCHANGED <<steps, out, param>>
      BY <2>1, <2>4, ReplicaExchange DEF BroadcastOptimizerState, Exchanges
    <3>2. StepsAligned
      <4>1. ASSUME Unbegun PROVE Rank = {}
        BY <2>4, <4>1 DEF BroadcastOptimizerState, Now, Unbegun
      <4> QED
        BY <2>1, <4>1 DEF StepsAligned
    <3> QED
      BY <3>1, <3>2 DEF StepsAligned
  <2>5. ASSUME NEW q \in Param, Collective(q)
        PROVE  CountsInv' /\ RoundsInv' /\ StepsAligned'
    <3>0. /\ \A r \in Rank : q \in pend[r] /\ q \in handles[r]
          /\ out' = [r \in Rank |-> [out[r] EXCEPT ![q] = UNION {Tensor(s)[q] : s \in Flow(r)}]]
          /\ pend' = [r \in Rank |-> pend[r] \ {q}]
          /\ UNCHANGED <<todo, mpc, handles, param, grad, steps, comms>>
      BY <2>5 DEF Collective, TypeInv, CallInv
    <3>1. ASSUME NEW r \in Rank PROVE Flow(r) = Rank
      BY <2>1, Zenon DEF Flow
    <3>2. ASSUME NEW r \in Rank, NEW p \in Param
          PROVE  out'[r][p] = IF p = q THEN UNION {Tensor(s)[q] : s \in Rank} ELSE out[r][p]
      <4>1. out[r] \in [Param -> SUBSET Work]
        BY DEF TypeInv, DataType, Tensors
      <4>2. out'[r] = [out[r] EXCEPT ![q] = UNION {Tensor(s)[q] : s \in Flow(r)}]
        BY <3>0
      <4> QED
        BY <3>1, <4>1, <4>2
    <3>3. ASSUME NEW r \in Rank
          PROVE  ~Got(r, q) /\ Done(r, q) = steps[r] /\ steps[r] \in Nat /\ comms[r][q] = steps[r]
      <4>1. ~Got(r, q) /\ steps[r] \in Nat
        BY <2>1, <3>0, DoneBound DEF TypeInv
      <4>2. comms[r][q] = steps[r]
        BY <2>1, <4>1 DEF CountsInv
      <4> QED
        BY <3>0, <4>1, <4>2 DEF Done
    <3>4. ASSUME NEW r \in Rank, NEW p \in Param PROVE Got(r, p)' <=> Got(r, p)
      BY <3>0 DEF Got, Synced, HeadIs
    <3>5. CountsInv'
      <4> SUFFICES ASSUME NEW r \in Rank, NEW p \in Param
                   PROVE  /\ mpc'[r] # "barrier"
                          /\ comms'[r][p] = steps'[r] + (IF Got(r, p)' THEN 1 ELSE 0)
                          /\ Got(r, p)' => grad'[r][p] = out'[r][p]
        BY DEF CountsInv
      <4>1. /\ mpc[r] # "barrier"
            /\ comms[r][p] = steps[r] + (IF Got(r, p) THEN 1 ELSE 0)
            /\ Got(r, p) => grad[r][p] = out[r][p]
        BY <2>1 DEF CountsInv
      <4> QED
        BY <3>0, <3>2, <3>3, <3>4, <4>1
    <3>6. ASSUME NEW r \in Rank, NEW p \in Param
          PROVE  Done(r, p)' = IF p = q THEN steps[r] + 1 ELSE Done(r, p)
      <4>1. pend[r] \subseteq Param /\ pend'[r] = pend[r] \ {q}
        BY <3>0 DEF TypeInv, ControlType
      <4>2. CASE p = q
        <5>1. q \in handles'[r] \ pend'[r] /\ comms'[r][q] = steps[r]
          BY <3>0, <3>3, <4>1
        <5> QED
          BY <4>2, <5>1 DEF Done
      <4>3. CASE p # q
        <5>1. p \in handles'[r] \ pend'[r] <=> p \in handles[r] \ pend[r]
          BY <3>0, <4>1, <4>3
        <5> QED
          BY <3>0, <4>3, <5>1 DEF Done
      <4> QED
        BY <4>2, <4>3
    <3>7. \A r, s \in Rank : steps[r] = steps[s]
      BY <2>1, <3>3 DEF RoundsInv
    <3>8. RoundsInv'
      <4> SUFFICES ASSUME NEW r \in Rank, NEW s \in Rank, NEW p \in Param
                   PROVE  Done(r, p)' = Done(s, p)' /\ out'[r][p] = out'[s][p]
        BY DEF RoundsInv
      <4>1. Done(r, p) = Done(s, p) /\ out[r][p] = out[s][p]
        BY <2>1 DEF RoundsInv
      <4> QED
        BY <3>2, <3>6, <3>7, <4>1
    <3>9. StepsAligned'
      <4>0. StepsAligned
        <5>1. ASSUME Unbegun PROVE Rank = {}
          BY <3>0, <5>1 DEF Unbegun
        <5> QED
          BY <2>1, <5>1 DEF StepsAligned
      <4> SUFFICES ASSUME NEW r \in Rank, NEW s \in Rank, NEW p \in Param
                   PROVE  param[r][p] = param[s][p] /\ steps[s] # steps[r] + 1
        BY <3>0 DEF StepsAligned
      <4>1. steps[r] = steps[s] /\ steps[r] \in Nat
        BY <3>3, <3>7
      <4> QED
        BY <4>0, <4>1 DEF StepsAligned
    <3> QED
      BY <3>5, <3>8, <3>9
  <2>6. ASSUME NEW p \in Param, NEW r \in Rank, OneSided(r, p) PROVE FALSE
    BY <2>1, <2>6 DEF OneSided
  <2> QED
    BY <1>2, <2>3, <2>4, <2>5, <2>6 DEF Communication
<1> QED
  BY <1>1, <1>2, ReplicaProcess DEF Next, Terminating

\* Orderly scripts that begin with a broadcast of the parameters.
ReplicatedJob == OrderlyJob /\ \A r \in Rank : Broadcasting(setup.script[r])

\* Synchronous data parallelism with DistributedGradientAllreduceOptimizer:
\* ranks that have made the same number of steps have the same parameters, for
\* every number of ranks and parameters, every num_steps_per_communication and
\* whatever parameters the backward passes of a rank reach, in every job whose
\* scripts begin with broadcast_parameters and are orderly. Hooks, results and
\* steps of the ranks come in any order.
THEOREM ReplicasStayTogether == Spec => [](ReplicatedJob => ReplicasAgree)
<1> DEFINE Inv == ReplicatedJob => OrderlyInv /\ ReplicaInv
<1>1. Init => Inv
  BY OrderlyInit, ReplicaInit DEF ReplicatedJob
<1>2. Inv /\ [Next]_vars => Inv'
  <2> SUFFICES ASSUME Inv, [Next]_vars, ReplicatedJob' PROVE OrderlyInv' /\ ReplicaInv'
    OBVIOUS
  <2>1. ReplicatedJob
    BY SetupKept DEF ReplicatedJob, OrderlyJob
  <2> QED
    BY <2>1, OrderlyStep, ReplicaStep DEF OrderlyInv
<1>3. Inv => (ReplicatedJob => ReplicasAgree)
  <2> SUFFICES ASSUME OrderlyInv, ReplicaInv, cls = "gradient", NEW r \in Rank, NEW s \in Rank,
                      steps[r] = steps[s], steps[r] > 0
               PROVE  param[r] = param[s]
    BY DEF ReplicasAgree
  <2>1. param[r] \in Tensors /\ param[s] \in Tensors
    BY DEF OrderlyInv, TypeInv, DataType
  <2>2. StepsAligned => \A p \in Param : param[r][p] = param[s][p]
    BY DEF StepsAligned
  <2>3. ~Unbegun
    BY DEF Unbegun
  <2> QED
    BY <2>1, <2>2, <2>3 DEF ReplicaInv, Tensors
<1> QED
  BY <1>1, <1>2, <1>3, PTL DEF Spec

-----------------------------------------------------------------------------
(* Local updates: how far the counts are depends on the steps alone.         *)

LEMMA NextMultiple ==
    ASSUME NEW n \in Nat, NEW k \in Nat, k >= 1
    PROVE  /\ n \div k \in Nat /\ n % k \in 0 .. k - 1
           /\ n % k = k - 1 => (n + 1) \div k = (n \div k) + 1 /\ (n + 1) % k = 0
           /\ n % k # k - 1 => (n + 1) \div k = n \div k /\ (n + 1) % k = (n % k) + 1
<1>1. n \div k \in Nat /\ n % k \in 0 .. k - 1
  OBVIOUS
<1>2. n = (k * (n \div k)) + (n % k)
  BY <1>1
<1>3. ASSUME NEW q \in Nat, NEW d \in 0 .. k - 1, NEW m \in Nat, m = (k * q) + d
      PROVE  m \div k = q /\ m % k = d
  BY <1>3
<1>4. ASSUME n % k = k - 1 PROVE n + 1 = (k * ((n \div k) + 1)) + 0
  BY <1>1, <1>2, <1>4
<1>5. ASSUME n % k # k - 1 PROVE n + 1 = (k * (n \div k)) + ((n % k) + 1) /\ (n % k) + 1 \in 0 .. k - 1
  BY <1>1, <1>2, <1>5
<1>6. ASSUME n % k = k - 1
      PROVE  (n + 1) \div k = (n \div k) + 1 /\ (n + 1) % k = 0
  <2> DEFINE m == n + 1
             a == (n \div k) + 1
  <2>1. m \in Nat /\ a \in Nat /\ 0 \in 0 .. k - 1 /\ m = (k * a) + 0
    BY <1>1, <1>4, <1>6
  <2> HIDE DEF m, a
  <2>2. m \div k = a /\ m % k = 0
    BY <1>3, <2>1
  <2> QED
    BY <2>2 DEF m, a
<1>7. ASSUME n % k # k - 1
      PROVE  (n + 1) \div k = n \div k /\ (n + 1) % k = (n % k) + 1
  <2> DEFINE m == n + 1
             a == n \div k
             b == (n % k) + 1
  <2>1. m \in Nat /\ a \in Nat /\ b \in 0 .. k - 1 /\ m = (k * a) + b
    BY <1>1, <1>5, <1>7
  <2> HIDE DEF m, a, b
  <2>2. m \div k = a /\ m % k = b
    BY <1>3, <2>1
  <2> QED
    BY <2>2 DEF m, a, b
<1> QED
  BY <1>1, <1>6, <1>7

\* LocalScript, but for the first call: what is left of such a script.
Chained(s) ==
    /\ \A i \in DOMAIN s : /\ s[i].op \notin {"synchronize", "skip_step"}
                           /\ s[i].op = "backward" => s[i].used = Param
    /\ \A i \in DOMAIN s, n \in 1 .. 3 :
          i + 1 \in DOMAIN s => (s[i].op = Round[n] <=> s[i + 1].op = Round[n + 1])

LEMMA ChainedHead ==
    ASSUME NEW s \in Seq(Call), s # <<>>, Chained(s)
    PROVE  /\ Head(s).op \notin {"synchronize", "skip_step"}
           /\ Head(s).op = "backward" => Head(s).used = Param
<1>1. 1 \in DOMAIN s /\ Head(s) = s[1]
  BY CallFacts
<1> QED
  BY <1>1, Zenon DEF Chained

LEMMA ChainedTail ==
    ASSUME NEW s \in Seq(Call), s # <<>>, Chained(s)
    PROVE  /\ Chained(Tail(s))
           /\ Tail(s) # <<>> =>
                /\ Head(s).op = "forward" <=> Head(Tail(s)).op = "zero_grad"
                /\ Head(s).op = "zero_grad" <=> Head(Tail(s)).op = "backward"
                /\ Head(s).op = "backward" <=> Head(Tail(s)).op = "step"
<1> DEFINE t == Tail(s)
<1>1. \A i \in DOMAIN t : i + 1 \in DOMAIN s /\ t[i] = s[i + 1]
  BY CallFacts
<1>2. \A i \in DOMAIN t : (i + 1) + 1 \in DOMAIN s <=> i + 1 \in DOMAIN t
  OBVIOUS
<1>3. t \in Seq(Call) /\ 1 \in DOMAIN s /\ Head(s) = s[1]
  BY CallFacts
<1> HIDE DEF t
<1>4. Chained(t)
  BY <1>1, <1>2 DEF Chained
<1>5. ASSUME t # <<>>
      PROVE  /\ Head(s).op = "forward" <=> Head(t).op = "zero_grad"
             /\ Head(s).op = "zero_grad" <=> Head(t).op = "backward"
             /\ Head(s).op = "backward" <=> Head(t).op = "step"
  <2>1. 1 \in DOMAIN t /\ Head(t) = t[1]
    BY <1>3, <1>5, CallFacts
  <2>2. 1 + 1 \in DOMAIN s /\ t[1] = s[1 + 1]
    BY <1>1, <2>1
  <2>3. \A n \in 1 .. 3 : s[1].op = Round[n] <=> s[1 + 1].op = Round[n + 1]
    BY <1>3, <2>2 DEF Chained
  <2>4. /\ Round[1] = "forward" /\ Round[2] = "zero_grad" /\ Round[3] = "backward"
        /\ Round[4] = "step"
    BY DEF Round
  <2>5. /\ s[1].op = Round[1] <=> s[1 + 1].op = Round[2]
        /\ s[1].op = Round[2] <=> s[1 + 1].op = Round[3]
        /\ s[1].op = Round[3] <=> s[1 + 1].op = Round[4]
    BY <2>3
  <2> QED
    BY <1>3, <2>1, <2>2, <2>4, <2>5
<1> QED
  BY <1>4, <1>5 DEF t

\* Steps up to and with the one that communicates next.
Remaining(r) == J - (steps[r] % J)
\* The calls of a round that come after the pass whose hooks count.
AfterHooks == IF cls = "atc" THEN {"step"} ELSE {"zero_grad", "backward", "step"}
Counted(r, n) ==
    /\ \A p \in Param : delay[r][p] = n /\ (cls = "atc" => step_delay[r][p] = n)
    /\ handles[r] = IF n = 0 THEN Param ELSE {}
CountedInRound(r) ==
    todo[r] # <<>> =>
        Counted(r, IF Head(todo[r]).op \in AfterHooks THEN Remaining(r) - 1 ELSE Remaining(r))
RankLocal(r) ==
    /\ Chained(todo[r])
    /\ mpc[r] \in {"run", "barrier"} => \A p \in Param : comms[r][p] = steps[r] \div J
    /\ mpc[r] = "run" => CountedInRound(r)
    /\ mpc[r] = "barrier" => cls # "atc" /\ Counted(r, Remaining(r) - 1)
    /\ mpc[r] = "wait" =>
         /\ cls = "atc" => Remaining(r) = 1 /\ \A p \in Param : step_delay[r][p] = J
         /\ \A p \in handles[r] : Remaining(r) = 1 /\ comms[r][p] = steps[r] \div J
         /\ \A p \in Param \ handles[r] :
              IF Remaining(r) = 1 THEN delay[r][p] = J /\ comms[r][p] = (steps[r] \div J) + 1
              ELSE delay[r][p] = Remaining(r) - 1 /\ comms[r][p] = steps[r] \div J
LocalInv == (setup.doc = "local" /\ cls # "gradient") => \A r \in Rank : RankLocal(r)

LEMMA RemainingType ==
    ASSUME ControlType, NEW r \in Rank
    PROVE  /\ J \in Nat /\ J >= 1 /\ steps[r] \in Nat
           /\ steps[r] \div J \in Nat
           /\ Remaining(r) \in 1 .. J
<1>1. J \in Nat /\ J >= 1 /\ steps[r] \in Nat
  BY SetupFacts DEF ControlType
<1>2. steps[r] \div J \in Nat /\ steps[r] % J \in 0 .. J - 1
  BY <1>1, NextMultiple
<1> QED
  BY <1>1, <1>2 DEF Remaining

LEMMA RemainingStep ==
    ASSUME ControlType, NEW r \in Rank, steps'[r] = steps[r] + 1, setup' = setup
    PROVE  IF Remaining(r) = 1
           THEN Remaining(r)' = J /\ (steps[r] \div J)' = (steps[r] \div J) + 1
           ELSE Remaining(r)' = Remaining(r) - 1 /\ (steps[r] \div J)' = steps[r] \div J
<1>1. J \in Nat /\ J >= 1 /\ steps[r] \in Nat /\ J' = J
  BY SetupFacts DEF ControlType, J
<1> DEFINE n == steps[r]
           k == J
<1>2. /\ n \div k \in Nat /\ n % k \in 0 .. k - 1
      /\ n % k = k - 1 => (n + 1) \div k = (n \div k) + 1 /\ (n + 1) % k = 0
      /\ n % k # k - 1 => (n + 1) \div k = n \div k /\ (n + 1) % k = (n % k) + 1
  BY <1>1, NextMultiple
<1>3. /\ Remaining(r) = k - (n % k) /\ Remaining(r)' = k - ((n + 1) % k)
      /\ (steps[r] \div J)' = (n + 1) \div k
  BY <1>1 DEF Remaining
<1>4. k \in Nat /\ n \in Nat
  BY <1>1
<1> HIDE DEF n, k
<1>5. CASE n % k = k - 1
  <2>1. Remaining(r) = 1 /\ Remaining(r)' = k /\ (steps[r] \div J)' = (n \div k) + 1
    BY <1>2, <1>3, <1>4, <1>5
  <2> QED
    BY <2>1 DEF n, k
<1>6. CASE n % k # k - 1
  <2>1. Remaining(r) # 1 /\ Remaining(r)' = Remaining(r) - 1 /\ (steps[r] \div J)' = n \div k
    BY <1>2, <1>3, <1>4, <1>6
  <2> QED
    BY <2>1 DEF n, k
<1> QED
  BY <1>5, <1>6

LEMMA LocalInit == Init => LocalInv
<1> SUFFICES ASSUME Init, setup.doc = "local", NEW r \in Rank PROVE RankLocal(r)
  BY DEF LocalInv
<1>1. /\ LocalScript(setup.script[r]) /\ todo[r] = setup.script[r] /\ todo[r] \in Seq(Call)
      /\ J \in Nat /\ J >= 1
  BY LocalAssumption, SetupFacts DEF Init
<1>2. Chained(todo[r])
  BY <1>1 DEF LocalScript, Chained
<1>3. ASSUME todo[r] # <<>> PROVE Head(todo[r]).op \notin AfterHooks
  <2>1. Head(todo[r]).op \notin {Round[n] : n \in 2 .. 4}
    BY <1>1, <1>3, CallFacts DEF LocalScript
  <2>2. Round[2] = "zero_grad" /\ Round[3] = "backward" /\ Round[4] = "step"
    BY DEF Round
  <2>3. {"zero_grad", "backward", "step"} \subseteq {Round[n] : n \in 2 .. 4}
    BY <2>2
  <2> QED
    BY <2>1, <2>3 DEF AfterHooks
<1>4. /\ steps[r] = 0 /\ handles[r] = {} /\ mpc[r] \in {"run", "failed"}
      /\ \A p \in Param : delay[r][p] = J /\ step_delay[r][p] = J /\ comms[r][p] = 0
  BY DEF Init
<1>5. 0 \div J = 0 /\ 0 % J = 0
  BY <1>1
<1>6. Remaining(r) = J
  BY <1>1, <1>4, <1>5 DEF Remaining
<1> QED
  BY <1>1, <1>2, <1>3, <1>4, <1>5, <1>6 DEF RankLocal, CountedInRound, Counted

\* Every pass counts, and the one that uses up the counts starts the operations.
LEMMA HooksLocal ==
    ASSUME ControlType, NEW r \in Rank, RunHooks(r, Param), NEW n \in Nat, n >= 1, Counted(r, n)
    PROVE  /\ \A p \in Param : delay'[r][p] = n - 1
           /\ handles'[r] = IF n - 1 = 0 THEN Param ELSE {}
<1>1. \A p \in Param : delay[r][p] = n
  BY DEF Counted
<1>2. handles[r] = {}
  BY DEF Counted
<1>3. delay'[r] = Count(delay[r], Param) /\ handles'[r] = handles[r] \cup Started(r, Param)
  BY DEF RunHooks, ControlType
<1>4. Started(r, Param) = IF n - 1 = 0 THEN Param ELSE {}
  BY <1>1 DEF Started
<1> QED
  BY <1>1, <1>2, <1>3, <1>4 DEF Count

\* A call returns that is not a step.
LEMMA LocalReturn ==
    ASSUME ControlType, NEW r \in Rank, RankLocal(r), mpc[r] = "run", todo[r] # <<>>,
           mpc'[r] = "run", todo'[r] = Tail(todo[r]), UNCHANGED <<setup, steps, comms>>,
           CountedInRound(r)'
    PROVE  RankLocal(r)'
<1>1. Chained(todo'[r])
  BY ChainedTail DEF ControlType, RankLocal
<1>2. \A p \in Param : comms'[r][p] = steps'[r] \div J'
  BY DEF RankLocal, J
<1> QED
  BY <1>1, <1>2 DEF RankLocal

\* step() begins to wait; what it waits for is what the hooks started.
LEMMA LocalWait ==
    ASSUME ControlType, NEW r \in Rank, Chained(todo[r]), cls \notin {"gradient", "atc"},
           Counted(r, Remaining(r) - 1), \A p \in Param : comms[r][p] = steps[r] \div J,
           StartSynchronize(r), UNCHANGED <<setup, todo, delay, steps, comms>>
    PROVE  RankLocal(r)'
<1>1. handles'[r] = handles[r] /\ mpc'[r] = "wait"
  BY DEF StartSynchronize, Missing, ControlType
<1>2. Remaining(r) \in 1 .. J /\ J \in Nat /\ J >= 1
  BY RemainingType
<1>3. handles[r] = (IF Remaining(r) = 1 THEN Param ELSE {}) /\ \A p \in Param : delay[r][p] = Remaining(r) - 1
  BY <1>2 DEF Counted
<1>4. /\ \A p \in handles[r] : Remaining(r) = 1 /\ comms[r][p] = steps[r] \div J
      /\ \A p \in Param \ handles[r] :
              Remaining(r) # 1 /\ delay[r][p] = Remaining(r) - 1 /\ comms[r][p] = steps[r] \div J
  BY <1>3
<1> QED
  BY <1>1, <1>4 DEF RankLocal, Remaining, J, cls

LEMMA LocalProcess ==
    ASSUME TypeInv, LocalInv, NEW r \in Rank, Process(r)
    PROVE  LocalInv'
<1> USE DEF Now
<1>0. setup' = setup
  BY DEF Process, Forward, EvalForward, Backward, AtcBackward, ZeroGrad, Synchronize, Step,
         LeaveBarrier, SkipStep, AtcStep, EndSynchronize, SyncParam
<1>1. SUFFICES ASSUME cls # "gradient", \A s \in Rank : RankLocal(s)
               PROVE  \A s \in Rank : RankLocal(s)'
  BY <1>0 DEF LocalInv, cls
<1>2. ASSUME NEW s \in Rank, s # r
      PROVE  RankLocal(s)'
  <2>1. RankLocal(s)
    BY <1>1
  <2>2. /\ todo'[s] = todo[s] /\ mpc'[s] = mpc[s] /\ delay'[s] = delay[s]
        /\ step_delay'[s] = step_delay[s] /\ handles'[s] = handles[s]
        /\ steps'[s] = steps[s] /\ comms'[s] = comms[s]
    BY <1>2, Others DEF TypeInv
  <2> QED
    BY <1>0, <2>1, <2>2
       DEF RankLocal, CountedInRound, Counted, Remaining, AfterHooks, J, cls
<1> SUFFICES RankLocal(r)'
  BY <1>2
<1>3. /\ RankLocal(r) /\ ControlType
      /\ mpc \in [Rank -> {"run", "barrier", "wait", "failed"}] /\ todo \in [Rank -> Seq(Call)]
      /\ handles \in [Rank -> SUBSET Param] /\ delay \in [Rank -> [Param -> Int]]
      /\ step_delay \in [Rank -> [Param -> Int]]
      /\ steps \in [Rank -> Nat] /\ comms \in [Rank -> [Param -> Nat]]
  BY <1>1 DEF TypeInv, ControlType
<1>4. /\ J \in Nat /\ J >= 1 /\ steps[r] \in Nat /\ steps[r] \div J \in Nat
      /\ Remaining(r) \in 1 .. J
  BY <1>3, RemainingType
<1>5. Chained(todo[r]) /\ todo[r] \in Seq(Call) /\ cls' = cls /\ J' = J /\ AfterHooks' = AfterHooks
  BY <1>0, <1>3 DEF RankLocal, J, cls, AfterHooks
<1>6. ASSUME todo[r] # <<>>
      PROVE  /\ Head(todo[r]).op \notin {"synchronize", "skip_step"}
             /\ Head(todo[r]).op = "backward" => Head(todo[r]).used = Param
             /\ Chained(Tail(todo[r]))
             /\ Tail(todo[r]) # <<>> =>
                  /\ Head(todo[r]).op = "forward" <=> Head(Tail(todo[r])).op = "zero_grad"
                  /\ Head(todo[r]).op = "zero_grad" <=> Head(Tail(todo[r])).op = "backward"
                  /\ Head(todo[r]).op = "backward" <=> Head(Tail(todo[r])).op = "step"
  BY <1>5, <1>6, ChainedHead, ChainedTail
<1>7. ASSUME mpc'[r] = "failed", todo'[r] = todo[r]
      PROVE  RankLocal(r)'
  BY <1>5, <1>7 DEF RankLocal
\* A call that leaves the counts alone, on the same side of the hooks as the next.
<1>8. ASSUME mpc[r] = "run", todo[r] # <<>>, mpc'[r] = "run", todo'[r] = Tail(todo[r]),
             UNCHANGED <<steps, comms, delay, step_delay, handles>>,
             Tail(todo[r]) # <<>> =>
               (Head(todo[r]).op \in AfterHooks <=> Head(Tail(todo[r])).op \in AfterHooks)
      PROVE  RankLocal(r)'
  <2>1. CountedInRound(r)'
    BY <1>0, <1>3, <1>5, <1>8 DEF RankLocal, CountedInRound, Counted, Remaining
  <2> QED
    BY <1>0, <1>3, <1>8, <2>1, LocalReturn
<1>9. ASSUME mpc[r] = "run", todo[r] # <<>>, Head(todo[r]).op \notin AfterHooks
      PROVE  Counted(r, Remaining(r))
  BY <1>3, <1>9 DEF RankLocal, CountedInRound
<1>10. ASSUME mpc[r] = "run", todo[r] # <<>>, Head(todo[r]).op \in AfterHooks
       PROVE  Counted(r, Remaining(r) - 1) /\ \A p \in Param : comms[r][p] = steps[r] \div J
  BY <1>3, <1>10 DEF RankLocal, CountedInRound
\* A step is done.
<1>11. ASSUME todo[r] # <<>>, Head(todo[r]).op = "step", mpc'[r] = "run",
              todo'[r] = Tail(todo[r]), steps'[r] = steps[r] + 1,
              \A p \in Param : /\ delay'[r][p] = Remaining(r)'
                               /\ cls = "atc" => step_delay'[r][p] = Remaining(r)'
                               /\ comms'[r][p] = (steps[r] \div J)',
              handles'[r] = {}
       PROVE  RankLocal(r)'
  <2>1. Chained(todo'[r]) /\ (todo'[r] # <<>> => Head(todo'[r]).op \notin AfterHooks)
    BY <1>6, <1>11 DEF AfterHooks
  <2>2. Remaining(r)' >= 1 /\ Remaining(r)' # 0
    <3>1. Remaining(r)' = J \/ (Remaining(r) # 1 /\ Remaining(r)' = Remaining(r) - 1)
      BY <1>0, <1>3, <1>11, RemainingStep
    <3> QED
      BY <1>4, <3>1
  <2>3. Counted(r, Remaining(r))'
    BY <1>5, <1>11, <2>2 DEF Counted
  <2>4. CountedInRound(r)'
    BY <1>5, <2>1, <2>3 DEF CountedInRound
  <2> QED
    BY <1>11, <2>1, <2>4 DEF RankLocal
<1>12. CASE Forward(r)
  <2>1. /\ mpc[r] = "run" /\ todo[r] # <<>> /\ Head(todo[r]).op = "forward"
        /\ mpc'[r] = "run" /\ todo'[r] = Tail(todo[r]) /\ UNCHANGED <<steps, comms, step_delay>>
    BY <1>3, <1>12 DEF Forward, Return
  <2>2. Tail(todo[r]) # <<>> => Head(Tail(todo[r])).op = "zero_grad"
    BY <1>6, <2>1
  <2>3. CASE ForwardHooked
    <3>1. cls # "atc" /\ RunHooks(r, Param) /\ AfterHooks = {"zero_grad", "backward", "step"}
      BY <1>12, <2>3 DEF Forward, ForwardHooked, AfterHooks
    <3>2. Counted(r, Remaining(r))
      BY <1>9, <2>1, <3>1
    <3>3. /\ \A p \in Param : delay'[r][p] = Remaining(r) - 1
          /\ handles'[r] = IF Remaining(r) - 1 = 0 THEN Param ELSE {}
      BY <1>3, <1>4, <3>1, <3>2, HooksLocal
    <3>4. CountedInRound(r)'
      BY <1>0, <1>5, <2>1, <2>2, <3>1, <3>3 DEF CountedInRound, Counted, Remaining
    <3> QED
      BY <1>0, <1>3, <2>1, <3>4, LocalReturn
  <2>4. CASE ~ForwardHooked
    <3>1. cls = "atc" /\ AfterHooks = {"step"}
      BY <1>1, <1>3, <2>4, SetupFacts DEF ForwardHooked, AfterHooks, Class, ControlType
    <3> QED
      BY <1>8, <1>12, <2>1, <2>2, <2>4, <3>1 DEF Forward
  <2> QED
    BY <2>3, <2>4
<1>13. CASE EvalForward(r)
  <2>1. /\ mpc[r] = "run" /\ todo[r] # <<>> /\ Head(todo[r]).op = "eval"
        /\ mpc'[r] = "run" /\ todo'[r] = Tail(todo[r])
        /\ UNCHANGED <<steps, comms, delay, step_delay, handles>>
    BY <1>3, <1>13 DEF EvalForward, Return
  <2> QED
    BY <1>6, <1>8, <2>1 DEF AfterHooks
<1>14. CASE Backward(r)
  <2>1. /\ mpc[r] = "run" /\ todo[r] # <<>> /\ Head(todo[r]).op = "backward" /\ cls # "atc"
        /\ mpc'[r] = "run" /\ todo'[r] = Tail(todo[r])
        /\ UNCHANGED <<steps, comms, delay, step_delay, handles>>
    BY <1>1, <1>3, <1>14 DEF Backward, Return
  <2> QED
    BY <1>6, <1>8, <2>1 DEF AfterHooks
<1>15. CASE AtcBackward(r)
  <2>1. CASE ~setup.func
    BY <1>3, <1>7, <1>15, <2>1 DEF AtcBackward
  <2>2. CASE setup.func
    <3>1. /\ mpc[r] = "run" /\ todo[r] # <<>> /\ Head(todo[r]).op = "backward" /\ cls = "atc"
          /\ RunHooks(r, Head(todo[r]).used)
          /\ step_delay' = [step_delay EXCEPT ![r] = Count(@, Head(todo[r]).used)]
          /\ mpc'[r] = "run" /\ todo'[r] = Tail(todo[r]) /\ UNCHANGED <<steps, comms>>
      BY <1>3, <1>15, <2>2 DEF AtcBackward, Return
    <3>2. /\ Head(todo[r]).used = Param /\ AfterHooks = {"step"}
          /\ Tail(todo[r]) # <<>> => Head(Tail(todo[r])).op = "step"
      BY <1>6, <3>1 DEF AfterHooks
    <3>3. Counted(r, Remaining(r))
      BY <1>9, <3>1, <3>2
    <3>4. /\ \A p \in Param : delay'[r][p] = Remaining(r) - 1
          /\ handles'[r] = IF Remaining(r) - 1 = 0 THEN Param ELSE {}
      BY <1>3, <1>4, <3>1, <3>2, <3>3, HooksLocal
    <3>5. \A p \in Param : step_delay'[r][p] = Remaining(r) - 1
      BY <1>3, <3>1, <3>2, <3>3 DEF Counted, Count
    <3>6. CountedInRound(r)'
      BY <1>0, <1>5, <3>1, <3>2, <3>4, <3>5 DEF CountedInRound, Counted, Remaining
    <3> QED
      BY <1>0, <1>3, <3>1, <3>6, LocalReturn
  <2> QED
    BY <2>1, <2>2
<1>16. CASE ZeroGrad(r)
  <2>1. CASE ZeroGradRefused(r)
    BY <1>3, <1>7, <1>16, <2>1 DEF ZeroGrad
  <2>2. CASE ~ZeroGradRefused(r)
    <3>1. /\ mpc[r] = "run" /\ todo[r] # <<>> /\ Head(todo[r]).op = "zero_grad"
          /\ mpc'[r] = "run" /\ todo'[r] = Tail(todo[r])
          /\ UNCHANGED <<steps, comms, delay, step_delay, handles>>
      BY <1>3, <1>16, <2>2 DEF ZeroGrad, Return
    <3> QED
      BY <1>6, <1>8, <3>1 DEF AfterHooks
  <2> QED
    BY <2>1, <2>2
<1>17. CASE Synchronize(r)
  BY <1>6, <1>17 DEF Synchronize
<1>18. CASE Step(r)
  <2>1. /\ mpc[r] = "run" /\ todo[r] # <<>> /\ Head(todo[r]).op = "step" /\ cls # "atc"
        /\ UNCHANGED <<todo, steps, comms, delay, step_delay>>
    BY <1>6, <1>18 DEF Step
  <2>2. Counted(r, Remaining(r) - 1) /\ \A p \in Param : comms[r][p] = steps[r] \div J
    BY <1>10, <2>1 DEF AfterHooks
  <2>3. CASE force_barrier
    <3>1. mpc'[r] = "barrier" /\ handles' = handles
      BY <1>3, <1>18, <2>3 DEF Step
    <3> QED
      BY <1>0, <1>5, <2>1, <2>2, <3>1 DEF RankLocal, Counted, Remaining
  <2>4. CASE ~force_barrier
    <3>1. StartSynchronize(r)
      BY <1>18, <2>4 DEF Step
    <3> QED
      BY <1>0, <1>1, <1>3, <1>5, <2>1, <2>2, <3>1, LocalWait
  <2> QED
    BY <2>3, <2>4
<1>19. CASE LeaveBarrier(r)
  <2>1. mpc[r] = "barrier" /\ Head(todo[r]).op = "step" /\ todo[r] # <<>>
    BY <1>6, <1>19 DEF LeaveBarrier, TypeInv, CallInv, StepCalls
  <2>2. StartSynchronize(r) /\ UNCHANGED <<todo, steps, comms, delay, step_delay>>
    BY <1>19, <2>1 DEF LeaveBarrier
  <2>3. Counted(r, Remaining(r) - 1) /\ \A p \in Param : comms[r][p] = steps[r] \div J
    BY <1>3, <2>1 DEF RankLocal
  <2>4. cls # "atc"
    BY <1>3, <2>1 DEF RankLocal
  <2> QED
    BY <1>0, <1>1, <1>3, <1>5, <2>2, <2>3, <2>4, LocalWait
<1>20. CASE SkipStep(r)
  BY <1>6, <1>20 DEF SkipStep
<1>21. CASE AtcStep(r)
  <2>1. /\ mpc[r] = "run" /\ todo[r] # <<>> /\ Head(todo[r]).op = "step" /\ cls = "atc"
        /\ UNCHANGED <<comms, delay>>
    BY <1>21 DEF AtcStep
  <2>2. Counted(r, Remaining(r) - 1) /\ \A p \in Param : comms[r][p] = steps[r] \div J
    BY <1>10, <2>1 DEF AfterHooks
  <2>3. /\ \A p \in Param : delay[r][p] = Remaining(r) - 1 /\ step_delay[r][p] = Remaining(r) - 1
        /\ handles[r] = IF Remaining(r) = 1 THEN Param ELSE {}
    BY <1>4, <2>1, <2>2 DEF Counted
  <2>4. CASE handles[r] = {}
    <3>1. /\ mpc'[r] = "run" /\ todo'[r] = Tail(todo[r]) /\ steps'[r] = steps[r] + 1
          /\ UNCHANGED <<step_delay, handles>>
      BY <1>3, <1>21, <2>1, <2>4 DEF AtcStep, StepDone, Return
    <3>2. \A p \in Param : Remaining(r) # 1
      BY <2>3, <2>4
    <3>3. IF Remaining(r) = 1
          THEN Remaining(r)' = J /\ (steps[r] \div J)' = (steps[r] \div J) + 1
          ELSE Remaining(r)' = Remaining(r) - 1 /\ (steps[r] \div J)' = steps[r] \div J
      BY <1>0, <1>3, <3>1, RemainingStep
    <3>4. \A p \in Param : Remaining(r)' = Remaining(r) - 1 /\ (steps[r] \div J)' = steps[r] \div J
      BY <3>2, <3>3
    <3> QED
      BY <1>11, <2>1, <2>2, <2>3, <2>4, <3>1, <3>4
  <2>5. CASE handles[r] # {}
    <3>1. Remaining(r) = 1 /\ handles[r] = Param /\ Param # {} /\ \A p \in Param : step_delay[r][p] = 0
      BY <2>3, <2>5
    <3>2. /\ StartSynchronize(r) /\ UNCHANGED <<todo, steps>>
          /\ step_delay' = [step_delay EXCEPT ![r] = [p \in Param |-> J]]
      BY <1>21, <2>5, <3>1 DEF AtcStep
    <3>3. mpc'[r] = "wait" /\ handles'[r] = Param /\ \A p \in Param : step_delay'[r][p] = J
      BY <1>3, <3>1, <3>2 DEF StartSynchronize, Missing
    <3>4. Remaining(r)' = 1
      BY <1>5, <3>1, <3>2 DEF Remaining
    <3> QED
      BY <1>5, <2>1, <2>2, <3>2, <3>3, <3>4 DEF RankLocal
  <2> QED
    BY <2>4, <2>5
<1>22. CASE EndSynchronize(r)
  <2>1. mpc[r] = "wait" /\ handles[r] = {} /\ todo[r] # <<>> /\ Head(todo[r]).op = "step"
    BY <1>6, <1>22 DEF EndSynchronize, TypeInv, CallInv
  <2>2. /\ mpc'[r] = "run" /\ todo'[r] = Tail(todo[r]) /\ steps'[r] = steps[r] + 1
        /\ UNCHANGED <<comms, delay, step_delay, handles>>
    BY <1>3, <1>22, <2>1 DEF EndSynchronize, StepDone, Return
  <2>3. /\ cls = "atc" => Remaining(r) = 1 /\ \A p \in Param : step_delay[r][p] = J
        /\ \A p \in Param :
             IF Remaining(r) = 1 THEN delay[r][p] = J /\ comms[r][p] = (steps[r] \div J) + 1
             ELSE delay[r][p] = Remaining(r) - 1 /\ comms[r][p] = steps[r] \div J
    BY <1>3, <2>1 DEF RankLocal
  <2>4. IF Remaining(r) = 1
        THEN Remaining(r)' = J /\ (steps[r] \div J)' = (steps[r] \div J) + 1
        ELSE Remaining(r)' = Remaining(r) - 1 /\ (steps[r] \div J)' = steps[r] \div J
    BY <1>0, <1>3, <2>2, RemainingStep
  <2>5. \A p \in Param : /\ delay[r][p] = Remaining(r)'
                         /\ cls = "atc" => step_delay[r][p] = Remaining(r)'
                         /\ comms[r][p] = (steps[r] \div J)'
    BY <2>3, <2>4
  <2> QED
    BY <1>11, <2>1, <2>2, <2>5
<1>23. ASSUME NEW p \in Param, SyncParam(r, p)
       PROVE  RankLocal(r)'
  <2>1. /\ mpc[r] = "wait" /\ p \in handles[r] /\ UNCHANGED <<todo, mpc, step_delay, steps>>
        /\ delay' = [delay EXCEPT ![r][p] = J]
        /\ comms' = [comms EXCEPT ![r][p] = @ + 1]
        /\ handles' = [handles EXCEPT ![r] = @ \ {p}]
    BY <1>23 DEF SyncParam
  <2>2. /\ cls = "atc" => Remaining(r) = 1 /\ \A q \in Param : step_delay[r][q] = J
        /\ \A q \in handles[r] : Remaining(r) = 1 /\ comms[r][q] = steps[r] \div J
        /\ \A q \in Param \ handles[r] :
             IF Remaining(r) = 1 THEN delay[r][q] = J /\ comms[r][q] = (steps[r] \div J) + 1
             ELSE delay[r][q] = Remaining(r) - 1 /\ comms[r][q] = steps[r] \div J
    BY <1>3, <2>1 DEF RankLocal
  <2>3. \A q \in Param : /\ delay'[r][q] = IF q = p THEN J ELSE delay[r][q]
                         /\ comms'[r][q] = IF q = p THEN comms[r][q] + 1 ELSE comms[r][q]
    BY <1>3, <2>1
  <2>4. handles'[r] = handles[r] \ {p} /\ Remaining(r)' = Remaining(r) /\ Remaining(r) = 1
        /\ handles[r] \subseteq Param
    BY <1>3, <1>5, <2>1, <2>2 DEF Remaining
  <2>5. /\ \A q \in handles'[r] : comms'[r][q] = steps[r] \div J
        /\ \A q \in Param \ handles'[r] : delay'[r][q] = J /\ comms'[r][q] = (steps[r] \div J) + 1
    BY <2>1, <2>2, <2>3, <2>4
  <2> QED
    BY <1>5, <2>1, <2>2, <2>4, <2>5 DEF RankLocal
<1> QED
  BY <1>12, <1>13, <1>14, <1>15, <1>16, <1>17, <1>18, <1>19, <1>20, <1>21, <1>22, <1>23 DEF Process

LEMMA LocalStep == TypeInv /\ LocalInv /\ [Next]_vars => LocalInv'
<1> SUFFICES ASSUME TypeInv, LocalInv, [Next]_vars PROVE LocalInv'
  OBVIOUS
<1>1. ASSUME UNCHANGED <<setup, todo, mpc, delay, step_delay, handles, steps, comms>>
      PROVE  LocalInv'
  BY <1>1 DEF LocalInv, RankLocal, CountedInRound, Counted, Remaining, AfterHooks, J, cls
<1>2. ASSUME NEW op \in Exchanges, \A r \in Rank : Now(r, op),
             todo' = [r \in Rank |-> Tail(todo[r])],
             UNCHANGED <<setup, mpc, delay, step_delay, handles, steps, comms>>
      PROVE  LocalInv'
  <2>1. SUFFICES ASSUME NEW r \in Rank, RankLocal(r)
                 PROVE  RankLocal(r)'
    BY <1>2 DEF LocalInv, cls
  <2>2. /\ mpc[r] = "run" /\ todo[r] # <<>> /\ Head(todo[r]).op \in Exchanges
        /\ todo[r] \in Seq(Call) /\ todo'[r] = Tail(todo[r]) /\ mpc'[r] = "run"
    BY <1>2 DEF Now, TypeInv, ControlType
  <2>3. Chained(todo[r])
    BY <2>1 DEF RankLocal
  <2>4. Tail(todo[r]) # <<>> => Head(Tail(todo[r])).op \notin AfterHooks
    BY <2>2, <2>3, ChainedTail DEF Exchanges, AfterHooks
  <2>5. Counted(r, Remaining(r))
    BY <2>1, <2>2 DEF RankLocal, CountedInRound, Exchanges, AfterHooks
  <2>6. CountedInRound(r)'
    BY <1>2, <2>2, <2>4, <2>5 DEF CountedInRound, Counted, Remaining, AfterHooks, J, cls
  <2> QED
    BY <1>2, <2>1, <2>2, <2>6, LocalReturn DEF TypeInv
<1>3. CASE BroadcastParameters \/ AllreduceParameters \/ BroadcastOptimizerState
  BY <1>2, <1>3
     DEF BroadcastParameters, AllreduceParameters, ExchangeParameters, BroadcastOptimizerState,
         Exchanges
<1>4. CASE UNCHANGED vars
  BY <1>1, <1>4 DEF vars
<1> QED
  BY <1>1, <1>3, <1>4, LocalProcess DEF Next, Terminating, Communication, Collective, OneSided

\* The class that averages gradients starts what is missing in every step, so
\* each step communicates every parameter.
RankEvery(r) ==
    /\ Chained(todo[r])
    /\ mpc[r] # "barrier"
    /\ mpc[r] = "run" => \A p \in Param : comms[r][p] = steps[r]
    /\ mpc[r] = "wait" =>
         \A p \in Param : comms[r][p] = steps[r] + (IF p \in handles[r] THEN 0 ELSE 1)
EveryInv == (setup.doc = "local" /\ cls = "gradient") => \A r \in Rank : RankEvery(r)

LEMMA EveryInit == Init => EveryInv
<1> SUFFICES ASSUME Init, setup.doc = "local", NEW r \in Rank PROVE RankEvery(r)
  BY DEF EveryInv
<1>1. LocalScript(setup.script[r]) /\ todo[r] = setup.script[r]
  BY LocalAssumption DEF Init
<1>2. Chained(todo[r])
  BY <1>1 DEF LocalScript, Chained
<1>3. mpc[r] \in {"run", "failed"} /\ steps[r] = 0 /\ \A p \in Param : comms[r][p] = 0
  BY DEF Init
<1> QED
  BY <1>2, <1>3 DEF RankEvery

LEMMA EveryProcess ==
    ASSUME TypeInv, cls = "gradient", NEW r \in Rank, Process(r), RankEvery(r)
    PROVE  RankEvery(r)'
<1> USE DEF Now
<1>0. /\ todo[r] \in Seq(Call) /\ steps[r] \in Nat /\ comms[r] \in [Param -> Nat]
      /\ DOMAIN todo = Rank /\ DOMAIN mpc = Rank /\ DOMAIN steps = Rank /\ DOMAIN comms = Rank
      /\ handles \in [Rank -> SUBSET Param]
  BY DEF TypeInv, ControlType
<1>1. todo[r] # <<>> => Head(todo[r]).op \notin {"synchronize", "skip_step"} /\ Chained(Tail(todo[r]))
  BY <1>0, ChainedHead, ChainedTail DEF RankEvery
<1>2. ASSUME mpc[r] = "run", todo[r] # <<>>, Return(r), UNCHANGED <<mpc, steps, comms>>
      PROVE  RankEvery(r)'
  BY <1>0, <1>1, <1>2 DEF RankEvery, Return
<1>3. ASSUME mpc' = [mpc EXCEPT ![r] = "failed"], UNCHANGED todo
      PROVE  RankEvery(r)'
  BY <1>0, <1>3 DEF RankEvery
<1>4. CASE Forward(r) \/ EvalForward(r) \/ Backward(r)
  BY <1>2, <1>4 DEF Forward, EvalForward, Backward
<1>5. CASE ZeroGrad(r)
  BY <1>2, <1>3, <1>5 DEF ZeroGrad
<1>6. ASSUME AtcBackward(r) \/ AtcStep(r) \/ Synchronize(r) \/ SkipStep(r) \/ LeaveBarrier(r)
      PROVE  FALSE
  BY <1>1, <1>6 DEF AtcBackward, AtcStep, Synchronize, SkipStep, LeaveBarrier, RankEvery
<1>7. CASE Step(r)
  <2>1. StartSynchronize(r) /\ mpc[r] = "run" /\ UNCHANGED <<todo, steps, comms>>
    BY <1>7 DEF Step, force_barrier
  <2>2. handles'[r] = Param /\ mpc'[r] = "wait"
    BY <1>0, <2>1 DEF StartSynchronize, Missing
  <2> QED
    BY <1>0, <2>1, <2>2 DEF RankEvery
<1>8. CASE EndSynchronize(r)
  <2>1. mpc[r] = "wait" /\ handles[r] = {} /\ todo[r] # <<>>
    BY <1>8 DEF EndSynchronize, TypeInv, CallInv
  <2>2. Head(todo[r]).op = "step"
    BY <1>1, <2>1 DEF TypeInv, CallInv
  <2>3. StepDone(r) /\ mpc' = [mpc EXCEPT ![r] = "run"] /\ comms' = comms
    BY <1>8, <2>2 DEF EndSynchronize
  <2>4. todo'[r] = Tail(todo[r]) /\ steps'[r] = steps[r] + 1 /\ mpc'[r] = "run"
    BY <1>0, <2>3 DEF StepDone, Return
  <2>5. \A p \in Param : comms[r][p] = steps[r] + 1
    BY <2>1 DEF RankEvery
  <2> QED
    BY <1>1, <2>1, <2>3, <2>4, <2>5 DEF RankEvery
<1>9. ASSUME NEW q \in Param, SyncParam(r, q) PROVE RankEvery(r)'
  <2>1. /\ mpc[r] = "wait" /\ q \in handles[r] /\ UNCHANGED <<todo, mpc, steps>>
        /\ comms' = [comms EXCEPT ![r][q] = @ + 1] /\ handles' = [handles EXCEPT ![r] = @ \ {q}]
    BY <1>9 DEF SyncParam
  <2>2. ASSUME NEW p \in Param
        PROVE  comms'[r][p] = steps[r] + (IF p \in handles'[r] THEN 0 ELSE 1)
    <3>1. comms[r][p] = steps[r] + (IF p \in handles[r] THEN 0 ELSE 1)
      BY <2>1 DEF RankEvery
    <3>2. comms'[r][p] = IF p = q THEN comms[r][p] + 1 ELSE comms[r][p]
      BY <1>0, <2>1
    <3>3. p \in handles'[r] <=> p \in handles[r] /\ p # q
      BY <1>0, <2>1
    <3> QED
      BY <1>0, <2>1, <3>1, <3>2, <3>3
  <2> QED
    BY <2>1, <2>2 DEF RankEvery
<1> QED
  BY <1>4, <1>5, <1>6, <1>7, <1>8, <1>9 DEF Process

LEMMA EveryStep == TypeInv /\ EveryInv /\ [Next]_vars => EveryInv'
<1> SUFFICES ASSUME TypeInv, EveryInv, [Next]_vars PROVE EveryInv'
  OBVIOUS
<1>0. setup' = setup
  BY SetupKept
<1>1. SUFFICES ASSUME cls = "gradient", NEW s \in Rank, RankEvery(s) PROVE RankEvery(s)'
  BY <1>0 DEF EveryInv, cls
<1>2. ASSUME UNCHANGED <<todo, mpc, handles, steps, comms>> PROVE RankEvery(s)'
  BY <1>1, <1>2 DEF RankEvery
<1>3. ASSUME NEW r \in Rank, Process(r) PROVE RankEvery(s)'
  <2>1. CASE s = r
    BY <1>1, <1>3, <2>1, EveryProcess
  <2>2. CASE s # r
    BY <1>1, <1>3, <2>2, Others DEF RankEvery, TypeInv
  <2> QED
    BY <2>1, <2>2
<1>4. ASSUME NEW op, \A r \in Rank : Now(r, op), todo' = [r \in Rank |-> Tail(todo[r])],
             UNCHANGED <<mpc, handles, steps, comms>>
      PROVE  RankEvery(s)'
  <2>1. Chained(todo'[s]) /\ mpc[s] = "run"
    BY <1>1, <1>4, ChainedTail DEF Now, TypeInv, ControlType, RankEvery
  <2> QED
    BY <1>1, <1>4, <2>1 DEF RankEvery
<1>5. CASE Communication
  BY <1>2, <1>4, <1>5 DEF Communication, BroadcastParameters, AllreduceParameters,
                          ExchangeParameters, BroadcastOptimizerState, Collective, OneSided
<1>6. CASE UNCHANGED vars
  BY <1>2, <1>6 DEF vars
<1> QED
  BY <1>3, <1>5, <1>6 DEF Next, Terminating

\* The delay counters of the hooks stay within num_steps_per_communication, a
\* nonblocking operation under way has a handle, and in the local-update usage
\* every J-th step communicates each parameter once and no other step does, or
\* every step if gradients are averaged: for every class, every J, every number
\* of rounds, ranks and parameters.
THEOREM CountersStayConsistent == Spec => []CountersConsistent
<1>1. Init => TypeInv /\ LocalInv /\ EveryInv
  BY TypeInit, LocalInit, EveryInit
<1>2. TypeInv /\ LocalInv /\ EveryInv /\ [Next]_vars => TypeInv' /\ LocalInv' /\ EveryInv'
  BY TypeStep, LocalStep, EveryStep
<1>3. TypeInv /\ LocalInv /\ EveryInv => CountersConsistent
  <2>1. LocalInv /\ EveryInv => CommunicationEveryJ
    <3>1. CASE cls = "gradient"
      BY <3>1 DEF EveryInv, RankEvery, CommunicationEveryJ
    <3>2. CASE cls # "gradient"
      BY <3>2 DEF LocalInv, RankLocal, CommunicationEveryJ
    <3> QED
      BY <3>1, <3>2
  <2> QED
    BY <2>1, TypeImplied DEF CountersConsistent
<1> QED
  BY <1>1, <1>2, <1>3, PTL DEF Spec

-----------------------------------------------------------------------------
(* No gradient is lost: what the operations under way keep                   *)

\* The rank's own tensor is in the result of a collective operation.
CollectedInv ==
    (cls \in {"gradient", "reduce", "atc"} /\ ~Silent) =>
        \A r \in Rank, p \in Param :
            ~warned[r] /\ p \in handles[r] \ pend[r] => Kept(r)[p] \subseteq out[r][p]

\* Push-sum: what a rank has put is in the windows of the job.
InWindows(p, x) ==
    \E s \in Rank : x \in reg[s][p] \/ \E q \in Peers[s] : x \in buf[s][q][p]
Heard == \A r \in Rank : \E s \in Rank : r \in Peers[s]
StoredInv ==
    (cls = "push_sum" /\ Heard) =>
        \A r \in Rank, p \in Param :
            p \in handles[r] \ pend[r] => \A x \in param[r][p] : InWindows(p, x)

LEMMA AnywhereIs ==
    ASSUME NEW p \in Param, NEW x
    PROVE  x \in Anywhere(p) <=> InWindows(p, x) \/ \E s \in Rank : x \in param[s][p]
BY DEF Anywhere, InWindows

LEMMA WarnedGrows ==
    ASSUME ControlType, NEW r \in Rank, Process(r), NEW s \in Rank, warned[s]
    PROVE  warned'[s]
<1>0. warned \in [Rank -> BOOLEAN]
  BY DEF ControlType
<1>1. ASSUME NEW ps, RunHooks(r, ps) PROVE warned'[s]
  <2>1. warned' = [warned EXCEPT ![r] = warned[r] \/ Overrun(r, ps)]
    BY <1>1 DEF RunHooks
  <2>2. CASE s = r
    BY <1>0, <2>1, <2>2, Zenon
  <2>3. CASE s # r
    BY <1>0, <2>1, <2>3
  <2> QED
    BY <2>2, <2>3
<1> QED
  BY <1>1 DEF Process, Forward, EvalForward, Backward, AtcBackward, ZeroGrad, Synchronize, Step,
              LeaveBarrier, SkipStep, AtcStep, EndSynchronize, SyncParam

\* An operation gets its handle when it is started, an empty one excepted.
LEMMA HandlesStart ==
    ASSUME ControlType, NEW r \in Rank, Process(r), ~Silent, NEW s \in Rank,
           NEW p \in handles'[s] \ pend'[s]
    PROVE  p \in handles[s] \ pend[s]
<1>0. handles \in [Rank -> SUBSET Param] /\ pend \in [Rank -> SUBSET Param]
  BY DEF ControlType
<1>1. ASSUME NEW ps, RunHooks(r, ps) PROVE p \in handles[s] \ pend[s]
  BY <1>0, <1>1 DEF RunHooks
<1>2. ASSUME StartSynchronize(r) PROVE p \in handles[s] \ pend[s]
  BY <1>0, <1>2 DEF StartSynchronize
<1>3. ASSUME UNCHANGED <<handles, pend>> PROVE p \in handles[s] \ pend[s]
  BY <1>3
<1>4. ASSUME NEW q \in Param, SyncParam(r, q) PROVE p \in handles[s] \ pend[s]
  BY <1>0, <1>4 DEF SyncParam
<1>5. CASE Forward(r)
  BY <1>1, <1>3, <1>5 DEF Forward
<1>6. CASE Backward(r) \/ AtcBackward(r)
  BY <1>1, <1>3, <1>6 DEF Backward, AtcBackward
<1>7. CASE EvalForward(r) \/ ZeroGrad(r) \/ SkipStep(r) \/ EndSynchronize(r)
  BY <1>3, <1>7 DEF EvalForward, ZeroGrad, SkipStep, EndSynchronize
<1>8. CASE Synchronize(r) \/ Step(r) \/ LeaveBarrier(r)
  BY <1>2, <1>3, <1>8 DEF Synchronize, Step, LeaveBarrier
<1>9. CASE AtcStep(r)
  BY <1>2, <1>3, <1>9 DEF AtcStep
<1> QED
  BY <1>4, <1>5, <1>6, <1>7, <1>8, <1>9 DEF Process

LEMMA CollectedStep == OrderlyInv /\ CollectedInv /\ [Next]_vars => CollectedInv'
<1> SUFFICES ASSUME OrderlyInv, CollectedInv, [Next]_vars PROVE CollectedInv'
  OBVIOUS
<1>0. setup' = setup
  BY SetupKept
<1>1. SUFFICES ASSUME cls \in {"gradient", "reduce", "atc"}, ~Silent,
                      NEW s \in Rank, NEW p \in Param, ~warned'[s], p \in handles'[s] \ pend'[s]
               PROVE  Kept(s)[p]' \subseteq out'[s][p]
  BY <1>0 DEF CollectedInv, cls, Silent
<1>2. ASSUME ~warned[s], p \in handles[s] \ pend[s] PROVE Kept(s)[p] \subseteq out[s][p]
  BY <1>1, <1>2 DEF CollectedInv
<1>3. ControlType /\ DataType /\ TypeInv
  BY DEF OrderlyInv, TypeInv
<1>4. ASSUME NEW r \in Rank, Process(r) PROVE Kept(s)[p]' \subseteq out'[s][p]
  <2>1. ~warned[s] /\ p \in handles[s] \ pend[s]
    BY <1>1, <1>3, <1>4, WarnedGrows, HandlesStart
  <2>2. Kept(s)[p]' = Kept(s)[p]
    BY <1>1, <1>4, <2>1, HandledProcess DEF OrderlyInv
  <2>3. out'[s][p] = out[s][p]
    <3>1. CASE ~Forward(r)
      BY <1>4, <3>1
         DEF Process, EvalForward, Backward, AtcBackward, ZeroGrad, Synchronize, Step,
             LeaveBarrier, SkipStep, AtcStep, EndSynchronize, SyncParam
    <3>2. CASE Forward(r)
      <4>1. Copied(r, Param)[p] = out[r][p]
        BY <1>1 DEF Copied
      <4>2. out' = out \/ out' = [out EXCEPT ![r] = Copied(r, Param)]
        BY <3>2 DEF Forward
      <4> QED
        BY <1>3, <4>1, <4>2 DEF DataType
    <3> QED
      BY <3>1, <3>2
  <2> QED
    BY <1>2, <2>1, <2>2, <2>3
<1>5. ASSUME NEW q \in Param, Collective(q) PROVE Kept(s)[p]' \subseteq out'[s][p]
  <2>1. /\ out' = [r \in Rank |-> [out[r] EXCEPT ![q] = UNION {Tensor(t)[q] : t \in Flow(r)}]]
        /\ pend' = [r \in Rank |-> pend[r] \ {q}]
        /\ UNCHANGED <<setup, handles, param, grad, warned>>
    BY <1>5 DEF Collective
  <2>6. Tensor(s) = Kept(s)
    BY <1>1, KeptTensor
  <2>2. Kept(s)' = Kept(s)
    BY <2>1 DEF Kept, cls
  <2>3. out[s] \in [Param -> SUBSET Work] /\ out'[s] = [out[s] EXCEPT ![q] = UNION {Tensor(t)[q] : t \in Flow(s)}]
    BY <1>3, <2>1 DEF DataType, Tensors
  <2>4. CASE p = q
    <3>1. s \in Flow(s)
      <4>1. s \in Rank /\ s \in {s} \cup Peers[s] /\ s \in {s}
        OBVIOUS
      <4>2. s \in {t \in Rank : \E w \in {s} \cup Peers[s] : Machine(t) = Machine(w)}
        BY <4>1
      <4> QED
        BY <4>1, <4>2, Zenon DEF Flow
    <3>2. Kept(s)[q] \subseteq UNION {Tensor(t)[q] : t \in Flow(s)}
      BY <2>6, <3>1
    <3>3. out'[s][q] = UNION {Tensor(t)[q] : t \in Flow(s)}
      BY <2>3
    <3> QED
      BY <2>2, <2>4, <3>2, <3>3
  <2>5. CASE p # q
    <3>1. out'[s][p] = out[s][p]
      BY <2>3, <2>5
    <3>2. p \in handles[s] \ pend[s] /\ ~warned[s]
      BY <1>1, <2>1, <2>5
    <3> QED
      BY <1>2, <2>2, <3>1, <3>2
  <2> QED
    BY <2>4, <2>5
<1>6. ASSUME UNCHANGED <<handles, pend, out, warned>>, Kept(s)[p]' = Kept(s)[p]
      PROVE  Kept(s)[p]' \subseteq out'[s][p]
  BY <1>1, <1>2, <1>6
<1>7. CASE Communication /\ ~\E q \in Param : Collective(q)
  <2>1. UNCHANGED <<handles, pend, out, warned>>
    BY <1>1, <1>7 DEF Communication, BroadcastParameters, AllreduceParameters, ExchangeParameters,
                      BroadcastOptimizerState, OneSided
  <2>2. p \in handles[s]
    BY <1>1, <2>1
  <2>3. Kept(s)[p]' = Kept(s)[p]
    BY <1>7, <2>2, HandledCommunication DEF OrderlyInv
  <2> QED
    BY <1>6, <2>1, <2>3
<1>8. CASE UNCHANGED vars
  BY <1>6, <1>8 DEF vars, Kept, cls
<1> QED
  BY <1>4, <1>5, <1>7, <1>8 DEF Next, Terminating

\* A collected window is emptied into the tensor that is registered for it.
LEMMA WindowsCollected ==
    ASSUME TypeInv, cls = "push_sum", NEW r \in Rank, NEW q \in Param, SyncParam(r, q),
           NEW p \in Param, NEW x, InWindows(p, x)
    PROVE  InWindows(p, x)'
<1>0. /\ reg \in [Rank -> [Param -> SUBSET Work]] /\ DOMAIN buf = Rank
      /\ \A s \in Rank : buf[s] \in [Peers[s] -> [Param -> SUBSET Work]]
  BY DEF TypeInv, DataType, Tensors
<1>1. Result(r, q) = reg[r][q] \cup Received(r, q)
  <2>1. cls # "win_put" /\ ~Silent
    BY DEF Silent
  <2> QED
    BY <2>1, Zenon DEF Result
<1> DEFINE w == Result(r, q)
<1>2. /\ reg' = [reg EXCEPT ![r][q] = w]
      /\ buf' = [buf EXCEPT ![r] = [s \in Peers[r] |-> [buf[r][s] EXCEPT ![q] = {}]]]
  BY DEF SyncParam
<1>3. \A y \in reg[r][q] : y \in w
  BY <1>1
<1>4. \A s \in Peers[r] : \A y \in buf[r][s][q] : y \in w
  BY <1>1 DEF Received
<1> HIDE DEF w
<1>5. reg'[r][q] = w /\ \A s \in Rank : s # r \/ p # q => reg'[s][p] = reg[s][p]
  BY <1>0, <1>2
<1>6. \A s \in Rank : s # r => buf'[s] = buf[s]
  BY <1>0, <1>2
<1>7. p # q => \A s \in Peers[r] : buf'[r][s][p] = buf[r][s][p]
  BY <1>0, <1>2
<1>8. PICK s \in Rank : x \in reg[s][p] \/ \E t \in Peers[s] : x \in buf[s][t][p]
  BY DEF InWindows
<1>9. CASE s = r /\ p = q
  <2>1. x \in reg'[r][p]
    BY <1>3, <1>4, <1>5, <1>8, <1>9
  <2> QED
    BY <2>1 DEF InWindows
<1>10. CASE s # r \/ p # q
  <2>1. x \in reg'[s][p] \/ \E t \in Peers[s] : x \in buf'[s][t][p]
    BY <1>5, <1>6, <1>7, <1>8, <1>10
  <2> QED
    BY <2>1 DEF InWindows
<1> QED
  BY <1>9, <1>10

\* win_accumulate adds to what is there, and leaves the rank's own part.
LEMMA WindowsPut ==
    ASSUME TypeInv, cls = "push_sum", NEW r \in Rank, NEW q \in Param, OneSided(r, q),
           NEW p \in Param, NEW x
    PROVE  /\ InWindows(p, x) => InWindows(p, x)'
           /\ Heard /\ x \in out[r][q] => InWindows(q, x)'
<1>00. Tensor(r) = out[r]
  BY KeptTensor
<1>0. DOMAIN buf = Rank /\ \A s \in Rank : buf[s] \in [Peers[s] -> [Param -> SUBSET Work]]
  BY DEF TypeInv, DataType, Tensors
<1>1. ASSUME NEW s \in Rank, r \in Peers[s]
      PROVE  buf'[s] = [buf[s] EXCEPT ![r] = [buf[s][r] EXCEPT ![q] = out[r][q] \cup buf[s][r][q]]]
  BY <1>00, <1>1 DEF OneSided
<1>2. ASSUME NEW s \in Rank, r \notin Peers[s]
      PROVE  buf'[s] = buf[s]
  BY <1>2 DEF OneSided
<1>3. reg' = reg
  BY DEF OneSided
<1>4. ASSUME NEW s \in Rank, NEW t \in Peers[s], x \in buf[s][t][p]
      PROVE  x \in buf'[s][t][p]
  <2>1. CASE r \notin Peers[s]
    BY <1>2, <1>4, <2>1
  <2>2. CASE r \in Peers[s]
    <3> DEFINE w == out[r][q] \cup buf[s][r][q]
    <3>1. buf[s][r][q] \subseteq w /\ buf'[s] = [buf[s] EXCEPT ![r] = [buf[s][r] EXCEPT ![q] = w]]
      BY <1>1, <2>2
    <3> HIDE DEF w
    <3>2. buf[s] \in [Peers[s] -> [Param -> SUBSET Work]] /\ buf[s][r] \in [Param -> SUBSET Work]
      BY <1>0, <2>2
    <3>3. buf'[s][t] = IF t = r THEN [buf[s][r] EXCEPT ![q] = w] ELSE buf[s][t]
      BY <3>1, <3>2
    <3> QED
      BY <1>4, <3>1, <3>2, <3>3
  <2> QED
    BY <2>1, <2>2
<1>5. ASSUME NEW s \in Rank, r \in Peers[s], x \in out[r][q]
      PROVE  x \in buf'[s][r][q]
  <2> DEFINE w == out[r][q] \cup buf[s][r][q]
  <2>1. x \in w /\ buf'[s] = [buf[s] EXCEPT ![r] = [buf[s][r] EXCEPT ![q] = w]]
    BY <1>1, <1>5
  <2> HIDE DEF w
  <2>2. buf[s] \in [Peers[s] -> [Param -> SUBSET Work]] /\ buf[s][r] \in [Param -> SUBSET Work]
    BY <1>0, <1>5
  <2>3. buf'[s][r] = [buf[s][r] EXCEPT ![q] = w]
    BY <1>5, <2>1, <2>2
  <2> QED
    BY <2>1, <2>2, <2>3
<1>6. ASSUME InWindows(p, x) PROVE InWindows(p, x)'
  BY <1>3, <1>4, <1>6 DEF InWindows
<1>7. ASSUME Heard, x \in out[r][q] PROVE InWindows(q, x)'
  BY <1>5, <1>7 DEF InWindows, Heard
<1> QED
  BY <1>6, <1>7

LEMMA WindowsGrow ==
    ASSUME TypeInv, cls = "push_sum", [Next]_vars, NEW p \in Param, NEW x, InWindows(p, x)
    PROVE  InWindows(p, x)'
<1>1. ASSUME UNCHANGED <<reg, buf>> PROVE InWindows(p, x)'
  BY <1>1 DEF InWindows
<1>2. ASSUME NEW r \in Rank, NEW q \in Param, OneSided(r, q) PROVE InWindows(p, x)'
  BY <1>2, WindowsPut
<1>3. CASE Communication
  BY <1>1, <1>2, <1>3 DEF Communication, BroadcastParameters, AllreduceParameters,
                          ExchangeParameters, BroadcastOptimizerState, Collective
<1>4. ASSUME NEW r \in Rank, Process(r) PROVE InWindows(p, x)'
  <2>1. ASSUME NEW q \in Param, SyncParam(r, q) PROVE InWindows(p, x)'
    BY <2>1, WindowsCollected
  <2> QED
    BY <1>1, <1>4, <2>1
       DEF Process, Forward, EvalForward, Backward, AtcBackward, ZeroGrad, Synchronize, Step,
           LeaveBarrier, SkipStep, AtcStep, EndSynchronize
<1>5. CASE UNCHANGED vars
  BY <1>1, <1>5 DEF vars
<1> QED
  BY <1>3, <1>4, <1>5 DEF Next, Terminating

LEMMA StoredStep == OrderlyInv /\ StoredInv /\ [Next]_vars => StoredInv'
<1> SUFFICES ASSUME OrderlyInv, StoredInv, [Next]_vars PROVE StoredInv'
  OBVIOUS
<1>0. setup' = setup
  BY SetupKept
<1>1. SUFFICES ASSUME cls = "push_sum", Heard,
                      NEW s \in Rank, NEW p \in Param, p \in handles'[s] \ pend'[s],
                      NEW x \in param'[s][p]
               PROVE  InWindows(p, x)'
  BY <1>0 DEF StoredInv, cls
<1>2. TypeInv /\ ControlType /\ ~Silent
  BY <1>1 DEF OrderlyInv, TypeInv, Silent
<1>3. ASSUME p \in handles[s] \ pend[s], Kept(s)[p]' = Kept(s)[p]
      PROVE  InWindows(p, x)'
  <2>1. x \in param[s][p]
    BY <1>0, <1>1, <1>3 DEF Kept, cls
  <2>2. InWindows(p, x)
    BY <1>1, <1>3, <2>1 DEF StoredInv
  <2> QED
    BY <1>1, <1>2, <2>2, WindowsGrow
<1>4. ASSUME NEW r \in Rank, Process(r) PROVE InWindows(p, x)'
  <2>1. p \in handles[s] \ pend[s]
    BY <1>1, <1>2, <1>4, HandlesStart
  <2>2. Kept(s)[p]' = Kept(s)[p]
    BY <1>1, <1>4, <2>1, HandledProcess DEF OrderlyInv
  <2> QED
    BY <1>3, <2>1, <2>2
<1>5. ASSUME NEW r \in Rank, NEW q \in Param, OneSided(r, q) PROVE InWindows(p, x)'
  <2>1. pend' = [pend EXCEPT ![r] = @ \ {q}] /\ UNCHANGED <<setup, handles, param, grad>>
    BY <1>5 DEF OneSided
  <2>2. CASE s = r /\ p = q
    <3>1. x \in param[r][q] /\ q \in handles[r]
      BY <1>1, <2>1, <2>2
    <3>2. x \in out[r][q]
      BY <1>1, <3>1 DEF OrderlyInv, CopyInv
    <3> QED
      BY <1>1, <1>2, <1>5, <2>2, <3>2, WindowsPut
  <2>3. CASE ~(s = r /\ p = q)
    <3>1. p \in handles[s] \ pend[s]
      BY <1>1, <1>2, <2>1, <2>3 DEF ControlType
    <3>2. Kept(s)[p]' = Kept(s)[p]
      BY <2>1 DEF Kept, cls
    <3> QED
      BY <1>3, <3>1, <3>2
  <2> QED
    BY <2>2, <2>3
<1>6. CASE Communication /\ ~\E r \in Rank, q \in Param : OneSided(r, q)
  <2>1. UNCHANGED <<handles, pend>>
    BY <1>1, <1>6 DEF Communication, BroadcastParameters, AllreduceParameters, ExchangeParameters,
                      BroadcastOptimizerState, Collective
  <2>2. p \in handles[s] \ pend[s]
    BY <1>1, <2>1
  <2>3. Kept(s)[p]' = Kept(s)[p]
    BY <1>6, <2>2, HandledCommunication DEF OrderlyInv
  <2> QED
    BY <1>3, <2>2, <2>3
<1>7. CASE UNCHANGED vars
  <2>1. p \in handles[s] \ pend[s] /\ Kept(s)[p]' = Kept(s)[p]
    BY <1>1, <1>7 DEF vars, Kept, cls
  <2> QED
    BY <1>3, <2>1
<1> QED
  BY <1>4, <1>5, <1>6, <1>7 DEF Next, Terminating

-----------------------------------------------------------------------------
(* No gradient is lost: the gradients of a rank that has not warned          *)

\* Where the gradients of rank r for p are after a step.
Home(r, p) == IF cls = "push_sum" THEN Anywhere(p) ELSE param[r][p]

\* A step writes a parameter by adding to it, or by taking a result.
LEMMA ParamProcess ==
    ASSUME TypeInv, NEW r \in Rank, Process(r), NEW s \in Rank, NEW p \in Param
    PROVE  \/ param[s][p] \subseteq param'[s][p]
           \/ s = r /\ SyncParam(r, p) /\ cls # "gradient"
<1>0. param \in [Rank -> [Param -> SUBSET Work]]
  BY DEF TypeInv, DataType, Tensors
<1>1. CASE s # r
  BY <1>1, Others DEF TypeInv
<1>2. ASSUME param' = [param EXCEPT ![r] = Apply(@, grad[r])]
      PROVE  param[s][p] \subseteq param'[s][p]
  BY <1>0, <1>2 DEF Apply
<1>3. ASSUME NEW ps, NEW g, param' = [param EXCEPT ![r] = StepFunc(@, ps, g)]
      PROVE  param[s][p] \subseteq param'[s][p]
  BY <1>0, <1>3 DEF StepFunc
<1>4. ASSUME NEW q \in Param, SyncParam(r, q), s = r
      PROVE  param[s][p] \subseteq param'[s][p] \/ (SyncParam(r, p) /\ cls # "gradient")
  <2>1. CASE q = p /\ cls # "gradient"
    BY <1>4, <2>1
  <2>2. CASE ~(q = p /\ cls # "gradient")
    BY <1>0, <1>4, <2>2 DEF SyncParam
  <2> QED
    BY <2>1, <2>2
<1>5. CASE param' = param
  BY <1>5
<1>6. CASE AtcBackward(r)
  BY <1>3, <1>5, <1>6 DEF AtcBackward
<1>7. CASE EndSynchronize(r)
  <2>1. \/ param' = [param EXCEPT ![r] = Apply(@, grad[r])] \/ param' = param
        \/ param' = [param EXCEPT ![r] = param[r]]
    BY <1>7 DEF EndSynchronize
  <2> QED
    BY <1>0, <1>2, <2>1
<1> QED
  BY <1>1, <1>2, <1>4, <1>5, <1>6, <1>7
     DEF Process, Forward, EvalForward, Backward, ZeroGrad, Synchronize, Step, LeaveBarrier,
         SkipStep, AtcStep

LEMMA ResultKeeps ==
    ASSUME OrderlyInv, CollectedInv, NEW r \in Rank, NEW p \in Param, SyncParam(r, p),
           ~warned[r], cls # "push_sum"
    PROVE  Kept(r)[p] \subseteq Result(r, p)
<1>1. p \in handles[r] \ pend[r]
  BY DEF SyncParam
<1>2. cls \in Class
  BY SetupFacts DEF OrderlyInv, TypeInv, ControlType
<1>3. CASE cls = "win_put"
  <2>1. cls # "push_sum" /\ ~Silent /\ cls # "gradient"
    BY <1>3 DEF Silent
  <2>2. Result(r, p) = param[r][p] \cup Received(r, p)
    BY <1>3, <2>1, Zenon DEF Result
  <2> QED
    BY <2>1, <2>2 DEF Kept
<1>4. CASE Silent
  <2>1. cls # "win_put" /\ cls # "gradient"
    BY <1>4 DEF Silent
  <2>2. Result(r, p) = param[r][p]
    BY <1>4, <2>1, Zenon DEF Result
  <2> QED
    BY <2>1, <2>2 DEF Kept
<1>5. CASE cls # "win_put" /\ ~Silent
  <2>1. Result(r, p) = out[r][p]
    BY <1>5, Zenon DEF Result
  <2>2. cls \in {"gradient", "reduce", "atc"}
    BY <1>2, <1>5 DEF Class
  <2> QED
    BY <1>1, <1>5, <2>1, <2>2 DEF CollectedInv
<1> QED
  BY <1>3, <1>4, <1>5

LEMMA HomeGrows ==
    ASSUME OrderlyInv, CollectedInv, StoredInv, cls = "push_sum" => Heard,
           NEW r \in Rank, Process(r), NEW s \in Rank, NEW p \in Param, ~warned'[s]
    PROVE  Home(s, p) \subseteq Home(s, p)'
<1>0. setup' = setup /\ TypeInv /\ ControlType /\ [Next]_vars
  BY SetupKept DEF OrderlyInv, TypeInv, Next
<1>1. CASE cls = "push_sum"
  <2> SUFFICES ASSUME NEW x \in Anywhere(p) PROVE x \in Anywhere(p)'
    BY <1>0, <1>1 DEF Home, cls
  <2>1. ASSUME InWindows(p, x) PROVE x \in Anywhere(p)'
    <3>1. InWindows(p, x)'
      BY <1>0, <1>1, <2>1, WindowsGrow
    <3> QED
      BY <3>1 DEF Anywhere, InWindows
  <2>2. ASSUME NEW t \in Rank, x \in param[t][p] PROVE x \in Anywhere(p)'
    <3>1. CASE param[t][p] \subseteq param'[t][p]
      BY <2>2, <3>1 DEF Anywhere
    <3>2. CASE t = r /\ SyncParam(r, p)
      <4>1. p \in handles[r] \ pend[r]
        BY <3>2 DEF SyncParam
      <4>2. InWindows(p, x)
        BY <1>1, <2>2, <3>2, <4>1 DEF StoredInv
      <4> QED
        BY <2>1, <4>2
    <3> QED
      BY <1>0, <3>1, <3>2, ParamProcess
  <2> QED
    BY <2>1, <2>2, AnywhereIs
<1>2. CASE cls # "push_sum"
  <2>1. CASE param[s][p] \subseteq param'[s][p]
    BY <1>0, <1>2, <2>1 DEF Home, cls
  <2>2. CASE s = r /\ SyncParam(r, p) /\ cls # "gradient"
    <3>1. ~warned[r]
      BY <1>0, <2>2, WarnedGrows
    <3>2. param[r][p] \subseteq Result(r, p)
      BY <1>2, <2>2, <3>1, ResultKeeps DEF Kept
    <3>3. param'[r][p] = Result(r, p)
      <4>1. param \in [Rank -> [Param -> SUBSET Work]]
        BY <1>0 DEF TypeInv, DataType, Tensors
      <4>2. param' = [param EXCEPT ![r][p] = Result(r, p)]
        BY <2>2 DEF SyncParam
      <4> QED
        BY <4>1, <4>2
    <3> QED
      BY <1>0, <1>2, <2>2, <3>2, <3>3 DEF Home, cls
  <2> QED
    BY <1>0, <2>1, <2>2, ParamProcess
<1> QED
  BY <1>1, <1>2

Clears == {"zero_grad", "broadcast_optimizer_state"}
\* Gradients that only p.grad holds.
Unapplied(r) == \E p \in Param : ~(made[r][p] \subseteq Home(r, p))

\* Adapt then combine: the hook that uses up the count of p applies what there is.
AtcGrad(r) ==
    cls = "atc" =>
        /\ mpc[r] = "run" /\ todo[r] # <<>> /\ Head(todo[r]).op # "skip_step" =>
             \A p \in Param : step_delay[r][p] = 0 => made[r][p] \subseteq param[r][p]
        /\ mpc[r] = "wait" /\ HeadIs(r, {"step"}) => ~Unapplied(r)
RankGrad(r) ==
    /\ \A p \in Param : /\ due[r][p] \subseteq made[r][p]
                        /\ due[r][p] \subseteq Home(r, p)
                        /\ made[r][p] \subseteq Home(r, p) \cup grad[r][p]
    /\ Unapplied(r) /\ mpc[r] # "failed" =>
         /\ Before(todo[r], StepCalls, Clears)
         /\ cls = "atc" => Before(todo[r], {"step"}, {"backward"})
    /\ (\E p \in Param : made[r][p] # {}) => Before(todo[r], {}, {"broadcast_parameters"})
    /\ AtcGrad(r)
RankScript(r) ==
    /\ Separated(todo[r], {"backward"}, StepCalls, Clears)
    /\ Separated(todo[r], {"backward"}, {}, {"broadcast_parameters"})
    /\ cls = "atc" => Separated(todo[r], {"backward"}, {"step"}, {"backward"})
GradInv == \A r \in Rank : RankScript(r) /\ (warned[r] \/ RankGrad(r))

LEMMA ScriptTail ==
    ASSUME NEW r \in Rank, todo[r] \in Seq(Call), RankScript(r), setup' = setup,
           todo'[r] = todo[r] \/ (todo[r] # <<>> /\ todo'[r] = Tail(todo[r]))
    PROVE  RankScript(r)'
<1>1. CASE todo'[r] = todo[r]
  BY <1>1 DEF RankScript, cls
<1>2. CASE todo[r] # <<>> /\ todo'[r] = Tail(todo[r])
  BY <1>2, SeparatedTail DEF RankScript, cls
<1> QED
  BY <1>1, <1>2

\* A step that does not move on in the script.
LEMMA GradQuiet ==
    ASSUME NEW r \in Rank, RankGrad(r), setup' = setup, todo'[r] = todo[r],
           mpc[r] # "failed" \/ mpc'[r] = "failed",
           made'[r] = made[r], due'[r] = due[r],
           \A p \in Param : Home(r, p) \subseteq Home(r, p)' /\ grad[r][p] \subseteq grad'[r][p],
           AtcGrad(r)'
    PROVE  RankGrad(r)'
<1>1. \A p \in Param : /\ due'[r][p] \subseteq made'[r][p]
                       /\ due'[r][p] \subseteq Home(r, p)'
                       /\ made'[r][p] \subseteq Home(r, p)' \cup grad'[r][p]
  BY DEF RankGrad
<1>2. Unapplied(r)' => Unapplied(r)
  BY DEF Unapplied
<1>3. cls' = cls
  BY DEF cls
<1>4. Unapplied(r)' /\ mpc'[r] # "failed" =>
         /\ Before(todo'[r], StepCalls, Clears)
         /\ cls' = "atc" => Before(todo'[r], {"step"}, {"backward"})
  BY <1>2, <1>3 DEF RankGrad
<1>5. (\E p \in Param : made'[r][p] # {}) => Before(todo'[r], {}, {"broadcast_parameters"})
  BY DEF RankGrad
<1> QED
  BY <1>1, <1>4, <1>5 DEF RankGrad

\* A call that is neither a pass nor a step returns.
LEMMA GradReturn ==
    ASSUME NEW r \in Rank, todo[r] \in Seq(Call), todo[r] # <<>>, RankGrad(r), setup' = setup,
           mpc[r] # "failed",
           todo'[r] = Tail(todo[r]), Head(todo[r]).op \notin StepCalls \cup {"backward"},
           made'[r] = made[r], due'[r] = due[r],
           \A p \in Param : /\ Home(r, p) \subseteq Home(r, p)'
                            /\ made[r][p] \subseteq Home(r, p)' \cup grad'[r][p],
           AtcGrad(r)'
    PROVE  RankGrad(r)'
<1>1. \A p \in Param : /\ due'[r][p] \subseteq made'[r][p]
                       /\ due'[r][p] \subseteq Home(r, p)'
                       /\ made'[r][p] \subseteq Home(r, p)' \cup grad'[r][p]
  BY DEF RankGrad
<1>2. Unapplied(r)' => Unapplied(r)
  BY DEF Unapplied
<1>3. cls' = cls
  BY DEF cls
<1>4. Head(todo[r]).op \notin StepCalls /\ Head(todo[r]).op \notin {"step"} /\ Head(todo[r]).op \notin {}
  BY DEF StepCalls
<1>5. Unapplied(r)' =>
         /\ Before(todo'[r], StepCalls, Clears)
         /\ cls' = "atc" => Before(todo'[r], {"step"}, {"backward"})
  BY <1>2, <1>3, <1>4, BeforeTail DEF RankGrad
<1>6. (\E p \in Param : made'[r][p] # {}) => Before(todo'[r], {}, {"broadcast_parameters"})
  BY <1>4, BeforeTail DEF RankGrad
<1> QED
  BY <1>1, <1>5, <1>6 DEF RankGrad

\* A step is done and has applied all there is.
LEMMA GradStep ==
    ASSUME NEW r \in Rank, todo[r] \in Seq(Call), todo[r] # <<>>, RankGrad(r), setup' = setup,
           todo'[r] = Tail(todo[r]), mpc'[r] = "run", made'[r] = made[r],
           \A p \in Param : /\ due'[r][p] = made[r][p]
                            /\ made[r][p] \subseteq Home(r, p)'
    PROVE  RankGrad(r)'
<1>1. \A p \in Param : /\ due'[r][p] \subseteq made'[r][p]
                       /\ due'[r][p] \subseteq Home(r, p)'
                       /\ made'[r][p] \subseteq Home(r, p)' \cup grad'[r][p]
  OBVIOUS
<1>2. ~Unapplied(r)'
  BY DEF Unapplied
<1>3. (\E p \in Param : made'[r][p] # {}) => Before(todo'[r], {}, {"broadcast_parameters"})
  BY BeforeTail DEF RankGrad
<1>4. AtcGrad(r)'
  <2>1. cls' = "atc" => \A p \in Param : Home(r, p)' = param'[r][p]
    BY DEF Home
  <2> QED
    BY <2>1 DEF AtcGrad
<1> QED
  BY <1>1, <1>2, <1>3, <1>4 DEF RankGrad

\* A backward pass.
LEMMA GradBackward ==
    ASSUME NEW r \in Rank, todo[r] \in Seq(Call), todo[r] # <<>>, RankGrad(r), RankScript(r),
           setup' = setup, todo'[r] = Tail(todo[r]), Head(todo[r]).op = "backward",
           due'[r] = due[r],
           \A p \in Param : Home(r, p) \subseteq Home(r, p)',
           NEW ps, NEW g,
           \A p \in Param : /\ made'[r][p] = made[r][p] \cup (IF p \in ps THEN g ELSE {})
                            /\ grad'[r][p] = grad[r][p] \cup (IF p \in ps THEN g ELSE {}),
           AtcGrad(r)'
    PROVE  RankGrad(r)'
<1>1. \A p \in Param : /\ due'[r][p] \subseteq made'[r][p]
                       /\ due'[r][p] \subseteq Home(r, p)'
                       /\ made'[r][p] \subseteq Home(r, p)' \cup grad'[r][p]
  BY DEF RankGrad
<1>2. cls' = cls
  BY DEF cls
<1>3. /\ Before(todo'[r], StepCalls, Clears)
      /\ cls' = "atc" => Before(todo'[r], {"step"}, {"backward"})
      /\ Before(todo'[r], {}, {"broadcast_parameters"})
  BY <1>2, SeparatedTail DEF RankScript
<1> QED
  BY <1>1, <1>3 DEF RankGrad

LEMMA GradProcess ==
    ASSUME OrderlyInv, CollectedInv, StoredInv, cls = "push_sum" => Heard, GradInv,
           NEW r \in Rank, Process(r)
    PROVE  GradInv'
<1> USE DEF Now
<1>0. setup' = setup /\ TypeInv /\ ControlType /\ DataType
  BY SetupKept DEF OrderlyInv, TypeInv, Next
<1>1. cls' = cls /\ J' = J
  BY <1>0 DEF cls, J
<1>2. /\ mpc \in [Rank -> {"run", "barrier", "wait", "failed"}] /\ todo \in [Rank -> Seq(Call)]
      /\ handles \in [Rank -> SUBSET Param] /\ step_delay \in [Rank -> [Param -> Int]]
      /\ param \in [Rank -> [Param -> SUBSET Work]] /\ grad \in [Rank -> [Param -> SUBSET Work]]
      /\ made \in [Rank -> [Param -> SUBSET Work]] /\ due \in [Rank -> [Param -> SUBSET Work]]
  BY <1>0 DEF ControlType, DataType, Tensors
<1>3. ASSUME NEW s \in Rank, s # r
      PROVE  RankScript(s)' /\ (warned'[s] \/ RankGrad(s)')
  <2>1. /\ todo'[s] = todo[s] /\ mpc'[s] = mpc[s] /\ step_delay'[s] = step_delay[s]
        /\ param'[s] = param[s] /\ grad'[s] = grad[s] /\ warned'[s] = warned[s]
        /\ made'[s] = made[s] /\ due'[s] = due[s]
    BY <1>0, <1>3, Others
  <2>2. RankScript(s) /\ (warned[s] \/ RankGrad(s))
    BY DEF GradInv
  <2>3. RankScript(s)'
    BY <1>1, <2>1, <2>2 DEF RankScript
  <2>4. ASSUME ~warned'[s] PROVE RankGrad(s)'
    <3>1. RankGrad(s)
      BY <2>1, <2>2, <2>4
    <3>2. \A p \in Param : Home(s, p) \subseteq Home(s, p)' /\ grad[s][p] \subseteq grad'[s][p]
      BY <2>1, <2>4, HomeGrows
    <3>3. Unapplied(s)' => Unapplied(s)
      BY <2>1, <3>2 DEF Unapplied
    <3>4. AtcGrad(s)'
      BY <1>1, <2>1, <3>1, <3>3 DEF RankGrad, AtcGrad, HeadIs
    <3>5. mpc[s] # "failed" \/ mpc'[s] = "failed"
      BY <2>1
    <3> QED
      BY <1>0, <2>1, <3>1, <3>2, <3>4, <3>5, GradQuiet
  <2> QED
    BY <2>3, <2>4
<1>4. todo'[r] = todo[r] \/ (todo[r] # <<>> /\ todo'[r] = Tail(todo[r]))
  <2>1. CallInv
    BY <1>0 DEF TypeInv
  <2>2. ASSUME todo[r] # <<>>, Return(r) PROVE todo'[r] = Tail(todo[r])
    BY <1>2, <2>2 DEF Return
  <2>3. CASE Forward(r) \/ EvalForward(r) \/ Backward(r) \/ AtcBackward(r) \/ ZeroGrad(r)
    BY <2>2, <2>3 DEF Forward, EvalForward, Backward, AtcBackward, ZeroGrad
  <2>4. CASE SkipStep(r) \/ AtcStep(r)
    BY <2>2, <2>4 DEF SkipStep, AtcStep, StepDone
  <2>5. CASE LeaveBarrier(r) \/ EndSynchronize(r)
    BY <2>1, <2>2, <2>5 DEF LeaveBarrier, EndSynchronize, StepDone, CallInv
  <2> QED
    BY <2>3, <2>4, <2>5 DEF Process, Synchronize, Step, SyncParam
<1>5. RankScript(r) /\ RankScript(r)' /\ todo[r] \in Seq(Call)
  BY <1>0, <1>2, <1>4, ScriptTail DEF GradInv
<1>6. SUFFICES ASSUME ~warned'[r] PROVE RankGrad(r)'
  BY <1>3, <1>5 DEF GradInv
<1>7. ~warned[r] /\ RankGrad(r)
  BY <1>0, <1>6, WarnedGrows DEF GradInv
<1>8. \A p \in Param : Home(r, p) \subseteq Home(r, p)'
  BY <1>6, HomeGrows
<1>9. ASSUME UNCHANGED <<made, due>>, \A p \in Param : grad[r][p] \subseteq grad'[r][p],
             todo'[r] = todo[r], mpc[r] # "failed",
             mpc'[r] \in {"failed", "barrier", "wait"},
             cls = "atc" /\ mpc'[r] = "wait" /\ HeadIs(r, {"step"}) => ~Unapplied(r)'
      PROVE  RankGrad(r)'
  <2>1. AtcGrad(r)'
    BY <1>1, <1>9 DEF AtcGrad, HeadIs
  <2> QED
    BY <1>0, <1>7, <1>8, <1>9, <2>1, GradQuiet
\* A call between the passes and the steps.
<1>10. ASSUME UNCHANGED <<made, due, step_delay>>, mpc[r] = "run", todo[r] # <<>>,
              Head(todo[r]).op \notin StepCalls \cup {"backward"}, todo'[r] = Tail(todo[r]),
              \A p \in Param : made[r][p] \subseteq Home(r, p)' \cup grad'[r][p],
              mpc'[r] = "run"
       PROVE  RankGrad(r)'
  <2>1. ASSUME cls = "atc", NEW p \in Param, step_delay[r][p] = 0
        PROVE  made[r][p] \subseteq param'[r][p]
    <3>1. made[r][p] \subseteq param[r][p]
      BY <1>7, <1>10, <2>1 DEF RankGrad, AtcGrad, StepCalls
    <3>2. param[r][p] \subseteq param'[r][p]
      BY <1>1, <1>8, <2>1 DEF Home
    <3> QED
      BY <3>1, <3>2
  <2>2. AtcGrad(r)'
    BY <1>1, <1>10, <2>1 DEF AtcGrad
  <2> QED
    BY <1>0, <1>5, <1>7, <1>8, <1>10, <2>2, GradReturn
<1>11. \A p \in Param : made[r][p] \subseteq Home(r, p)' \cup grad[r][p]
  BY <1>7, <1>8 DEF RankGrad
\* What a step of the torch optimizer applies.
<1>12. ASSUME param' = [param EXCEPT ![r] = Apply(@, grad[r])]
       PROVE  \A p \in Param : made[r][p] \subseteq Home(r, p)'
  <2> SUFFICES ASSUME NEW p \in Param PROVE grad[r][p] \subseteq Home(r, p)'
    BY <1>11
  <2>1. grad[r][p] \subseteq param'[r][p]
    BY <1>2, <1>12 DEF Apply
  <2>2. CASE cls = "push_sum"
    <3>1. param'[r][p] \subseteq Anywhere(p)'
      BY DEF Anywhere
    <3> QED
      BY <1>1, <2>1, <2>2, <3>1 DEF Home
  <2>3. CASE cls # "push_sum"
    BY <1>1, <2>1, <2>3 DEF Home
  <2> QED
    BY <2>2, <2>3
<1>13. ASSUME StepDone(r), todo[r] # <<>>
       PROVE  todo'[r] = Tail(todo[r]) /\ \A p \in Param : due'[r][p] = made[r][p]
  BY <1>2, <1>13 DEF StepDone, Return
<1>14. CASE Forward(r)
  <2>1. /\ UNCHANGED <<made, due, step_delay, grad>> /\ mpc[r] = "run" /\ todo[r] # <<>>
        /\ Head(todo[r]).op = "forward" /\ mpc'[r] = "run" /\ todo'[r] = Tail(todo[r])
    BY <1>2, <1>14 DEF Forward, Return
  <2> QED
    BY <1>10, <1>11, <2>1 DEF StepCalls
<1>15. CASE EvalForward(r)
  <2>1. /\ UNCHANGED <<made, due, step_delay, grad>> /\ mpc[r] = "run" /\ todo[r] # <<>>
        /\ Head(todo[r]).op = "eval" /\ mpc'[r] = "run" /\ todo'[r] = Tail(todo[r])
    BY <1>2, <1>15 DEF EvalForward, Return
  <2> QED
    BY <1>10, <1>11, <2>1 DEF StepCalls
<1>16. ASSUME NEW ps, grad' = Accumulate(grad, r, ps, Fresh(r)), made' = Accumulate(made, r, ps, Fresh(r))
       PROVE  \A p \in Param : /\ made'[r][p] = made[r][p] \cup (IF p \in ps THEN Fresh(r) ELSE {})
                               /\ grad'[r][p] = grad[r][p] \cup (IF p \in ps THEN Fresh(r) ELSE {})
  BY <1>2, <1>16 DEF Accumulate
<1>17. CASE Backward(r)
  <2> DEFINE ps == Head(todo[r]).used
  <2>1. /\ todo[r] # <<>> /\ Head(todo[r]).op = "backward" /\ cls # "atc" /\ due' = due
        /\ todo'[r] = Tail(todo[r])
        /\ grad' = Accumulate(grad, r, ps, Fresh(r)) /\ made' = Accumulate(made, r, ps, Fresh(r))
    BY <1>2, <1>17 DEF Backward, Return
  <2> HIDE DEF ps
  <2>2. AtcGrad(r)'
    BY <1>1, <2>1 DEF AtcGrad
  <2>3. \A p \in Param : /\ made'[r][p] = made[r][p] \cup (IF p \in ps THEN Fresh(r) ELSE {})
                         /\ grad'[r][p] = grad[r][p] \cup (IF p \in ps THEN Fresh(r) ELSE {})
    BY <1>16, <2>1
  <2> QED
    BY <1>0, <1>5, <1>7, <1>8, <2>1, <2>2, <2>3, GradBackward
<1>18. CASE AtcBackward(r)
  <2>1. CASE ~setup.func
    <3>1. /\ UNCHANGED <<made, due, grad, todo>> /\ mpc[r] = "run" /\ mpc'[r] = "failed"
      BY <1>2, <1>18, <2>1 DEF AtcBackward
    <3> QED
      BY <1>9, <3>1
  <2>2. CASE setup.func
    <3> DEFINE ps == Head(todo[r]).used
               now == {p \in ps : step_delay[r][p] = 1}
    <3>1. /\ mpc[r] = "run" /\ todo[r] # <<>> /\ Head(todo[r]).op = "backward" /\ cls = "atc"
          /\ due' = due /\ todo'[r] = Tail(todo[r]) /\ mpc' = mpc
          /\ grad' = Accumulate(grad, r, ps, Fresh(r)) /\ made' = Accumulate(made, r, ps, Fresh(r))
          /\ step_delay' = [step_delay EXCEPT ![r] = Count(@, ps)]
          /\ param' = [param EXCEPT ![r] = StepFunc(@, now, Fresh(r))]
      BY <1>2, <1>18, <2>2 DEF AtcBackward, Return
    <3>2. \A p \in Param : p \in now <=> p \in ps /\ step_delay[r][p] = 1
      OBVIOUS
    <3> HIDE DEF ps, now
    <3>3. \A p \in Param : /\ made'[r][p] = made[r][p] \cup (IF p \in ps THEN Fresh(r) ELSE {})
                           /\ grad'[r][p] = grad[r][p] \cup (IF p \in ps THEN Fresh(r) ELSE {})
      BY <1>16, <3>1
    <3>4. \A p \in Param : /\ step_delay'[r][p] = IF p \in ps THEN step_delay[r][p] - 1 ELSE step_delay[r][p]
                           /\ param'[r][p] = IF p \in now THEN param[r][p] \cup Fresh(r) ELSE param[r][p]
      BY <1>2, <3>1 DEF Count, StepFunc
    <3>5. \A p \in Param : made[r][p] \subseteq param[r][p]
      <4>1. ~Before(todo[r], {"step"}, {"backward"})
        BY <1>5, <3>1, BeforeTail
      <4>2. ~Unapplied(r)
        BY <1>7, <3>1, <4>1 DEF RankGrad
      <4> QED
        BY <3>1, <4>2 DEF Unapplied, Home
    <3>6. \A p \in Param : step_delay'[r][p] = 0 => made'[r][p] \subseteq param'[r][p]
      <4> SUFFICES ASSUME NEW p \in Param, step_delay'[r][p] = 0
                   PROVE  made'[r][p] \subseteq param'[r][p]
        OBVIOUS
      <4>1. step_delay[r][p] \in Int
        BY <1>2
      <4>2. CASE p \in ps
        <5>1. step_delay'[r][p] = step_delay[r][p] - 1
          BY <3>4, <4>2
        <5>2. step_delay[r][p] = 1
          BY <4>1, <5>1
        <5> QED
          BY <3>2, <3>3, <3>4, <3>5, <4>2, <5>2
      <4>3. CASE p \notin ps
        BY <3>2, <3>3, <3>4, <3>5, <4>3
      <4> QED
        BY <4>2, <4>3
    <3>7. AtcGrad(r)'
      BY <3>1, <3>6 DEF AtcGrad
    <3> QED
      BY <1>0, <1>5, <1>7, <1>8, <3>1, <3>3, <3>7, GradBackward
  <2> QED
    BY <2>1, <2>2
<1>19. CASE ZeroGrad(r)
  <2>1. mpc[r] = "run" /\ todo[r] # <<>> /\ Head(todo[r]).op = "zero_grad" /\ UNCHANGED <<made, due, step_delay>>
    BY <1>19 DEF ZeroGrad
  <2>2. CASE ZeroGradRefused(r)
    <3>1. UNCHANGED <<grad, todo>> /\ mpc'[r] = "failed"
      BY <1>2, <1>19, <2>2 DEF ZeroGrad
    <3> QED
      BY <1>9, <2>1, <3>1
  <2>3. CASE ~ZeroGradRefused(r)
    <3>1. mpc'[r] = "run" /\ todo'[r] = Tail(todo[r])
      BY <1>2, <1>19, <2>1, <2>3 DEF ZeroGrad, Return
    <3>2. ~Before(todo[r], StepCalls, Clears)
      BY <1>5, <2>1, BeforeTail DEF Clears
    <3>3. ~Unapplied(r)
      BY <1>7, <2>1, <3>2 DEF RankGrad
    <3>4. \A p \in Param : made[r][p] \subseteq Home(r, p)'
      BY <1>8, <3>3 DEF Unapplied
    <3> QED
      BY <1>10, <2>1, <3>1, <3>4 DEF StepCalls
  <2> QED
    BY <2>2, <2>3
<1>20. CASE Synchronize(r)
  <2>1. /\ mpc[r] = "run" /\ todo[r] # <<>> /\ Head(todo[r]).op = "synchronize"
        /\ UNCHANGED <<made, due, grad, todo>> /\ mpc'[r] = "wait"
    BY <1>2, <1>20 DEF Synchronize, StartSynchronize
  <2> QED
    BY <1>9, <2>1 DEF HeadIs
<1>21. CASE Step(r)
  <2>1. /\ mpc[r] = "run" /\ cls # "atc"
        /\ UNCHANGED <<made, due, grad, todo>> /\ mpc'[r] \in {"wait", "barrier"}
    BY <1>2, <1>21 DEF Step, StartSynchronize
  <2> QED
    BY <1>9, <2>1
<1>22. CASE LeaveBarrier(r)
  <2>1. mpc[r] = "barrier" /\ todo[r] # <<>> /\ UNCHANGED <<made, grad>>
    BY <1>0, <1>22 DEF LeaveBarrier, TypeInv, CallInv
  <2>2. cls # "atc"
    BY <2>1 DEF OrderlyInv, AtcInv, RankAtc
  <2>3. CASE Head(todo[r]).op = "step"
    <3>1. UNCHANGED <<due, todo>> /\ mpc'[r] = "wait"
      BY <1>2, <1>22, <2>3 DEF LeaveBarrier, StartSynchronize
    <3> QED
      BY <1>9, <2>1, <2>2, <3>1
  <2>4. CASE Head(todo[r]).op # "step"
    <3>1. param' = [param EXCEPT ![r] = Apply(@, grad[r])] /\ StepDone(r) /\ mpc'[r] = "run"
      BY <1>2, <1>22, <2>4 DEF LeaveBarrier
    <3> QED
      BY <1>0, <1>5, <1>7, <1>12, <1>13, <2>1, <3>1, GradStep
  <2> QED
    BY <2>3, <2>4
<1>23. CASE SkipStep(r)
  <2>1. /\ param' = [param EXCEPT ![r] = Apply(@, grad[r])] /\ StepDone(r) /\ mpc'[r] = "run"
        /\ todo[r] # <<>> /\ UNCHANGED made
    BY <1>2, <1>23 DEF SkipStep
  <2> QED
    BY <1>0, <1>5, <1>7, <1>12, <1>13, <2>1, GradStep
<1>24. CASE AtcStep(r)
  <2>1. /\ mpc[r] = "run" /\ todo[r] # <<>> /\ Head(todo[r]).op = "step" /\ cls = "atc"
        /\ UNCHANGED <<made, grad>>
    BY <1>24 DEF AtcStep
  <2>2. CASE handles[r] = {}
    <3>1. /\ param' = [param EXCEPT ![r] = Apply(@, grad[r])] /\ StepDone(r) /\ mpc'[r] = "run"
      BY <1>2, <1>24, <2>1, <2>2 DEF AtcStep
    <3> QED
      BY <1>0, <1>5, <1>7, <1>12, <1>13, <2>1, <3>1, GradStep
  <2>3. ASSUME param' = [param EXCEPT ![r] = Apply(@, grad[r])], StartSynchronize(r), UNCHANGED <<todo, due>>
        PROVE  RankGrad(r)'
    <3>1. ~Unapplied(r)'
      BY <1>12, <2>1, <2>3 DEF Unapplied
    <3>2. mpc'[r] = "wait"
      BY <1>2, <2>3 DEF StartSynchronize
    <3> QED
      BY <1>9, <2>1, <2>3, <3>1, <3>2
  <2>4. ASSUME \A p \in Param : step_delay[r][p] = 0, StartSynchronize(r), UNCHANGED <<todo, due>>
        PROVE  RankGrad(r)'
    <3>1. \A p \in Param : made[r][p] \subseteq param[r][p]
      BY <1>7, <2>1, <2>4 DEF RankGrad, AtcGrad
    <3>2. \A p \in Param : made[r][p] \subseteq Home(r, p)
      BY <2>1, <3>1 DEF Home
    <3>3. ~Unapplied(r)'
      BY <1>8, <2>1, <3>2 DEF Unapplied
    <3>4. mpc'[r] = "wait"
      BY <1>2, <2>4 DEF StartSynchronize
    <3> QED
      BY <1>9, <2>1, <2>4, <3>3, <3>4
  <2>5. ASSUME mpc' = [mpc EXCEPT ![r] = "failed"], UNCHANGED <<todo, due>>
        PROVE  RankGrad(r)'
    BY <1>2, <1>9, <2>1, <2>5
  <2> QED
    BY <1>24, <2>2, <2>3, <2>4, <2>5 DEF AtcStep
<1>25. CASE EndSynchronize(r)
  <2>1. /\ mpc[r] = "wait" /\ todo[r] # <<>> /\ mpc'[r] = "run"
        /\ Head(todo[r]).op \in {"step", "synchronize"} /\ UNCHANGED <<made, grad, step_delay>>
    BY <1>0, <1>2, <1>25 DEF EndSynchronize, TypeInv, CallInv
  <2>2. CASE Head(todo[r]).op = "step"
    <3>1. StepDone(r)
      BY <1>25, <2>2 DEF EndSynchronize
    <3>2. \A p \in Param : made[r][p] \subseteq Home(r, p)'
      <4>1. CASE cls = "atc"
        <5>1. ~Unapplied(r)
          BY <1>7, <2>1, <2>2, <4>1 DEF RankGrad, AtcGrad, HeadIs
        <5> QED
          BY <1>8, <5>1 DEF Unapplied
      <4>2. CASE cls # "atc"
        <5>1. param' = [param EXCEPT ![r] = Apply(@, grad[r])]
          BY <1>25, <2>2, <4>2 DEF EndSynchronize
        <5> QED
          BY <1>12, <5>1
      <4> QED
        BY <4>1, <4>2
    <3> QED
      BY <1>0, <1>5, <1>7, <1>13, <2>1, <3>1, <3>2, GradStep
  <2>3. CASE Head(todo[r]).op = "synchronize"
    <3>1. due' = due /\ todo'[r] = Tail(todo[r])
      BY <1>2, <1>25, <2>1, <2>3 DEF EndSynchronize, Return
    <3>2. Paired(todo[r])
      BY DEF OrderlyInv, OrderInv, RankOrder
    <3>3. Tail(todo[r]) # <<>> => Head(Tail(todo[r])).op = "skip_step"
      BY <1>5, <2>1, <2>3, <3>2, PairedTail
    <3>4. AtcGrad(r)'
      BY <2>1, <3>1, <3>3 DEF AtcGrad
    <3>5. Head(todo[r]).op \notin StepCalls \cup {"backward"}
      BY <2>3 DEF StepCalls
    <3> QED
      BY <1>0, <1>5, <1>7, <1>8, <1>11, <2>1, <3>1, <3>4, <3>5, GradReturn
  <2> QED
    BY <2>1, <2>2, <2>3
<1>26. ASSUME NEW q \in Param, SyncParam(r, q)
       PROVE  RankGrad(r)'
  <2>1. mpc[r] = "wait" /\ UNCHANGED <<made, due, todo, mpc>>
    BY <1>26 DEF SyncParam
  <2>2. \A p \in Param : grad[r][p] \subseteq grad'[r][p]
    <3>1. CASE cls # "gradient"
      BY <1>26, <3>1 DEF SyncParam
    <3>2. CASE cls = "gradient"
      <4>1. grad[r][q] \subseteq Result(r, q)
        BY <1>7, <1>26, <3>2, ResultKeeps DEF Kept
      <4>2. grad' = [grad EXCEPT ![r][q] = Result(r, q)]
        BY <1>26, <3>2 DEF SyncParam
      <4> QED
        BY <1>2, <4>1, <4>2
    <3> QED
      BY <3>1, <3>2
  <2>3. cls = "atc" /\ HeadIs(r, {"step"}) => ~Unapplied(r)
    BY <1>7, <2>1 DEF RankGrad, AtcGrad
  <2>4. Unapplied(r)' => Unapplied(r)
    BY <1>8, <2>1 DEF Unapplied
  <2> QED
    BY <1>9, <2>1, <2>2, <2>3, <2>4
<1> QED
  BY <1>14, <1>15, <1>17, <1>18, <1>19, <1>20, <1>21, <1>22, <1>23, <1>24, <1>25, <1>26 DEF Process

LEMMA GradCommunication ==
    ASSUME OrderlyInv, GradInv, Communication
    PROVE  GradInv'
<1>0. setup' = setup /\ TypeInv /\ ControlType /\ DataType /\ [Next]_vars
  BY SetupKept DEF OrderlyInv, TypeInv, Next
<1>1. /\ cls' = cls /\ UNCHANGED <<mpc, step_delay, warned, made, due>>
  BY <1>0 DEF cls, Communication, BroadcastParameters, AllreduceParameters, ExchangeParameters,
              BroadcastOptimizerState, Collective, OneSided
<1>2. /\ todo \in [Rank -> Seq(Call)] /\ param \in [Rank -> [Param -> SUBSET Work]]
      /\ made \in [Rank -> [Param -> SUBSET Work]] /\ grad \in [Rank -> [Param -> SUBSET Work]]
  BY <1>0 DEF ControlType, DataType, Tensors
<1>3. SUFFICES ASSUME NEW r \in Rank
               PROVE  RankScript(r)' /\ (~warned[r] => RankGrad(r)')
  BY <1>1 DEF GradInv
<1>4. /\ RankScript(r) /\ (~warned[r] => RankGrad(r)) /\ todo[r] \in Seq(Call)
  BY <1>2 DEF GradInv
<1>5. ASSUME todo' = todo, \A p \in Param : Home(r, p) \subseteq Home(r, p)' /\ grad'[r][p] = grad[r][p],
             cls = "atc" => param' = param
      PROVE  RankScript(r)' /\ (~warned[r] => RankGrad(r)')
  <2>1. RankScript(r)'
    BY <1>0, <1>4, <1>5, ScriptTail
  <2>2. ASSUME RankGrad(r) PROVE RankGrad(r)'
    <3>1. Unapplied(r)' => Unapplied(r)
      BY <1>1, <1>5 DEF Unapplied
    <3>2. AtcGrad(r)'
      BY <1>1, <1>5, <2>2, <3>1 DEF RankGrad, AtcGrad, HeadIs
    <3>3. mpc[r] # "failed" \/ mpc'[r] = "failed"
      BY <1>1
    <3> QED
      BY <1>0, <1>1, <1>5, <2>2, <3>2, <3>3, GradQuiet
  <2> QED
    BY <1>4, <2>1, <2>2
<1>6. ASSUME NEW op \in Exchanges, \A s \in Rank : Now(s, op),
             todo' = [s \in Rank |-> Tail(todo[s])],
             \/ \A p \in Param : made[r][p] = {}
             \/ \A p \in Param : Home(r, p) \subseteq Home(r, p)' /\ grad'[r][p] = grad[r][p]
             \/ param' = param /\ \A p \in Param : Home(r, p)' = Home(r, p) /\ made[r][p] \subseteq Home(r, p),
             ~warned[r]
      PROVE  RankGrad(r)'
  <2>1. /\ mpc[r] = "run" /\ todo[r] # <<>> /\ Head(todo[r]).op \in Exchanges
        /\ todo'[r] = Tail(todo[r]) /\ RankGrad(r)
    BY <1>4, <1>6 DEF Now
  <2>2. CASE \A p \in Param : made[r][p] = {}
    <3>1. \A p \in Param : due[r][p] = {}
      BY <2>1, <2>2 DEF RankGrad
    <3>2. ~Unapplied(r)' /\ AtcGrad(r)'
      BY <1>1, <2>2 DEF Unapplied, AtcGrad
    <3> QED
      BY <1>1, <2>2, <3>1, <3>2 DEF RankGrad
  <2>3. ASSUME \A p \in Param : Home(r, p) \subseteq Home(r, p)' /\ made[r][p] \subseteq Home(r, p)' \cup grad'[r][p]
        PROVE  RankGrad(r)'
    <3>1. cls = "atc" => \A p \in Param : step_delay[r][p] = 0 => made[r][p] \subseteq param[r][p]
      BY <2>1 DEF RankGrad, AtcGrad, Exchanges
    <3>2. cls = "atc" => \A p \in Param : param[r][p] \subseteq param'[r][p]
      BY <1>1, <2>3 DEF Home
    <3>3. AtcGrad(r)'
      BY <1>1, <2>1, <3>1, <3>2 DEF AtcGrad
    <3>4. Head(todo[r]).op \notin StepCalls \cup {"backward"} /\ mpc[r] # "failed"
      BY <2>1 DEF Exchanges, StepCalls
    <3> QED
      BY <1>0, <1>1, <1>4, <2>1, <2>3, <3>3, <3>4, GradReturn
  <2>4. CASE \A p \in Param : Home(r, p) \subseteq Home(r, p)' /\ grad'[r][p] = grad[r][p]
    BY <2>1, <2>3, <2>4 DEF RankGrad
  <2>5. CASE param' = param /\ \A p \in Param : Home(r, p)' = Home(r, p) /\ made[r][p] \subseteq Home(r, p)
    BY <2>3, <2>5
  <2> QED
    BY <1>6, <2>2, <2>4, <2>5
<1>7. ASSUME NEW op, \A s \in Rank : Now(s, op), todo' = [s \in Rank |-> Tail(todo[s])]
      PROVE  RankScript(r)' /\ todo[r] # <<>> /\ Head(todo[r]).op = op /\ mpc[r] = "run"
  BY <1>0, <1>4, <1>7, ScriptTail DEF Now
<1>8. CASE BroadcastParameters
  <2>1. /\ \A s \in Rank : Now(s, "broadcast_parameters")
        /\ todo' = [s \in Rank |-> Tail(todo[s])]
    BY <1>8 DEF BroadcastParameters, ExchangeParameters
  <2>2. RankScript(r)' /\ todo[r] # <<>> /\ Head(todo[r]).op = "broadcast_parameters"
    BY <1>7, <2>1
  <2>3. ~Before(todo[r], {}, {"broadcast_parameters"})
    BY <1>4, <2>2, BeforeTail
  <2>4. ASSUME ~warned[r] PROVE \A p \in Param : made[r][p] = {}
    BY <1>4, <2>3, <2>4 DEF RankGrad
  <2> QED
    BY <1>6, <2>1, <2>2, <2>4 DEF Exchanges
<1>9. CASE AllreduceParameters
  <2>1. /\ \A s \in Rank : Now(s, "allreduce_parameters")
        /\ todo' = [s \in Rank |-> Tail(todo[s])]
        /\ param' = [s \in Rank |-> [p \in Param |-> UNION {param[t][p] : t \in Rank}]]
        /\ UNCHANGED <<grad, reg, buf>>
    BY <1>9 DEF AllreduceParameters, ExchangeParameters
  <2>2. \A s \in Rank, p \in Param : param[s][p] \subseteq param'[s][p]
    BY <2>1
  <2>3. \A p \in Param : Home(r, p) \subseteq Home(r, p)'
    <3> SUFFICES ASSUME NEW p \in Param PROVE Home(r, p) \subseteq Home(r, p)'
      OBVIOUS
    <3>1. Anywhere(p) \subseteq Anywhere(p)'
      BY <2>1, <2>2 DEF Anywhere
    <3> QED
      BY <1>1, <2>2, <3>1 DEF Home
  <2>4. \A p \in Param : Home(r, p) \subseteq Home(r, p)' /\ grad'[r][p] = grad[r][p]
    BY <2>1, <2>3
  <2>5. RankScript(r)'
    BY <1>7, <2>1
  <2>6. "allreduce_parameters" \in Exchanges
    BY DEF Exchanges
  <2> QED
    BY <1>6, <2>1, <2>4, <2>5, <2>6
<1>10. CASE BroadcastOptimizerState
  <2>1. /\ \A s \in Rank : Now(s, "broadcast_optimizer_state")
        /\ todo' = [s \in Rank |-> Tail(todo[s])]
        /\ UNCHANGED <<param, reg, buf>>
    BY <1>10 DEF BroadcastOptimizerState
  <2>2. RankScript(r)' /\ todo[r] # <<>> /\ Head(todo[r]).op = "broadcast_optimizer_state" /\ mpc[r] = "run"
    BY <1>7, <2>1
  <2>3. ~Before(todo[r], StepCalls, Clears)
    BY <1>4, <2>2, BeforeTail DEF Clears
  <2>4. ASSUME ~warned[r] PROVE ~Unapplied(r)
    BY <1>4, <2>2, <2>3, <2>4 DEF RankGrad
  <2>5. \A p \in Param : Home(r, p)' = Home(r, p)
    BY <1>1, <2>1 DEF Home, Anywhere
  <2>6. ~warned[r] => param' = param /\ \A p \in Param : Home(r, p)' = Home(r, p) /\ made[r][p] \subseteq Home(r, p)
    BY <2>1, <2>4, <2>5 DEF Unapplied
  <2>7. "broadcast_optimizer_state" \in Exchanges
    BY DEF Exchanges
  <2> QED
    BY <1>6, <2>1, <2>2, <2>6, <2>7
<1>11. ASSUME NEW q \in Param, Collective(q)
       PROVE  RankScript(r)' /\ (~warned[r] => RankGrad(r)')
  <2>1. UNCHANGED <<todo, param, grad, reg, buf>>
    BY <1>11 DEF Collective
  <2>2. \A p \in Param : Home(r, p)' = Home(r, p)
    BY <1>1, <2>1 DEF Home, Anywhere
  <2> QED
    BY <1>5, <2>1, <2>2
<1>12. ASSUME NEW q \in Param, NEW s \in Rank, OneSided(s, q)
       PROVE  RankScript(r)' /\ (~warned[r] => RankGrad(r)')
  <2>1. UNCHANGED <<todo, param, grad>>
    BY <1>12 DEF OneSided
  <2>2. \A p \in Param : Home(r, p) \subseteq Home(r, p)'
    <3>1. CASE cls = "push_sum"
      <4> SUFFICES ASSUME NEW p \in Param, NEW x \in Anywhere(p) PROVE x \in Anywhere(p)'
        BY <1>1, <3>1 DEF Home
      <4>1. CASE InWindows(p, x)
        <5>1. InWindows(p, x)'
          BY <1>0, <3>1, <4>1, WindowsGrow
        <5> QED
          BY <5>1 DEF Anywhere, InWindows
      <4>2. CASE \E t \in Rank : x \in param[t][p]
        BY <2>1, <4>2 DEF Anywhere
      <4> QED
        BY <4>1, <4>2, AnywhereIs
    <3>2. CASE cls # "push_sum"
      BY <1>1, <2>1, <3>2 DEF Home
    <3> QED
      BY <3>1, <3>2
  <2> QED
    BY <1>5, <2>1, <2>2
<1> QED
  BY <1>8, <1>9, <1>10, <1>11, <1>12 DEF Communication

\* Orderly scripts that apply what they compute, and for push-sum a topology in
\* which somebody hears every rank.
ApplyingJob ==
    /\ OrderlyJob
    /\ \A r \in Rank : AppliesAll(cls, setup.script[r])
    /\ cls = "push_sum" => Heard
NobodyWarned == \A r \in Rank : ~warned[r]

\* No gradient is lost: after a step the parameter of a rank contains every
\* gradient the rank computed for it (for push-sum, the parameters and windows
\* of the job do), for every class, communication, topology, J and number of
\* ranks and parameters, in every job whose scripts apply a gradient before they
\* clear it and as long as no optimizer has warned.
THEOREM GradientsAreKept == Spec => [](ApplyingJob /\ NobodyWarned => NoGradientLost)
<1> DEFINE Inv == ApplyingJob => OrderlyInv /\ CollectedInv /\ StoredInv /\ GradInv
<1>1. Init => Inv
  <2> SUFFICES ASSUME Init, ApplyingJob PROVE OrderlyInv /\ CollectedInv /\ StoredInv /\ GradInv
    OBVIOUS
  <2>1. CollectedInv /\ StoredInv
    BY DEF Init, CollectedInv, StoredInv
  <2>2. ASSUME NEW r \in Rank PROVE RankScript(r) /\ RankGrad(r)
    <3>1. RankScript(r)
      BY DEF Init, ApplyingJob, AppliesAll, RankScript, Clears
    <3>2. \A p \in Param : made[r][p] = {} /\ due[r][p] = {}
      BY DEF Init
    <3>3. ~Unapplied(r) /\ AtcGrad(r)
      BY <3>2 DEF Unapplied, AtcGrad
    <3> QED
      BY <3>1, <3>2, <3>3 DEF RankGrad
  <2> QED
    BY <2>1, <2>2, OrderlyInit DEF GradInv, ApplyingJob
<1>2. Inv /\ [Next]_vars => Inv'
  <2> SUFFICES ASSUME Inv, [Next]_vars, ApplyingJob'
               PROVE  OrderlyInv' /\ CollectedInv' /\ StoredInv' /\ GradInv'
    OBVIOUS
  <2>1. ApplyingJob
    BY SetupKept DEF ApplyingJob, OrderlyJob, cls, Heard
  <2>2. GradInv'
    <3>1. CASE UNCHANGED vars
      BY <2>1, <3>1
         DEF vars, GradInv, RankScript, RankGrad, AtcGrad, Unapplied, Home, Anywhere, HeadIs, cls
    <3> QED
      BY <2>1, <3>1, GradProcess, GradCommunication DEF Next, Terminating, ApplyingJob
  <2> QED
    BY <2>1, <2>2, OrderlyStep, CollectedStep, StoredStep
<1>3. Inv => (ApplyingJob /\ NobodyWarned => NoGradientLost)
  <2> SUFFICES ASSUME GradInv, NobodyWarned, NEW r \in Rank, NEW p \in Param
               PROVE  due[r][p] \subseteq Home(r, p)
    BY DEF NoGradientLost, Home
  <2> QED
    BY DEF GradInv, NobodyWarned, RankGrad
<1> QED
  BY <1>1, <1>2, <1>3, PTL DEF Spec
=============================================================================
