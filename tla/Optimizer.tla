------------------------------ MODULE Optimizer ------------------------------
(***************************************************************************)
(* The distributed optimizers of torch/optimizers.py on every rank of a    *)
(* job, and the helpers of torch/utility.py that start it. Each rank runs  *)
(* a training script; hooks that PyTorch calls in the forward or backward  *)
(* pass count passes per parameter and start a nonblocking operation when  *)
(* the count is used up; step() waits for it.                              *)
(*                                                                         *)
(* A tensor is the set of contributions that went into it: <<r, 0>> is the *)
(* initial value of rank r, <<r, n>> the gradient of its n-th backward     *)
(* pass. Averaging is union, applying a gradient is union: what matters is *)
(* whose work is in the result, not with which factor.                     *)
(*                                                                         *)
(* External: PyTorch (order of hooks and accumulation), and Bluefog's      *)
(* operations: a collective of a name takes place when every rank has      *)
(* started it, and reads the tensors at that time, not at the call.        *)
(***************************************************************************)
EXTENDS Integers, Sequences, FiniteSets

CONSTANTS Rank,      \* the processes
          Param,     \* the names of the parameters
          Peers,     \* Peers[r]: the in-neighbors of rank r; r is one of theirs
          LocalSize, \* ranks per machine
          Setups     \* the jobs to look at, see Setup

ASSUME RankAssumption == IsFiniteSet(Rank) /\ Rank = 0 .. Cardinality(Rank) - 1
ASSUME ParamAssumption == IsFiniteSet(Param)
ASSUME PeersAssumption == \A r \in Rank : Peers[r] \subseteq Rank \ {r}

\* The classes that are wrapped around a torch optimizer.
Class == {"gradient", "reduce", "atc", "win_put", "push_sum"}
CommunicationType == {"neighbor_allreduce", "hierarchical_neighbor_allreduce",
                      "allreduce", "empty"}
\* The factories: the class each derives and how that communicates.
\* DistributedPullGetOptimizer has no window_prefix to pass on and raises TypeError.
WindowFactories == {"push_sum", "win_put"} \X {"neighbor_allreduce"}
ReduceFactories == {"reduce"} \X {"allreduce", "neighbor_allreduce",
                                  "hierarchical_neighbor_allreduce"}
DistributedGradientAllreduceOptimizer == {<<"gradient", "allreduce">>}
DistributedAdaptThenCombineOptimizer == {"atc"} \X CommunicationType
DistributedAdaptWithCombineOptimizer == {"reduce"} \X CommunicationType

ASSUME SetupsAssumption ==
    \A s \in Setups : <<s.cls, s.comm>> \in
        WindowFactories \cup ReduceFactories \cup DistributedGradientAllreduceOptimizer
        \cup DistributedAdaptThenCombineOptimizer \cup DistributedAdaptWithCombineOptimizer

Call == [op: {"forward", "eval", "backward", "zero_grad", "synchronize", "step",
              "skip_step", "broadcast_parameters", "allreduce_parameters",
              "broadcast_optimizer_state"},
         used: SUBSET Param]
\* named: the named parameters of the models; func: whether ATC has a step
\* function for the torch optimizer; force_barrier: the attribute of the window
\* classes, which the user may set; doc: which usage of
\* num_steps_per_communication = J the script is, one the docstrings show or not.
Setup == [cls: Class, comm: CommunicationType, J: Nat \ {0}, func: BOOLEAN,
          force_barrier: BOOLEAN,
          named: Seq(Param \X Param), script: [Rank -> Seq(Call)],
          doc: {"accumulate", "local", "other", "misuse"}]
ASSUME SetupTypeAssumption == Setups \subseteq Setup

\* The local-update usage: rounds of a forward pass, zero_grad, a backward pass
\* that reaches every parameter, and a step; anything but a synchronize or a
\* step that skips it between the rounds.
Round == <<"forward", "zero_grad", "backward", "step">>
LocalScript(s) ==
    /\ \A i \in DOMAIN s : /\ s[i].op \notin {"synchronize", "skip_step"}
                           /\ s[i].op = "backward" => s[i].used = Param
    /\ \A i \in DOMAIN s, n \in 1 .. 3 :
          i + 1 \in DOMAIN s => (s[i].op = Round[n] <=> s[i + 1].op = Round[n + 1])
    /\ s # <<>> => s[1].op \notin {Round[n] : n \in 2 .. 4}
ASSUME LocalAssumption ==
    \A s \in Setups : s.doc = "local" => \A r \in Rank : LocalScript(s.script[r])

\* Names must be unique and cover what the optimizer handles.
FindDuplicates(lst) == {lst[i][1] : i \in {k \in DOMAIN lst : \E j \in 1 .. k - 1 : lst[j][1] = lst[k][1]}}
CheckNamedParameters(named) ==
    /\ FindDuplicates(named) = {}
    /\ Param \subseteq {named[i][2] : i \in DOMAIN named}

VARIABLES
    setup,      \* which optimizer and scripts this job uses
    todo,       \* calls a rank has still to make, the current one first
    mpc,        \* "run", in a "barrier", "wait"ing in synchronize, "failed"
    delay,      \* _allreduce_delay, _reduce_delay, _bluefog_delay, _pushsum_delay
    step_delay, \* _step_delay of the ATC class
    handles,    \* the keys of _handles
    pend,       \* operations started and not done
    out,        \* their results; of push-sum, the copies that are sent
    param, grad,\* p.data, p.grad
    reg,        \* the tensor registered for the window of p, when it is a copy
    buf,        \* buf[r][s]: what s put into the window of r
    warned,     \* _error_encountered
    barriers,   \* number of barriers entered
    made, due,  \* gradients computed so far, and at the last step
    steps, comms \* steps done, and communications finished for each parameter

vars == <<setup, todo, mpc, delay, step_delay, handles, pend, out, param, grad, reg,
          buf, warned, barriers, made, due, steps, comms>>

cls == setup.cls
J == setup.J
Now(r, op) == mpc[r] = "run" /\ todo[r] # <<>> /\ Head(todo[r]).op = op
Return(r) == todo' = [todo EXCEPT ![r] = Tail(@)]
\* What an operation of a rank reads: gradients, parameters or copies of them.
Tensor(r) ==
    CASE cls = "gradient" -> grad[r]
      [] cls = "push_sum" -> out[r]
      [] OTHER -> param[r]
Machine(r) == r \div LocalSize

\* The ranks whose tensors are in the result rank r gets.
Flow(r) ==
    CASE cls = "gradient" \/ setup.comm = "allreduce" -> Rank
      [] cls # "gradient" /\ setup.comm = "neighbor_allreduce" -> {r} \cup Peers[r]
      [] cls # "gradient" /\ setup.comm = "hierarchical_neighbor_allreduce" ->
           {s \in Rank : \E q \in {r} \cup Peers[r] : Machine(s) = Machine(q)}
      [] OTHER -> {r}

-----------------------------------------------------------------------------
(* Construction: what the factories and __init__ set up, or a ValueError.    *)
(* The ranks are more than one, so that hooks are registered. A window that  *)
(* is created with zero_init is empty, otherwise it holds copies of the      *)
(* rank's own tensor.                                                        *)
Init ==
    /\ setup \in Setups
    /\ todo = setup.script
    /\ mpc = [r \in Rank |-> IF CheckNamedParameters(setup.named) THEN "run" ELSE "failed"]
    /\ delay = [r \in Rank |-> [p \in Param |-> J]]
    /\ step_delay = delay
    /\ handles = [r \in Rank |-> {}]
    /\ pend = [r \in Rank |-> {}]
    /\ out = [r \in Rank |-> [p \in Param |-> {}]]
    /\ param = [r \in Rank |-> [p \in Param |-> {<<r, 0>>}]]
    /\ grad = [r \in Rank |-> [p \in Param |-> {}]]
    /\ reg = param
    /\ buf = [r \in Rank |-> [s \in Peers[r] |->
                 IF cls = "push_sum" THEN [p \in Param |-> {}] ELSE param[r]]]
    /\ warned = [r \in Rank |-> FALSE]
    /\ barriers = [r \in Rank |-> 0]
    /\ made = grad
    /\ due = grad
    /\ steps = [r \in Rank |-> 0]
    /\ comms = [r \in Rank |-> [p \in Param |-> 0]]

-----------------------------------------------------------------------------
(* Hooks *)

\* The hooks of the parameters ps on rank r: one warning per optimizer if a
\* count is already used up, and an operation for each that becomes zero, none
\* if the communication is empty.
Count(count, ps) == [p \in Param |-> IF p \in ps THEN count[p] - 1 ELSE count[p]]
Started(r, ps) == {p \in ps : delay[r][p] = 1}
Overrun(r, ps) ==
    \E p \in ps : delay[r][p] <= 0 \/ (cls = "atc" /\ step_delay[r][p] <= 0)
Silent == cls \in {"reduce", "atc"} /\ setup.comm = "empty"
RunHooks(r, ps) ==
    /\ delay' = [delay EXCEPT ![r] = Count(@, ps)]
    /\ warned' = [warned EXCEPT ![r] = @ \/ Overrun(r, ps)]
    /\ handles' = [handles EXCEPT ![r] = @ \cup Started(r, ps)]
    /\ pend' = [pend EXCEPT ![r] = @ \cup (IF Silent THEN {} ELSE Started(r, ps))]

\* Push-sum sends a copy, made in the hook: the parameter with its weight.
Copied(r, ps) ==
    [p \in Param |-> IF cls = "push_sum" /\ p \in Started(r, ps) THEN param[r][p] ELSE out[r][p]]

\* model(x) in training mode: the classes that communicate parameters have
\* their hook on the forward pass of the whole model.
ForwardHooked == cls \in {"reduce", "win_put", "push_sum"}
Forward(r) ==
    /\ Now(r, "forward")
    /\ IF ForwardHooked THEN RunHooks(r, Param) /\ out' = [out EXCEPT ![r] = Copied(r, Param)]
       ELSE UNCHANGED <<delay, warned, handles, pend, out>>
    /\ Return(r)
    /\ UNCHANGED <<setup, mpc, step_delay, param, grad, reg, buf, barriers, made, due,
                   steps, comms>>

\* A variant: the hooks run for layers that are not training, too.
EvalForwardHooked(r) ==
    /\ Now(r, "eval")
    /\ IF ForwardHooked THEN RunHooks(r, Param) /\ out' = [out EXCEPT ![r] = Copied(r, Param)]
       ELSE UNCHANGED <<delay, warned, handles, pend, out>>
    /\ Return(r)
    /\ UNCHANGED <<setup, mpc, step_delay, param, grad, reg, buf, barriers, made, due,
                   steps, comms>>

\* model(x) in evaluation mode: the hooks skip layers that are not training.
EvalForward(r) ==
    /\ Now(r, "eval")
    /\ Return(r)
    /\ UNCHANGED <<setup, mpc, delay, step_delay, handles, pend, out, param, grad, reg, buf,
                   warned, barriers, made, due, steps, comms>>

Fresh(r) == {<<r, Cardinality(UNION {made[r][p] : p \in Param}) + 1>>}
Accumulate(f, r, ps, g) == [f EXCEPT ![r] = [p \in Param |-> @[p] \cup (IF p \in ps THEN g ELSE {})]]

\* loss.backward() reaching the parameters "used". The gradient hook runs
\* after the gradient is accumulated in p.grad.
Backward(r) ==
    LET ps == Head(todo[r]).used
    IN /\ Now(r, "backward")
       /\ cls # "atc"
       /\ grad' = Accumulate(grad, r, ps, Fresh(r))
       /\ made' = Accumulate(made, r, ps, Fresh(r))
       /\ IF cls = "gradient" THEN RunHooks(r, ps)
          ELSE UNCHANGED <<delay, warned, handles, pend>>
       /\ Return(r)
       /\ UNCHANGED <<setup, mpc, step_delay, out, param, reg, buf, barriers, due, steps, comms>>

\* The ATC hook runs before the gradient of this pass is accumulated, and when
\* its count becomes zero applies the gradient it is given to the parameter:
\* the step functions of SGD, Adam, RMSprop, Adagrad and Adadelta.
StepFunc(par, ps, g) == [p \in Param |-> IF p \in ps THEN par[p] \cup g ELSE par[p]]
AtcBackward(r) ==
    LET ps == Head(todo[r]).used
        now == {p \in ps : step_delay[r][p] = 1}
    IN /\ Now(r, "backward")
       /\ cls = "atc"
       /\ IF ~setup.func
          THEN /\ mpc' = [mpc EXCEPT ![r] = "failed"]
               /\ UNCHANGED <<todo, delay, step_delay, handles, pend, param, grad, warned, made>>
          ELSE /\ step_delay' = [step_delay EXCEPT ![r] = Count(@, ps)]
               /\ param' = [param EXCEPT ![r] = StepFunc(@, now, Fresh(r))]
               /\ RunHooks(r, ps)
               /\ grad' = Accumulate(grad, r, ps, Fresh(r))
               /\ made' = Accumulate(made, r, ps, Fresh(r))
               /\ Return(r)
               /\ UNCHANGED mpc
       /\ UNCHANGED <<setup, out, reg, buf, barriers, due, steps, comms>>

-----------------------------------------------------------------------------
(* Calls of the script *)

\* zero_grad() refuses to run between the pass that starts an operation and
\* the step, in the two classes whose hook runs in the backward pass.
ZeroGradNeverRefused(r) == FALSE   \* a variant: the check is missing
ZeroGradRefused(r) == cls \in {"gradient", "atc"} /\ handles[r] # {}
ZeroGrad(r) ==
    /\ Now(r, "zero_grad")
    /\ IF ZeroGradRefused(r)
       THEN mpc' = [mpc EXCEPT ![r] = "failed"] /\ UNCHANGED <<grad, todo>>
       ELSE /\ grad' = [grad EXCEPT ![r] = [p \in Param |-> {}]]
            /\ Return(r)
            /\ UNCHANGED mpc
    /\ UNCHANGED <<setup, delay, step_delay, handles, pend, out, param, reg, buf, warned,
                   barriers, made, due, steps, comms>>

\* super().step(): the torch optimizer applies p.grad to p.
Apply(par, gr) == [p \in Param |-> par[p] \cup gr[p]]
StepDone(r) ==
    /\ steps' = [steps EXCEPT ![r] = @ + 1]
    /\ due' = [due EXCEPT ![r] = made[r]]
    /\ Return(r)

\* The first half of synchronize(): the gradient class starts an operation for
\* every parameter that has none. A push-sum or put class first meets a barrier,
\* if it is forced.
MissingNone(r) == {}   \* a variant: parameters that were not reached are left out
Missing(r) == IF cls = "gradient" THEN Param \ handles[r] ELSE {}
StartSynchronize(r) ==
    /\ handles' = [handles EXCEPT ![r] = @ \cup Missing(r)]
    /\ pend' = [pend EXCEPT ![r] = @ \cup Missing(r)]
    /\ mpc' = [mpc EXCEPT ![r] = "wait"]

Synchronize(r) ==
    /\ Now(r, "synchronize")
    /\ StartSynchronize(r)
    /\ UNCHANGED <<setup, todo, delay, step_delay, out, param, grad, reg, buf, warned, barriers,
                   made, due, steps, comms>>

\* Only the window classes have the attribute: False at first in the put class,
\* True in push-sum.
force_barrier == cls \in {"win_put", "push_sum"} /\ setup.force_barrier

\* step() of all classes but ATC; a forced barrier is met also by a step that
\* skips synchronize().
Step(r) ==
    /\ Now(r, "step") \/ (Now(r, "skip_step") /\ force_barrier)
    /\ cls # "atc"
    /\ IF force_barrier
       THEN /\ barriers' = [barriers EXCEPT ![r] = @ + 1]
            /\ mpc' = [mpc EXCEPT ![r] = "barrier"]
            /\ UNCHANGED <<handles, pend>>
       ELSE StartSynchronize(r) /\ UNCHANGED barriers
    /\ UNCHANGED <<setup, todo, delay, step_delay, out, param, grad, reg, buf, warned, made,
                   due, steps, comms>>

LeaveBarrier(r) ==
    /\ mpc[r] = "barrier"
    /\ \A s \in Rank : barriers[s] >= barriers[r]
    /\ IF Head(todo[r]).op = "step"
       THEN StartSynchronize(r) /\ UNCHANGED <<param, todo, steps, due>>
       ELSE /\ param' = [param EXCEPT ![r] = Apply(@, grad[r])]
            /\ StepDone(r)
            /\ mpc' = [mpc EXCEPT ![r] = "run"]
            /\ UNCHANGED <<handles, pend>>
    /\ UNCHANGED <<setup, delay, step_delay, out, grad, reg, buf, warned, barriers, made, comms>>

\* with skip_synchronize(): step().
SkipStep(r) ==
    /\ Now(r, "skip_step")
    /\ cls # "atc" /\ ~force_barrier
    /\ param' = [param EXCEPT ![r] = Apply(@, grad[r])]
    /\ StepDone(r)
    /\ UNCHANGED <<setup, mpc, delay, step_delay, handles, pend, out, grad, reg, buf, warned,
                   barriers, made, comms>>

\* step() of ATC: the hooks have applied the gradients unless this is a local
\* update (nothing started) or the counts ran past zero.
AtcStep(r) ==
    /\ Now(r, "step")
    /\ cls = "atc"
    /\ \/ /\ handles[r] = {}
          /\ param' = [param EXCEPT ![r] = Apply(@, grad[r])]
          /\ StepDone(r)
          /\ UNCHANGED <<mpc, step_delay, handles, pend>>
       \/ /\ handles[r] # {}
          /\ \A p \in Param : step_delay[r][p] # 0
          /\ param' = [param EXCEPT ![r] = Apply(@, grad[r])]
          /\ StartSynchronize(r)
          /\ UNCHANGED <<step_delay, todo, steps, due>>
       \/ /\ handles[r] # {}
          /\ \A p \in Param : step_delay[r][p] = 0
          /\ step_delay' = [step_delay EXCEPT ![r] = [p \in Param |-> J]]
          /\ StartSynchronize(r)
          /\ UNCHANGED <<param, todo, steps, due>>
       \/ /\ handles[r] # {}
          /\ \E p, q \in Param : step_delay[r][p] = 0 /\ step_delay[r][q] # 0
          /\ mpc' = [mpc EXCEPT ![r] = "failed"]   \* ValueError: partial step update
          /\ UNCHANGED <<param, step_delay, handles, pend, todo, steps, due>>
    /\ UNCHANGED <<setup, delay, out, grad, reg, buf, warned, barriers, made, comms>>

\* What synchronize() leaves in a parameter (or gradient) with a handle: the
\* result, nothing new for an empty communication; for the window classes the
\* average with what the neighbors put. Push-sum takes it over the tensor that
\* is registered for the window, which the hook has not replaced.
Received(r, p) == UNION {buf[r][s][p] : s \in Peers[r]}
\* A variant: what the neighbors put replaces the rank's own part.
ResultWithoutOwn(r, p) ==
    CASE cls \in {"win_put", "push_sum"} -> Received(r, p)
      [] Silent -> param[r][p]
      [] OTHER -> out[r][p]
Result(r, p) ==
    CASE cls = "win_put" -> param[r][p] \cup Received(r, p)
      [] cls = "push_sum" -> reg[r][p] \cup Received(r, p)
      [] Silent -> param[r][p]
      [] OTHER -> out[r][p]

\* The loop of synchronize(): the operation of p is done, its count starts over.
\* Push-sum collects: the window is empty afterwards.
SyncParam(r, p) ==
    /\ mpc[r] = "wait"
    /\ p \in handles[r] \ pend[r]
    /\ IF cls = "gradient" THEN grad' = [grad EXCEPT ![r][p] = Result(r, p)] /\ UNCHANGED param
       ELSE param' = [param EXCEPT ![r][p] = Result(r, p)] /\ UNCHANGED grad
    /\ IF cls = "push_sum"
       THEN /\ reg' = [reg EXCEPT ![r][p] = Result(r, p)]
            /\ buf' = [buf EXCEPT ![r] = [s \in Peers[r] |-> [@[s] EXCEPT ![p] = {}]]]
       ELSE UNCHANGED <<reg, buf>>
    /\ delay' = [delay EXCEPT ![r][p] = J]
    /\ comms' = [comms EXCEPT ![r][p] = @ + 1]
    /\ handles' = [handles EXCEPT ![r] = @ \ {p}]
    /\ UNCHANGED <<setup, todo, mpc, step_delay, pend, out, warned, barriers, made, due, steps>>

\* The end of synchronize(), and of a step() that called it.
EndSynchronize(r) ==
    /\ mpc[r] = "wait"
    /\ handles[r] = {}
    /\ mpc' = [mpc EXCEPT ![r] = "run"]
    /\ IF Head(todo[r]).op = "step"
       THEN /\ param' = [param EXCEPT ![r] = IF cls = "atc" THEN @ ELSE Apply(@, grad[r])]
            /\ StepDone(r)
       ELSE Return(r) /\ UNCHANGED <<param, steps, due>>
    /\ UNCHANGED <<setup, delay, step_delay, handles, pend, out, grad, reg, buf, warned, barriers,
                   made, comms>>

\* broadcast_parameters(params, 0) and allreduce_parameters(params): every
\* parameter, and all of them done before the call returns.
ExchangeParameters(op, flow) ==
    /\ \A r \in Rank : Now(r, op)
    /\ param' = [r \in Rank |-> [p \in Param |-> UNION {param[s][p] : s \in flow}]]
    /\ todo' = [r \in Rank |-> Tail(todo[r])]
    /\ UNCHANGED <<setup, mpc, delay, step_delay, handles, pend, out, grad, reg, buf, warned,
                   barriers, made, due, steps, comms>>
BroadcastParameters == ExchangeParameters("broadcast_parameters", {0})
AllreduceParameters == ExchangeParameters("allreduce_parameters", Rank)

\* broadcast_optimizer_state(opt, 0): a torch step, not that of the wrapper,
\* with gradients of zero, if the optimizer has no state. Whether it has is up to
\* torch: plain SGD never has any, SGD with momentum has after a step, Adagrad
\* always. The broadcast of the state itself is not modelled.
BroadcastOptimizerState ==
    /\ \A r \in Rank : Now(r, "broadcast_optimizer_state")
    /\ \E empty \in BOOLEAN :
          grad' = [r \in Rank |-> IF empty THEN [p \in Param |-> {}] ELSE grad[r]]
    /\ todo' = [r \in Rank |-> Tail(todo[r])]
    /\ UNCHANGED <<setup, mpc, delay, step_delay, handles, pend, out, param, reg, buf, warned,
                   barriers, made, due, steps, comms>>

-----------------------------------------------------------------------------
(* Bluefog's operations, as the optimizers see them *)

\* A collective operation on p: every rank has started it.
Collective(p) ==
    /\ cls \in {"gradient", "reduce", "atc"}
    /\ \A r \in Rank : p \in pend[r]
    /\ out' = [r \in Rank |-> [out[r] EXCEPT ![p] = UNION {Tensor(s)[p] : s \in Flow(r)}]]
    /\ pend' = [r \in Rank |-> pend[r] \ {p}]
    /\ UNCHANGED <<setup, todo, mpc, delay, step_delay, handles, param, grad, reg, buf, warned,
                   barriers, made, due, steps, comms>>

\* win_put of the parameter, or win_accumulate of the copy, of rank r: into the
\* window of every out-neighbor.
OneSided(r, p) ==
    /\ cls \in {"win_put", "push_sum"}
    /\ p \in pend[r]
    /\ buf' = [s \in Rank |->
                 IF r \notin Peers[s] THEN buf[s]
                 ELSE [buf[s] EXCEPT ![r][p] =
                         Tensor(r)[p] \cup (IF cls = "push_sum" THEN @ ELSE {})]]
    /\ pend' = [pend EXCEPT ![r] = @ \ {p}]
    /\ UNCHANGED <<setup, todo, mpc, delay, step_delay, handles, out, param, grad, reg, warned,
                   barriers, made, due, steps, comms>>

-----------------------------------------------------------------------------
Process(r) ==
    \/ Forward(r) \/ EvalForward(r) \/ Backward(r) \/ AtcBackward(r) \/ ZeroGrad(r)
    \/ Synchronize(r) \/ Step(r) \/ LeaveBarrier(r) \/ SkipStep(r) \/ AtcStep(r)
    \/ EndSynchronize(r) \/ \E p \in Param : SyncParam(r, p)
Communication ==
    \/ BroadcastParameters \/ AllreduceParameters \/ BroadcastOptimizerState
    \/ \E p \in Param : Collective(p) \/ \E r \in Rank : OneSided(r, p)
Ended(r) == todo[r] = <<>> \/ mpc[r] = "failed"
Terminating == (\A r \in Rank : Ended(r)) /\ UNCHANGED vars
Next == (\E r \in Rank : Process(r)) \/ Communication \/ Terminating

\* A Python thread runs on, and the background threads carry out what was started.
Spec == Init /\ [][Next]_vars /\ (\A r \in Rank : WF_vars(Process(r))) /\ WF_vars(Communication)

-----------------------------------------------------------------------------
(* Properties *)

\* Scripts, by the order of their calls: between a call in from and a later one
\* in to there is one in via.
Separated(s, from, via, to) ==
    \A i, j \in DOMAIN s :
        (i < j /\ s[i].op \in from /\ s[j].op \in to) => \E k \in i + 1 .. j - 1 : s[k].op \in via
StepCalls == {"step", "skip_step"}
Exchanges == {"broadcast_parameters", "allreduce_parameters", "broadcast_optimizer_state"}
\* synchronize() is called for the sake of a step that skips it, and only then
\* is it skipped.
Paired(s) ==
    \A i \in DOMAIN s :
        /\ s[i].op = "synchronize" => i + 1 \in DOMAIN s
        /\ i + 1 \in DOMAIN s => (s[i].op = "synchronize" <=> s[i + 1].op = "skip_step")
\* Parameters and optimizer states are not exchanged between a pass and its step.
Orderly(s) ==
    /\ Separated(s, {"forward", "backward"}, StepCalls, Exchanges)
    /\ Paired(s)
    /\ s # <<>> => s[1].op # "skip_step"
\* Gradients are applied before they are cleared, and no parameters replace those
\* they were applied to. With ATC each is applied before the next pass.
AppliesAll(c, s) ==
    /\ Separated(s, {"backward"}, StepCalls, {"zero_grad", "broadcast_optimizer_state"})
    /\ Separated(s, {"backward"}, {}, {"broadcast_parameters"})
    /\ c = "atc" => Separated(s, {"backward"}, {"step"}, {"backward"})

Work == Rank \X Nat

\* Counts stay within the script, an operation under way has a handle or was
\* started by a hook that has one.
TypeOK ==
    /\ setup \in Setups
    /\ \A r \in Rank :
        /\ mpc[r] \in {"run", "barrier", "wait", "failed"}
        /\ mpc[r] \in {"barrier", "wait"} => todo[r] # <<>>
        /\ handles[r] \subseteq Param
        /\ pend[r] \subseteq handles[r]
        /\ \A p \in Param :
             /\ delay[r][p] <= J /\ step_delay[r][p] <= J
             /\ param[r][p] \cup grad[r][p] \cup out[r][p] \subseteq Work

\* No gradient is lost: after a step the parameter of a rank contains every
\* gradient the rank computed for it, in both usages the docstrings of the
\* factories show (a misuse may drop gradients by itself). Push-sum keeps them in
\* the parameters or windows of the job (its own copy is another matter, see
\* the hazards).
Anywhere(p) ==
    UNION {param[s][p] \cup reg[s][p] \cup UNION {buf[s][q][p] : q \in Peers[s]} : s \in Rank}
NoGradientLost ==
    \A r \in Rank, p \in Param :
        \/ setup.doc = "misuse"
        \/ due[r][p] \subseteq (IF cls = "push_sum" THEN Anywhere(p) ELSE param[r][p])

\* Synchronous data parallelism: with averaged gradients, ranks that have made
\* the same number of steps have the same parameters, also if they reached
\* different parameters in their backward passes.
ReplicasAgree ==
    cls = "gradient" =>
        \A r, s \in Rank :
            (steps[r] = steps[s] /\ steps[r] > 0 /\ mpc[r] = "run" /\ mpc[s] = "run")
            => param[r] = param[s]

\* The local-update usage, "opt.step()  # Allreducing happens at the last
\* iteration": the classes that communicate parameters keep to it, as their
\* docstrings say (optimizers.py:1487, 1547; 1215 for push-sum); every J-th step
\* communicates each parameter once, and no other step does. The class that averages
\* gradients has the same docstring (1414) and does not keep to it: its synchronize()
\* starts every allreduce that is missing (234-237), so each step communicates each
\* parameter once, whatever J is.
CommunicationEveryJ ==
    setup.doc = "local" =>
        \A r \in Rank, p \in Param :
            mpc[r] = "run" =>
                comms[r][p] = IF cls = "gradient" THEN steps[r] ELSE steps[r] \div J

\* The delay counters of the hooks stay within num_steps_per_communication, and an
\* operation is started exactly when one is used up (or missing, in the class
\* that averages gradients).
CountersConsistent == TypeOK /\ CommunicationEveryJ

\* A tensor that an operation may be reading is not modified, unless the
\* optimizer has warned: no hook, step or zero_grad touches it between the
\* nonblocking call and the end of the operation.
InFlightUntouched ==
    [][\A r \in Rank, p \in Param :
         p \in pend[r] /\ p \in pend'[r] /\ Tensor(r)[p]' # Tensor(r)[p] => warned'[r]]_vars

\* Every rank gets through its script: no step waits for an operation that
\* another rank never starts. Only a misuse ends in an exception.
ScriptsEnd ==
    <>(\A r \in Rank : todo[r] = <<>> \/ (mpc[r] = "failed" /\ setup.doc = "misuse"))
=============================================================================
