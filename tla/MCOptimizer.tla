----------------------------- MODULE MCOptimizer -----------------------------
(* Training scripts for TLC. *)
EXTENDS Optimizer

Params == {"w", "b"}
\* A directed ring: a rank hears its predecessor.
RingPeers == [r \in Rank |-> {(r - 1) % Cardinality(Rank)}]
MCRanks2 == 0 .. 1

Do(op) == <<[op |-> op, used |-> {}]>>
Back(ps) == <<[op |-> "backward", used |-> ps]>>
Fwd == Do("forward")
Full == Back(Params)
Times(n, s) == [i \in 1 .. n * Len(s) |-> s[((i - 1) % Len(s)) + 1]]

\* The two usages of the docstrings, twice each.
Accumulating(n) ==
    Do("broadcast_parameters") \o Do("broadcast_optimizer_state")
    \o Times(2, Do("zero_grad") \o Times(n, Fwd \o Full) \o Do("step"))
LocalUpdates(n) ==
    Do("broadcast_parameters") \o Do("eval")
    \o Times(2 * n, Fwd \o Do("zero_grad") \o Full \o Do("step"))
\* With an evaluation between the passes, at the place where a test set is scored.
Evaluated(n) ==
    Do("broadcast_parameters") \o Times(2, Do("eval") \o Fwd \o Do("zero_grad") \o Full \o Do("step"))
    \o Do("allreduce_parameters")
\* synchronize(), gradient clipping, and a step that does not synchronize again.
Explicit ==
    Do("broadcast_parameters")
    \o Times(2, Do("zero_grad") \o Fwd \o Full \o Do("synchronize") \o Do("skip_step"))
\* Ranks reach different parameters.
Partial(ps) ==
    Do("broadcast_parameters") \o Times(2, Do("zero_grad") \o Fwd \o Back(ps) \o Do("step"))
\* More passes than announced; gradients cleared before the step.
Overrunning ==
    Do("broadcast_parameters") \o Times(2, Fwd \o Full) \o Do("step") \o Fwd \o Full \o Do("step")
Cleared == Fwd \o Full \o Do("zero_grad") \o Do("step")

Same(c, comm, n, doc, s) ==
    [cls |-> c, comm |-> comm, J |-> n, doc |-> doc, func |-> TRUE,
     force_barrier |-> c = "push_sum",
     named |-> <<<<"w", "w">>, <<"b", "b">>>>, script |-> [r \in Rank |-> s]]
Classes == {<<"gradient", "allreduce">>, <<"atc", "neighbor_allreduce">>, <<"atc", "empty">>,
            <<"reduce", "neighbor_allreduce">>, <<"reduce", "allreduce">>,
            <<"reduce", "hierarchical_neighbor_allreduce">>, <<"reduce", "empty">>,
            <<"win_put", "neighbor_allreduce">>, <<"push_sum", "neighbor_allreduce">>}

\* Every class in every usage; accumulation with ATC only for J = 1.
MCSetups ==
    {Same(c[1], c[2], 2, "accumulate", Accumulating(2)) : c \in {d \in Classes : d[1] # "atc"}}
    \cup {Same(c[1], c[2], 1, "accumulate", Accumulating(1)) : c \in Classes}
    \cup {Same(c[1], c[2], 2, "local", LocalUpdates(2)) : c \in Classes}
    \cup {Same(c[1], c[2], 1, "local", Evaluated(1)) : c \in Classes}
    \cup {Same(c[1], c[2], 1, "other", Explicit) : c \in {d \in Classes : d[1] # "atc"}}
    \cup {Same(c[1], c[2], 1, "misuse", s) : c \in Classes, s \in {Overrunning, Cleared}}
    \cup {[Same("gradient", "allreduce", 1, "other", <<>>) EXCEPT
             !.script = [r \in Rank |-> IF r = 0 THEN Partial({"w"}) ELSE Partial({"b"})]],
           \* force_barrier set by the user: for win_put, and away for push-sum.
           [Same("win_put", "neighbor_allreduce", 2, "local", LocalUpdates(2)) EXCEPT
             !.force_barrier = TRUE],
           [Same("win_put", "neighbor_allreduce", 1, "other", Explicit) EXCEPT
             !.force_barrier = TRUE],
           [Same("push_sum", "neighbor_allreduce", 1, "accumulate", Accumulating(1)) EXCEPT
             !.force_barrier = FALSE],
           Same("atc", "neighbor_allreduce", 1, "misuse", Partial({"w"})),
           [Same("atc", "empty", 1, "misuse", Accumulating(1)) EXCEPT !.func = FALSE],
           [Same("gradient", "allreduce", 1, "misuse", Accumulating(1)) EXCEPT
             !.named = <<<<"w", "w">>, <<"w", "b">>>>],
           [Same("reduce", "allreduce", 1, "misuse", Accumulating(1)) EXCEPT
             !.named = <<<<"w", "w">>>>]}

\* The jobs are ones the theorems are about.
ASSUME OrderlyJobs == \A s \in MCSetups, r \in Rank : Orderly(s.script[r])
ASSUME ApplyingJobs ==
    \A s \in MCSetups, r \in Rank : s.doc # "misuse" => AppliesAll(s.cls, s.script[r])

\* Accumulation with the ATC class.
AtcSetups == {Same("atc", "neighbor_allreduce", 2, "accumulate", Accumulating(2))}
=============================================================================
