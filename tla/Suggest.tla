------------------------------- MODULE Suggest -------------------------------
(***************************************************************************)
(* The handler of /suggest (airpcez/src/server.rs): poll the cluster, plan *)
(* for it, add the version warnings.  The node itself, the registered      *)
(* nodes and the model are inputs; the properties relate a plan to them,   *)
(* to the totals of /cluster and to the device order a launch would use.   *)
(***************************************************************************)
EXTENDS Planner

SuggestHandler(self, registered, meta, ctx) ==
    LET polls == PollNodes(self, registered)
    IN  [SuggestPlan(polls, meta, ctx) EXCEPT !.warnings = VersionWarnings(self, Tail(polls))]

-----------------------------------------------------------------------------
\* What the planner may use of a node's unified GPU memory.
UsableUnified(n) ==
    SumOver(Retain(n.devices, LAMBDA d : d.reliable /\ d.kind = "metal"), Usable)

\* The three pools together stay within the free memory pool /cluster
\* reports for the same poll, in which unified memory is counted once.
PoolsWithin(polls, plan) ==
    plan.gpuPool + plan.cpuPool + plan.remotePool <= MemoryTotals(polls).pool

\* What a dense plan leaves to the host's CPU fits there: within a layer
\* when the verdict is Fits, and within a layer and the tenth of the GPU
\* pool kept free when it is Tight.
RemainderFits(plan) ==
    ~plan.meta.moe /\ plan.fit # "wontfit" =>
        (plan.meta.layers - plan.ngl) * PerLayer(plan.meta)
            <= plan.cpuPool + PerLayer(plan.meta)
                   + (IF plan.fit = "fits" THEN 0 ELSE plan.gpuPool \div 10)

\* What a spilling plan puts on remote CPUs overruns their memory by at most
\* that tenth and the rounding of two layers.
ShareBounded(plan) ==
    plan.rpcCpu # <<>> =>
        (plan.ngl - DenseLayers(plan.meta, plan.gpuPool)) * PerLayer(plan.meta)
            <= plan.remotePool + (plan.gpuPool \div 10) + 2 * PerLayer(plan.meta)

\* Experts moved to the CPU free enough of the GPUs: what stays fits with a
\* tenth to spare, unless the experts of every layer have been moved.
FreeEnough(plan) ==
    plan.meta.moe /\ plan.cpuMoe < plan.meta.layers =>
        plan.meta.total + (plan.meta.total \div 10)
            <= plan.gpuPool + plan.cpuMoe * PerLayer(plan.meta)

\* The devices llama.cpp will number for a launch from this node, should the
\* launch's own poll answer the same: all its GPUs, advertised or not, for
\* llama-server is told of no --device; then for every --rpc endpoint the
\* GPUs its node advertises (ServesAdvertised), whatever they report, or its
\* CPU.
LaunchDevices(polls) ==
    LET eps == RpcEndpoints(Tail(polls))
        node(e) == CHOOSE n \in ToSet(Tail(polls)) : n.endpoint = e
        count(e) == Most(Len(node(e).devices), 1)
    IN  [i \in 1..polls[1].gpus |-> "self"] \o
        FlattenSeq([i \in DOMAIN eps |-> [j \in 1..count(eps[i]) |-> eps[i]]])

\* The plan knows every GPU of the cluster, and where its nodes are: this
\* node advertises its own, no driver reports nonsense, and every node that
\* answers is registered with a port.
AllTold(polls) ==
    /\ polls[1].gpus = Len(TrustedOf(polls[1]))
    /\ \A n \in ToSet(Tail(polls)) :
          Counted(n) => n.ported /\ Most(Len(n.devices), 1) = Most(Len(TrustedOf(n)), 1)

\* The devices the entries of the plan's tensor split were computed for.
SplitDevices(polls, plan) ==
    FlattenSeq([i \in DOMAIN polls |->
        [j \in DOMAIN GpusOf(polls[i]) |-> IF i = 1 THEN "self" ELSE polls[i].name]])
    \o plan.rpcCpu

\* Entry i of the tensor split is computed for the device that llama.cpp
\* numbers i, and only CPU-only devices may be left without an entry.
Aligns(polls, plan) ==
    plan.split # <<>> => IsPrefix(SplitDevices(polls, plan), LaunchDevices(polls))

\* Every node a launch would hand to llama-server has this node's version of
\* llama.cpp, as far as both are known, or the plan warns of it.
Versioned(polls, plan) ==
    \A n \in ToSet(Tail(polls)) :
        n.endpoint \in ToSet(RpcEndpoints(Tail(polls))) =>
            \/ n.name \in ToSet(plan.warnings)
            \/ None \in {n.version, polls[1].version}
            \/ n.version = polls[1].version
=============================================================================
