------------------------------- MODULE Planner -------------------------------
(***************************************************************************)
(* suggest_plan (airpcez-core/src/planner.rs): from a polled cluster and a *)
(* model, how many layers to offload, how to split them over the GPUs, and *)
(* whether the model fits.  All arithmetic is the code's, on u64 values    *)
(* that stay far below their width; the texts of the plan are left out.    *)
(***************************************************************************)
EXTENDS Cluster, FiniteSets

\* model_catalog: two dense models and a mixture of experts.
Catalog ==
    {[total |-> 17000, layers |-> 64, moe |-> FALSE],
     [total |-> 21000, layers |-> 48, moe |-> TRUE],
     [total |-> 42000, layers |-> 80, moe |-> FALSE]}

\* A model has layers, of at least a MiB each.
Models == {m \in [total : Nat, layers : Nat \ {0}, moe : BOOLEAN] : m.layers <= m.total}

GpuHeadroom == 1024
CpuHeadroom == 2048

Least(m, n)    == IF m < n THEN m ELSE n
Most(m, n)     == IF m < n THEN n ELSE m
Minus(m, n)    == IF m > n THEN m - n ELSE 0        \* saturating_sub
DivCeil(m, n)  == (m + n - 1) \div n

KvMib(layers, ctx) == (layers * ctx) \div 8192

\* ratio_string: whole GiB, rounded, at least 1 each; no ratio of zeros.
Ratio(parts) ==
    IF \A i \in DOMAIN parts : parts[i] = 0 THEN <<>>
    ELSE [i \in DOMAIN parts |-> Most((parts[i] + 512) \div 1024, 1)]

-----------------------------------------------------------------------------
(* The three tiers of memory.                                              *)

\* Tier 1: what each believable GPU has above the headroom, in node order.
Usable(d) == Minus(d.free, GpuHeadroom)

GpusOf(n) == IF Counted(n) THEN TrustedOf(n) ELSE <<>>

Splits(nodes) ==
    LET gpus == FlattenSeq([i \in DOMAIN nodes |-> GpusOf(nodes[i])])
    IN  [j \in DOMAIN gpus |-> Usable(gpus[j])]

GpuPool(nodes) == SumOver(Splits(nodes), LAMBDA mib : mib)

\* The node that will run llama-server: the first one that calls itself a
\* host, else the first that answers; 0 if there is none.
HostIdx(nodes) ==
    LET named == SelectInSeq(nodes, LAMBDA n : Counted(n) /\ n.role = "host")
    IN  IF named # 0 THEN named ELSE SelectInSeq(nodes, LAMBDA n : n.reachable)

\* Mutant: unified memory is counted as GPU and as RAM.
HostCpuWhole(nodes) ==
    LET h == HostIdx(nodes)
    IN  IF h = 0 \/ ~nodes[h].sampled THEN 0 ELSE Minus(nodes[h].ram, CpuHeadroom)

\* Tier 2: the RAM of that node, less what its own Metal GPU takes of it.
HostCpu(nodes) ==
    LET h == HostIdx(nodes)
    IN  IF h = 0 \/ ~nodes[h].sampled THEN 0
        ELSE Minus(nodes[h].ram, CpuHeadroom + Unified(nodes[h]))

\* Tier 3: the other nodes without a GPU to believe in.
CpuNodes(nodes) ==
    Picked(nodes, {i \in DOMAIN nodes : /\ Counted(nodes[i])
                                        /\ i # HostIdx(nodes)
                                        /\ ~HasGpu(nodes[i])})

RemoteCpu(nodes) == SumOver(CpuNodes(nodes), LAMBDA n : Minus(n.ram, CpuHeadroom))

CpuEndpoints(nodes) ==
    LET offered == Retain(CpuNodes(nodes), LAMBDA n : n.endpoint # None)
    IN  [i \in DOMAIN offered |-> offered[i].endpoint]

-----------------------------------------------------------------------------
(* Packing and verdict, from the pools.                                    *)

PerLayer(meta) == Most(meta.total \div Most(meta.layers, 1), 1)

\* Dense: the layers that fit the GPUs with a tenth to spare.
DenseLayers(meta, gpu) == Least(((gpu * 10) \div 11) \div PerLayer(meta), meta.layers)

\* Mutant: the tenth to spare is forgotten.
ExpertsWithoutSpare(meta, gpu) ==
    Least(DivCeil(Minus(meta.total, gpu), PerLayer(meta)), meta.layers)

\* Mixture of experts: the layers whose experts stay on the CPU so that the
\* rest fits the GPUs with a tenth to spare.
ExpertsOnCpu(meta, gpu) ==
    Least(DivCeil(Minus(meta.total + (meta.total \div 10), gpu), PerLayer(meta)), meta.layers)

\* As the plan spells it: none for a dense model.
CpuMoeText(meta, gpu) ==
    LET n == ExpertsOnCpu(meta, gpu)
    IN  IF ~meta.moe THEN None
        ELSE IF Minus(meta.total + (meta.total \div 10), gpu) = 0 THEN "off"
        ELSE IF n >= meta.layers THEN "all" ELSE ToString(n)

Required(meta, ctx) == meta.total + KvMib(meta.layers, ctx)

\* Mutant: remote RAM counts as primary memory.
FitAnywhere(required, primary, remote) ==
    IF required + (required \div 10) <= primary THEN "fits"
    ELSE IF required <= primary + remote THEN "tight" ELSE "wontfit"

Fit(required, primary, remote) ==
    CASE required + (required \div 10) <= primary -> "fits"
      [] required + (required \div 10) > primary /\ required <= primary -> "tight"
      [] required > primary /\ required <= primary + remote -> "spill"
      [] required > primary + remote -> "wontfit"

\* Mutant: the host's own RAM is left idle.
RemoteLayersAll(meta, gpu, host) == Most(Minus(meta.layers, DenseLayers(meta, gpu)), 1)

\* Dense spillover: the layers beyond the GPUs and the host's own RAM.
RemoteLayers(meta, gpu, host) ==
    Most(Minus(meta.layers, DenseLayers(meta, gpu) + (host \div PerLayer(meta))), 1)

\* The plan.  `fit` tells the two causes of the code's Tight apart: "tight"
\* fits the primary memory, "spill" only with remote RAM; `meta` is the
\* model the plan is for.
SuggestPlan(nodes, meta, ctx) ==
    LET gpu    == GpuPool(nodes)
        host   == HostCpu(nodes)
        remote == RemoteCpu(nodes)
        eps    == CpuEndpoints(nodes)
        fit    == Fit(Required(meta, ctx), gpu + host, remote)
        wired  == fit = "spill" /\ ~meta.moe
        layers == RemoteLayers(meta, gpu, host)
        share  == (layers * PerLayer(meta)) \div Most(Len(eps), 1)
        shares == [i \in DOMAIN eps |-> share]
    IN  [fit    |-> fit,
         ngl    |-> IF meta.moe THEN meta.layers
                    ELSE IF wired THEN Least(DenseLayers(meta, gpu) + layers, meta.layers)
                    ELSE DenseLayers(meta, gpu),
         cpuMoe |-> IF meta.moe THEN ExpertsOnCpu(meta, gpu) ELSE 0,
         cpuMoeText |-> CpuMoeText(meta, gpu),
         noMmap |-> wired \/ (meta.moe /\ meta.total + (meta.total \div 10) > gpu),
         split  |-> Ratio(IF wired THEN Splits(nodes) \o shares ELSE Splits(nodes)),
         rpcCpu |-> IF wired THEN eps ELSE <<>>,
         gpuPool |-> gpu, cpuPool |-> host, remotePool |-> remote,
         warnings |-> <<>>, meta |-> meta]
=============================================================================
