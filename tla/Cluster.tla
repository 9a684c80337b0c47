------------------------------- MODULE Cluster -------------------------------
(***************************************************************************)
(* What the host knows of its cluster when it has polled it                *)
(* (airpcez-core/src/cluster.rs, airpcez/src/poller.rs), and what it       *)
(* derives from that alone.  A cluster is a sequence of node snapshots: in *)
(* the one the handlers build, the node itself comes first and the         *)
(* registered nodes follow in the order of config.nodes.  Memory is in     *)
(* MiB; of the pairs total/free only the values something depends on stay. *)
(***************************************************************************)
EXTENDS Naturals, Sequences, SequencesExt, Filters

CONSTANT None      \* no endpoint, or no known version

\* No node reports its CPU as a device, though there is a kind for it.
Devices == [kind : {"cuda", "metal", "other"}, total : Nat, free : Nat,
            reliable : BOOLEAN]

\* A node: `sampled` is stats.is_some(), ram is what is free, version is
\* llama.cpp's, and `ported` says that the address it is registered under has
\* a port.  `gpus` is no part of its answer: the GPUs in the machine,
\* advertised or not.
Nodes ==
    [name : STRING, reachable : BOOLEAN, sampled : BOOLEAN, role : STRING, ram : Nat,
     devices : Seq(Devices), endpoint : STRING \cup {None}, version : STRING \cup {None},
     ported : BOOLEAN, gpus : Nat]

\* A driver can report more free memory than there is: such a reading is
\* not to be believed.
VramReliable(total, free) == total > 0 /\ free <= total

Gpu(kind, total, free) ==
    [kind |-> kind, total |-> total, free |-> free, reliable |-> VramReliable(total, free)]

\* apple_silicon_working_set_mib: the limit the user has set, or three
\* quarters of the memory.
WorkingSet(ramTotal, wiredLimit) == IF wiredLimit > 0 THEN wiredLimit ELSE (ramTotal * 3) \div 4

\* gather_devices on a Mac: one GPU, whose free memory is the free RAM, read
\* once more, as far as its working set goes.
MetalGpu(total, ramFree) == Gpu("metal", total, IF ramFree < total THEN ramFree ELSE total)

\* LocalStats::sample: a node that does not advertise its GPUs is CPU-only
\* to everybody, itself included, but has them all the same.
Sample(name, role, ramFree, advertiseGpu, devices, version) ==
    [name |-> name, reachable |-> TRUE, sampled |-> TRUE, role |-> role, ram |-> ramFree,
     devices |-> IF advertiseGpu THEN devices ELSE <<>>, endpoint |-> "0.0.0.0",
     version |-> version, ported |-> TRUE, gpus |-> Len(devices)]

\* sampleStats of the iPad app: one Metal device as large as the budget the
\* user has set, or four fifths of what is free; a worker, always.
IpadBudget(set, available) == IF set > 0 THEN set ELSE (available * 4) \div 5

IpadSample(name, available, set, version) ==
    Sample(name, "worker", available, TRUE,
           <<MetalGpu(IpadBudget(set, available), available)>>, version)

SumOver(seq, f(_)) == SumFunction([i \in DOMAIN seq |-> f(seq[i])])

\* A device the planner may place layers on.
Trusted(d) == d.reliable /\ d.total > 0

TrustedOf(n) == Retain(n.devices, Trusted)

HasGpu(n) == TrustedOf(n) # <<>>

Counted(n) == n.reachable /\ n.sampled

\* poll_one: the answer of one node.  Its rpc-server says it listens on
\* 0.0.0.0; the host of the address it was asked at replaces that, if the
\* address has a port to tell it from.  A node that does not answer in time,
\* or answers nonsense, has no stats.
Polled(n) ==
    [n EXCEPT !.sampled = Counted(n),
              !.endpoint = IF ~Counted(n) THEN None
                           ELSE IF @ # None /\ n.ported THEN n.name ELSE @]

\* poll_nodes over the registered nodes, with the node's own stats in front.
PollNodes(self, registered) ==
    <<self>> \o [i \in 1..Len(registered) |-> Polled(registered[i])]

\* The free memory a node's unified GPU reports, and its discrete ones.
Unified(n) ==
    SumOver(Retain(n.devices, LAMBDA d : d.reliable /\ d.kind = "metal"), LAMBDA d : d.free)
Discrete(n) ==
    SumOver(Retain(n.devices, LAMBDA d : d.reliable /\ d.kind # "metal"), LAMBDA d : d.free)

\* cluster_memory_totals, the free half: an Apple GPU's memory is part of
\* the node's RAM and is not added to the pool again.
MemoryTotals(nodes) ==
    LET present == Retain(nodes, Counted)
        Vram(n) == SumOver(Retain(n.devices, LAMBDA d : d.reliable), LAMBDA d : d.free)
    IN  [ram  |-> SumOver(present, LAMBDA n : n.ram),
         vram |-> SumOver(present, Vram),
         pool |-> SumOver(present, LAMBDA n : n.ram + Discrete(n))]

\* Mutant: only the nodes with a GPU are compared.
GpuVersionWarnings(self, nodes) ==
    LET differing == Retain(nodes, LAMBDA n : /\ Counted(n) /\ n.version # None /\ HasGpu(n)
                                                 /\ n.version # self.version)
    IN  IF self.version = None THEN <<>>
        ELSE [i \in DOMAIN differing |-> differing[i].name]

\* version_warnings: the nodes that answered with another version of
\* llama.cpp than this one; none when this one's is not known.
VersionWarnings(self, nodes) ==
    LET differing == Retain(nodes, LAMBDA n : /\ Counted(n) /\ n.version # None
                                                 /\ n.version # self.version)
    IN  IF self.version = None THEN <<>>
        ELSE [i \in DOMAIN differing |-> differing[i].name]

\* Mutant: the order of config.nodes.
EndpointsAsListed(nodes) ==
    LET offered == Retain(nodes, LAMBDA n : n.sampled /\ n.endpoint # None)
    IN  [i \in 1..Len(offered) |-> offered[i].endpoint]

\* ordered_rpc_endpoints over polled nodes: those with a GPU first, the
\* CPU-only ones last, each group in the order of the list.
RpcEndpoints(nodes) ==
    LET offered == Retain(nodes, LAMBDA n : n.sampled /\ n.endpoint # None)
        gpu == Retain(offered, HasGpu)
        cpu == Retain(offered, LAMBDA n : ~HasGpu(n))
    IN  [i \in 1..Len(gpu \o cpu) |-> (gpu \o cpu)[i].endpoint]
=============================================================================
