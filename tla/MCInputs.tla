------------------------------ MODULE MCInputs ------------------------------
(***************************************************************************)
(* Instances of Inputs for TLC: nodes with little or much free RAM and     *)
(* with no GPU, a discrete one, two of them, a unified one (whose free     *)
(* memory is the free RAM, up to its working set), or one whose reading is *)
(* bogus.  Of a version it matters whether it is this node's.              *)
(***************************************************************************)
EXTENDS Inputs

ThreeNames == <<"self", "n1", "n2">>

Drift == 900       \* of the free RAM, from one reading to the next

DeviceLists(ram) ==
    {<<>>,
     <<Gpu("cuda", 8192, 7500)>>,
     <<Gpu("cuda", 8192, 7500), Gpu("cuda", 12288, 900)>>,
     <<MetalGpu(WorkingSet(16000, 0), ram + Drift)>>,
     <<Gpu("cuda", 8438, 90000)>>}

NodesWith(roles, rams, versions) ==
    UNION {{Sample("self", r, m, TRUE, ds, v) :
               r \in roles, ds \in DeviceLists(m), v \in versions} : m \in rams}

\* A host with a GPU that it keeps to itself.
Hiding == Sample("self", "host", 16000, FALSE, <<Gpu("cuda", 8192, 7500)>>, "b1")

\* A node whose address was registered without a port.
Unported == [Sample("self", "worker", 16000, TRUE, <<>>, "b2") EXCEPT !.ported = FALSE]

Asleep ==
    [name |-> "self", reachable |-> FALSE, sampled |-> FALSE, role |-> "worker", ram |-> 0,
     devices |-> <<>>, endpoint |-> None, version |-> None, ported |-> TRUE, gpus |-> 0]

\* Of this node's GPUs the plan knows all: what shifts a split is who the
\* plan takes for the host.
Selves    == {n \in NodesWith({"host", "worker"}, {2600, 16000}, {"b1"}) :
                 n.gpus = Len(TrustedOf(n))}
HostSelf  == NodesWith({"host"}, {2600, 16000}, {"b1"})
                 \cup NodesWith({"host"}, {2600}, {None}) \cup {Hiding}
Remotes   == NodesWith({"host"}, {2600, 16000}, {"b1"}) \cup {Asleep, Unported}
                 \cup NodesWith({"worker"}, {2600}, {"b2"})
                 \cup NodesWith({"worker"}, {16000}, {None})
                 \cup {IpadSample("self", 9000, b, "b2") : b \in {0, 11264}}

SomeModels ==
    {[total |-> t, layers |-> n, moe |-> m] : t \in {6000, 33000}, n \in {1, 40}, m \in BOOLEAN}

CatalogAndSome == Catalog \cup SomeModels

DenseModel == {[total |-> 33000, layers |-> 40, moe |-> FALSE]}
=============================================================================
