---------------------------- MODULE InputsProofs ----------------------------
(***************************************************************************)
(* Theorems about the functions that keep no state: suggest_plan and what  *)
(* it reads of a cluster, for clusters, memory and models of any size; the *)
(* command line, for argument vectors of any length; pick_gguf, for        *)
(* directories of any size; slugify, for names of any length; and the way  *)
(* from a plan or a profile to the form, and from the form to a profile or *)
(* a launch.  Each is proved for the inputs themselves, by induction where *)
(* the function recurses, and then for the machine that grows the inputs.  *)
(***************************************************************************)
EXTENDS Inputs, DataLemmas

-----------------------------------------------------------------------------
(* The memory of a node, and the pools.                                    *)

FreeOf   == [d \in Devices |-> d.free]
UsableOf == [d \in Devices |-> Usable(d)]

UsableIn(n) == Weight(TrustedOf(n), UsableOf)

LEMMA DeviceWeights == FreeOf \in [Devices -> Nat] /\ UsableOf \in [Devices -> Nat]
<1>1. \A d \in Devices : d.free \in Nat /\ Usable(d) \in Nat
  BY DEF Devices, Usable, Minus, GpuHeadroom
<1> QED
  BY <1>1 DEF FreeOf, UsableOf

LEMMA FreeSum ==
  ASSUME NEW q \in Seq(Devices)
  PROVE  SumOver(q, LAMBDA d : d.free) = Weight(q, FreeOf)
<1>1. \A i \in DOMAIN q : FreeOf[q[i]] = q[i].free
  BY DEF FreeOf
<1>2. [i \in DOMAIN q |-> q[i].free] = [i \in DOMAIN q |-> FreeOf[q[i]]]
  BY <1>1
<1> QED
  BY <1>2, Zenon DEF SumOver, Weight

LEMMA UsableSum ==
  ASSUME NEW q \in Seq(Devices)
  PROVE  SumOver(q, Usable) = Weight(q, UsableOf)
<1>1. \A i \in DOMAIN q : UsableOf[q[i]] = Usable(q[i])
  BY DEF UsableOf
<1>2. [i \in DOMAIN q |-> Usable(q[i])] = [i \in DOMAIN q |-> UsableOf[q[i]]]
  BY <1>1
<1> QED
  BY <1>2, Zenon DEF SumOver, Weight

\* Of a node's GPUs no more is usable than they report free.
LEMMA UsableWithinFree ==
  ASSUME NEW n \in Nodes
  PROVE  /\ Unified(n) \in Nat /\ Discrete(n) \in Nat /\ UsableIn(n) \in Nat
         /\ UsableUnified(n) \in Nat
         /\ TrustedOf(n) \in Seq(Devices)
         /\ UsableIn(n) <= Unified(n) + Discrete(n)
         /\ UsableIn(n) <= UsableUnified(n) + Discrete(n)
<1> DEFINE ds == n.devices
           D == 1..Len(ds)
           T == {i \in DOMAIN ds : Trusted(ds[i])}
           M == {i \in DOMAIN ds : ds[i].reliable /\ ds[i].kind = "metal"}
           C == {i \in DOMAIN ds : ds[i].reliable /\ ds[i].kind # "metal"}
           u == PickedWeights(ds, T, UsableOf)
           m == PickedWeights(ds, M, FreeOf)
           c == PickedWeights(ds, C, FreeOf)
           v == PickedWeights(ds, M, UsableOf)
           all == [i \in D |-> m[i] + c[i]]
           less == [i \in D |-> v[i] + c[i]]
<1>1. ds \in Seq(Devices)
  BY DEF Nodes
<1>2. TrustedOf(n) = Picked(ds, T)
  BY DEF TrustedOf, Retain
<1>3. Unified(n) = SumOver(Picked(ds, M), LAMBDA d : d.free)
  BY Zenon DEF Unified, Retain
<1>4. Discrete(n) = SumOver(Picked(ds, C), LAMBDA d : d.free)
  BY Zenon DEF Discrete, Retain
<1>5. D = DOMAIN ds /\ IsFiniteSet(D) /\ \A i \in D : ds[i] \in Devices
  BY <1>1, FS_Interval
<1>6. \A i \in D : /\ FreeOf[ds[i]] \in Nat /\ UsableOf[ds[i]] \in Nat
                   /\ UsableOf[ds[i]] <= FreeOf[ds[i]]
                   /\ i \in T => i \in M \/ i \in C
                   /\ ~(i \in M /\ i \in C)
  BY <1>5 DEF FreeOf, UsableOf, Devices, Usable, Minus, GpuHeadroom, Trusted
<1> HIDE DEF ds, T, M, C
<1>7. /\ Picked(ds, T) \in Seq(Devices) /\ u \in [D -> Nat]
      /\ UsableIn(n) = SumFunctionOnSet(u, D)
  BY <1>1, <1>2, DeviceWeights, WeightPicked DEF UsableIn
<1>8. /\ Picked(ds, M) \in Seq(Devices) /\ m \in [D -> Nat]
      /\ Weight(Picked(ds, M), FreeOf) = SumFunctionOnSet(m, D)
  BY <1>1, DeviceWeights, WeightPicked
<1>9. /\ Picked(ds, C) \in Seq(Devices) /\ c \in [D -> Nat]
      /\ Weight(Picked(ds, C), FreeOf) = SumFunctionOnSet(c, D)
  BY <1>1, DeviceWeights, WeightPicked
<1>10. Unified(n) = SumFunctionOnSet(m, D)
  BY <1>3, <1>8, FreeSum
<1>11. Discrete(n) = SumFunctionOnSet(c, D)
  BY <1>4, <1>9, FreeSum
<1>12. /\ all \in [D -> Nat]
       /\ \A i \in D : all[i] = m[i] + c[i]
       /\ \A i \in D : u[i] <= all[i]
  BY <1>6 DEF PickedWeights
<1>13. /\ v \in [D -> Nat] /\ Weight(Picked(ds, M), UsableOf) = SumFunctionOnSet(v, D)
       /\ UsableUnified(n) = SumFunctionOnSet(v, D)
  <2>1. UsableUnified(n) = SumOver(Picked(ds, M), Usable)
    BY Zenon DEF UsableUnified, Retain, ds, M
  <2>2. v \in [D -> Nat] /\ Weight(Picked(ds, M), UsableOf) = SumFunctionOnSet(v, D)
    BY <1>1, DeviceWeights, WeightPicked
  <2> QED
    BY <1>8, <2>1, <2>2, UsableSum
<1>14. /\ less \in [D -> Nat]
       /\ \A i \in D : less[i] = v[i] + c[i]
       /\ \A i \in D : u[i] <= less[i]
  <2>1. \A i \in D : u[i] = IF i \in T THEN UsableOf[ds[i]] ELSE 0
    BY DEF PickedWeights
  <2>2. \A i \in D : v[i] = IF i \in M THEN UsableOf[ds[i]] ELSE 0
    BY DEF PickedWeights
  <2>3. \A i \in D : c[i] = IF i \in C THEN FreeOf[ds[i]] ELSE 0
    BY DEF PickedWeights
  <2>4. \A i \in D : less[i] = v[i] + c[i]
    OBVIOUS
  <2> HIDE DEF D, u, v, c
  <2>5. less \in [D -> Nat]
    BY <1>9, <1>13
  <2> HIDE DEF less
  <2> QED
    BY <1>6, <2>1, <2>2, <2>3, <2>4, <2>5
<1> HIDE DEF D, u, m, c, v, all, less
<1>15. /\ SumFunctionOnSet(u, D) \in Nat /\ SumFunctionOnSet(m, D) \in Nat
       /\ SumFunctionOnSet(c, D) \in Nat /\ SumFunctionOnSet(v, D) \in Nat
  BY <1>5, <1>7, <1>8, <1>9, <1>13, SumType
<1>16. SumFunctionOnSet(all, D) = SumFunctionOnSet(m, D) + SumFunctionOnSet(c, D)
  BY <1>5, <1>8, <1>9, <1>12, SumPlus
<1>17. SumFunctionOnSet(u, D) <= SumFunctionOnSet(all, D)
  BY <1>5, <1>7, <1>12, SumMonotone
<1>18. SumFunctionOnSet(less, D) = SumFunctionOnSet(v, D) + SumFunctionOnSet(c, D)
  <2>1. Adds(less, v, c, D)
    BY <1>5, <1>9, <1>13, <1>14 DEF Adds
  <2> QED
    BY <2>1, SumAdds
<1>19. SumFunctionOnSet(u, D) <= SumFunctionOnSet(less, D)
  BY <1>5, <1>7, <1>14, SumMonotone
<1> QED
  BY <1>2, <1>7, <1>10, <1>11, <1>13, <1>15, <1>16, <1>17, <1>18, <1>19

-----------------------------------------------------------------------------
LEMMA HostIsThere ==
  ASSUME NEW nodes \in Seq(Nodes)
  PROVE  /\ HostIdx(nodes) \in 0..Len(nodes)
         /\ HostIdx(nodes) # 0 => nodes[HostIdx(nodes)].reachable
<1> DEFINE I == {i \in 1..Len(nodes) : Counted(nodes[i]) /\ nodes[i].role = "host"}
           J == {i \in 1..Len(nodes) : nodes[i].reachable}
           named == IF I # {} THEN Min(I) ELSE 0
           first == IF J # {} THEN Min(J) ELSE 0
<1>1. named \in 0..Len(nodes) /\ (named # 0 => named \in I)
  <2>1. I \in SUBSET (1..Len(nodes)) /\ Len(nodes) \in Nat
    OBVIOUS
  <2> HIDE DEF I
  <2>2. I # {} => Min(I) \in I
    BY <2>1, FirstOf
  <2>3. CASE I = {}
    BY <2>1, <2>3
  <2>4. CASE I # {}
    <3>1. named = Min(I) /\ Min(I) \in 1..Len(nodes)
      BY <2>1, <2>2, <2>4
    <3> QED
      BY <2>1, <2>2, <2>4, <3>1
  <2> QED
    BY <2>3, <2>4
<1>2. first \in 0..Len(nodes) /\ (first # 0 => first \in J)
  <2>1. J \in SUBSET (1..Len(nodes)) /\ Len(nodes) \in Nat
    OBVIOUS
  <2> HIDE DEF J
  <2>2. J # {} => Min(J) \in J
    BY <2>1, FirstOf
  <2>3. CASE J = {}
    BY <2>1, <2>3
  <2>4. CASE J # {}
    <3>1. first = Min(J) /\ Min(J) \in 1..Len(nodes)
      BY <2>1, <2>2, <2>4
    <3> QED
      BY <2>1, <2>2, <2>4, <3>1
  <2> QED
    BY <2>3, <2>4
<1>3. HostIdx(nodes) = IF named # 0 THEN named ELSE first
  BY DEF HostIdx, SelectInSeq
<1> HIDE DEF named, first
<1> QED
  BY <1>1, <1>2, <1>3 DEF Counted

\* What a pool counts of a node.
SpareOf  == [n \in Nodes |-> Minus(n.ram, CpuHeadroom)]
MemoryOf == [n \in Nodes |-> n.ram + Discrete(n)]

Present(nodes) == {i \in DOMAIN nodes : Counted(nodes[i])}
CpuOnly(nodes) ==
    {i \in DOMAIN nodes : Counted(nodes[i]) /\ i # HostIdx(nodes) /\ ~HasGpu(nodes[i])}
GpusAt(nodes) == [i \in DOMAIN nodes |-> GpusOf(nodes[i])]

LEMMA NodeWeights == SpareOf \in [Nodes -> Nat] /\ MemoryOf \in [Nodes -> Nat]
<1>1. \A n \in Nodes : Minus(n.ram, CpuHeadroom) \in Nat /\ n.ram + Discrete(n) \in Nat
  <2> SUFFICES ASSUME NEW n \in Nodes
               PROVE  Minus(n.ram, CpuHeadroom) \in Nat /\ n.ram + Discrete(n) \in Nat
    OBVIOUS
  <2>1. n.ram \in Nat /\ Discrete(n) \in Nat
    BY UsableWithinFree DEF Nodes
  <2> QED
    BY <2>1 DEF Minus, CpuHeadroom
<1> QED
  BY <1>1 DEF SpareOf, MemoryOf

\* The GPUs' pool is the sum of what is usable of each node ...
LEMMA GpuPoolIs ==
  ASSUME NEW nodes \in Seq(Nodes)
  PROVE  /\ GpuPool(nodes) \in Nat
         /\ GpusAt(nodes) \in Seq(Seq(Devices)) /\ Len(GpusAt(nodes)) = Len(nodes)
         /\ GpuPool(nodes) = SumFunctionOnSet(JoinedWeights(GpusAt(nodes), UsableOf), 1..Len(nodes))
         /\ JoinedWeights(GpusAt(nodes), UsableOf) \in [1..Len(nodes) -> Nat]
<1> DEFINE gpus == FlattenSeq(GpusAt(nodes))
<1>1. \A i \in DOMAIN nodes : GpusOf(nodes[i]) \in Seq(Devices)
  <2> SUFFICES ASSUME NEW i \in DOMAIN nodes PROVE GpusOf(nodes[i]) \in Seq(Devices)
    OBVIOUS
  <2>1. nodes[i] \in Nodes
    OBVIOUS
  <2>2. TrustedOf(nodes[i]) \in Seq(Devices)
    BY <2>1, UsableWithinFree
  <2> QED
    BY <2>2 DEF GpusOf
<1>2. GpusAt(nodes) \in Seq(Seq(Devices)) /\ Len(GpusAt(nodes)) = Len(nodes)
  BY <1>1 DEF GpusAt
<1>3. /\ gpus \in Seq(Devices)
      /\ Weight(gpus, UsableOf) = SumFunctionOnSet(JoinedWeights(GpusAt(nodes), UsableOf), 1..Len(nodes))
      /\ JoinedWeights(GpusAt(nodes), UsableOf) \in [1..Len(nodes) -> Nat]
  BY <1>2, DeviceWeights, WeightFlatten
<1>4. Splits(nodes) = [j \in DOMAIN gpus |-> Usable(gpus[j])]
  BY Zenon DEF Splits, GpusAt
<1> HIDE DEF gpus
<1>5. Splits(nodes) = [j \in DOMAIN gpus |-> UsableOf[gpus[j]]]
  BY <1>3, <1>4 DEF UsableOf
<1>6. GpuPool(nodes) = SumFunction([i \in DOMAIN Splits(nodes) |-> Splits(nodes)[i]])
  BY Zenon DEF GpuPool, SumOver
<1>7. [i \in DOMAIN Splits(nodes) |-> Splits(nodes)[i]] = Splits(nodes)
  BY <1>5
<1>8. GpuPool(nodes) = Weight(gpus, UsableOf)
  BY <1>5, <1>6, <1>7 DEF Weight
<1>9. Weight(gpus, UsableOf) \in Nat
  BY <1>3, DeviceWeights, WeightIs
<1> QED
  BY <1>2, <1>3, <1>8, <1>9

\* ... the remote CPUs' the sum of what those nodes can spare ...
LEMMA RemoteCpuIs ==
  ASSUME NEW nodes \in Seq(Nodes)
  PROVE  /\ RemoteCpu(nodes) \in Nat
         /\ RemoteCpu(nodes)
              = SumFunctionOnSet(PickedWeights(nodes, CpuOnly(nodes), SpareOf), 1..Len(nodes))
         /\ PickedWeights(nodes, CpuOnly(nodes), SpareOf) \in [1..Len(nodes) -> Nat]
<1> DEFINE q == CpuNodes(nodes)
<1>1. q = Picked(nodes, CpuOnly(nodes))
  BY DEF CpuNodes, CpuOnly
<1> HIDE DEF q
<1>2. /\ q \in Seq(Nodes)
      /\ Weight(q, SpareOf) = SumFunctionOnSet(PickedWeights(nodes, CpuOnly(nodes), SpareOf), 1..Len(nodes))
      /\ PickedWeights(nodes, CpuOnly(nodes), SpareOf) \in [1..Len(nodes) -> Nat]
  BY <1>1, NodeWeights, WeightPicked
<1>3. RemoteCpu(nodes) = SumFunction([i \in DOMAIN q |-> Minus(q[i].ram, CpuHeadroom)])
  BY Zenon DEF RemoteCpu, SumOver, q
<1>4. \A i \in DOMAIN q : SpareOf[q[i]] = Minus(q[i].ram, CpuHeadroom)
  BY <1>2 DEF SpareOf
<1>5. [i \in DOMAIN q |-> Minus(q[i].ram, CpuHeadroom)] = [i \in DOMAIN q |-> SpareOf[q[i]]]
  BY <1>4
<1>6. RemoteCpu(nodes) = Weight(q, SpareOf)
  BY <1>3, <1>5 DEF Weight
<1>7. Weight(q, SpareOf) \in Nat
  BY <1>2, NodeWeights, WeightIs
<1> QED
  BY <1>2, <1>6, <1>7

\* ... and the pool of /cluster the sum of the memory of each node.
LEMMA PoolTotalIs ==
  ASSUME NEW nodes \in Seq(Nodes)
  PROVE  /\ MemoryTotals(nodes).pool
              = SumFunctionOnSet(PickedWeights(nodes, Present(nodes), MemoryOf), 1..Len(nodes))
         /\ PickedWeights(nodes, Present(nodes), MemoryOf) \in [1..Len(nodes) -> Nat]
<1> DEFINE q == Retain(nodes, Counted)
<1>1. q = Picked(nodes, Present(nodes))
  BY DEF Retain, Present
<1>3. MemoryTotals(nodes).pool = SumOver(q, LAMBDA n : n.ram + Discrete(n))
  BY DEF MemoryTotals
<1> HIDE DEF q
<1>2. /\ q \in Seq(Nodes)
      /\ Weight(q, MemoryOf) = SumFunctionOnSet(PickedWeights(nodes, Present(nodes), MemoryOf), 1..Len(nodes))
      /\ PickedWeights(nodes, Present(nodes), MemoryOf) \in [1..Len(nodes) -> Nat]
  BY <1>1, NodeWeights, WeightPicked
<1>4. \A i \in DOMAIN q : MemoryOf[q[i]] = q[i].ram + Discrete(q[i])
  BY <1>2 DEF MemoryOf
<1>5. [i \in DOMAIN q |-> q[i].ram + Discrete(q[i])] = [i \in DOMAIN q |-> MemoryOf[q[i]]]
  BY <1>4
<1>6. MemoryTotals(nodes).pool = Weight(q, MemoryOf)
  <2>1. MemoryTotals(nodes).pool = SumFunction([i \in DOMAIN q |-> q[i].ram + Discrete(q[i])])
    BY <1>3, Zenon DEF SumOver
  <2> QED
    BY <1>5, <2>1 DEF Weight
<1> QED
  BY <1>2, <1>6

LEMMA HostCpuIs ==
  ASSUME NEW nodes \in Seq(Nodes)
  PROVE  LET h == HostIdx(nodes)
         IN  /\ HostCpu(nodes) \in Nat
             /\ HostCpu(nodes) # 0 => /\ h \in 1..Len(nodes)
                                      /\ Counted(nodes[h])
                                      /\ HostCpu(nodes) = Minus(nodes[h].ram, CpuHeadroom + Unified(nodes[h]))
<1> DEFINE h == HostIdx(nodes)
<1>1. h \in 0..Len(nodes) /\ (h # 0 => nodes[h].reachable)
  BY HostIsThere
<1>2. HostCpu(nodes) = IF h = 0 \/ ~nodes[h].sampled THEN 0
                       ELSE Minus(nodes[h].ram, CpuHeadroom + Unified(nodes[h]))
  BY Zenon DEF HostCpu
<1> HIDE DEF h
<1>3. CASE h = 0 \/ ~nodes[h].sampled
  BY <1>2, <1>3 DEF h
<1>4. CASE h # 0 /\ nodes[h].sampled
  <2>1. h \in 1..Len(nodes) /\ nodes[h] \in Nodes
    BY <1>1, <1>4
  <2>2. nodes[h].ram \in Nat /\ Unified(nodes[h]) \in Nat
    BY <2>1, UsableWithinFree DEF Nodes
  <2>3. HostCpu(nodes) \in Nat
    BY <1>2, <1>4, <2>2 DEF Minus, CpuHeadroom
  <2> QED
    BY <1>1, <1>2, <1>4, <2>1, <2>3 DEF Counted, h
<1> QED
  BY <1>3, <1>4

\* No memory is counted twice: node by node, and so for the cluster.
LEMMA PoolsAddUp ==
  ASSUME NEW nodes \in Seq(Nodes),
         \A i \in DOMAIN nodes : UsableUnified(nodes[i]) <= nodes[i].ram
  PROVE  GpuPool(nodes) + HostCpu(nodes) + RemoteCpu(nodes) <= MemoryTotals(nodes).pool
<1> DEFINE D == 1..Len(nodes)
           h == HostIdx(nodes)
           x == HostCpu(nodes)
           gpu == JoinedWeights(GpusAt(nodes), UsableOf)
           host == [i \in D |-> IF i = h THEN x ELSE 0]
           remote == PickedWeights(nodes, CpuOnly(nodes), SpareOf)
           cpu == [i \in D |-> host[i] + remote[i]]
           all == [i \in D |-> gpu[i] + cpu[i]]
           pool == PickedWeights(nodes, Present(nodes), MemoryOf)
<1>1. gpu \in [D -> Nat] /\ GpuPool(nodes) = SumFunctionOnSet(gpu, D)
  BY GpuPoolIs
<1>2. remote \in [D -> Nat] /\ RemoteCpu(nodes) = SumFunctionOnSet(remote, D)
  BY RemoteCpuIs
<1>3. pool \in [D -> Nat] /\ MemoryTotals(nodes).pool = SumFunctionOnSet(pool, D)
  BY PoolTotalIs
<1>4. /\ x \in Nat
      /\ x # 0 => /\ h \in D /\ Counted(nodes[h])
                  /\ x = Minus(nodes[h].ram, CpuHeadroom + Unified(nodes[h]))
  BY HostCpuIs
<1>5. IsFiniteSet(D) /\ host \in [D -> Nat]
  <2>1. x \in Nat
    BY <1>4
  <2>2. IsFiniteSet(D)
    BY FS_Interval
  <2> HIDE DEF x, D
  <2> QED
    BY <2>1, <2>2
<1>6. ASSUME NEW i \in D PROVE gpu[i] + host[i] + remote[i] <= pool[i]
  <2> DEFINE n == nodes[i]
  <2>1. n \in Nodes /\ i \in DOMAIN nodes
    OBVIOUS
  <2>2. /\ n.ram \in Nat /\ Unified(n) \in Nat /\ Discrete(n) \in Nat /\ UsableIn(n) \in Nat
        /\ UsableUnified(n) \in Nat /\ UsableUnified(n) <= n.ram
        /\ UsableIn(n) <= Unified(n) + Discrete(n)
        /\ UsableIn(n) <= UsableUnified(n) + Discrete(n)
    BY <2>1, UsableWithinFree DEF Nodes
  <2>3. gpu[i] = IF Counted(n) THEN UsableIn(n) ELSE 0
    <3>1. gpu[i] = Weight(GpusOf(n), UsableOf)
      BY <2>1, GpuPoolIs DEF JoinedWeights, GpusAt
    <3>2. Counted(n) => GpusOf(n) = TrustedOf(n)
      BY DEF GpusOf
    <3>3. ~Counted(n) => GpusOf(n) = <<>>
      BY DEF GpusOf
    <3> HIDE DEF n, gpu
    <3> QED
      BY <3>1, <3>2, <3>3, WeightEmpty DEF UsableIn
  <2>4. remote[i] = IF i \in CpuOnly(nodes) THEN Minus(n.ram, CpuHeadroom) ELSE 0
    BY <2>1 DEF PickedWeights, SpareOf
  <2>5. pool[i] = IF Counted(n) THEN n.ram + Discrete(n) ELSE 0
    BY <2>1 DEF PickedWeights, MemoryOf, Present
  <2>6. host[i] = IF i = h THEN x ELSE 0
    OBVIOUS
  <2>7. i \in CpuOnly(nodes) => Counted(n) /\ i # h /\ UsableIn(n) = 0
    <3>1. i \in CpuOnly(nodes) => Counted(n) /\ i # h /\ TrustedOf(n) = <<>>
      BY DEF CpuOnly, HasGpu
    <3> QED
      BY <3>1, WeightEmpty DEF UsableIn
  <2>8. i = h /\ x # 0 => Counted(n) /\ x = Minus(n.ram, CpuHeadroom + Unified(n))
    BY <1>4
  <2> HIDE DEF n, gpu, host, remote, pool, h, x
  <2>9. CASE i \in CpuOnly(nodes)
    BY <2>2, <2>3, <2>4, <2>5, <2>6, <2>7, <2>9 DEF Minus, CpuHeadroom
  <2>10. CASE i \notin CpuOnly(nodes) /\ i = h /\ x # 0
    BY <2>2, <2>3, <2>4, <2>5, <2>6, <2>8, <2>10 DEF Minus, CpuHeadroom
  <2>11. CASE i \notin CpuOnly(nodes) /\ (i # h \/ x = 0)
    BY <2>2, <2>3, <2>4, <2>5, <2>6, <2>11
  <2> QED
    BY <2>9, <2>10, <2>11
<1> HIDE DEF D, gpu, remote, pool
<1>7. cpu \in [D -> Nat] /\ \A i \in D : cpu[i] = host[i] + remote[i]
  BY <1>2, <1>5
<1>8. all \in [D -> Nat] /\ \A i \in D : all[i] = gpu[i] + cpu[i]
  BY <1>1, <1>7
<1>9. \A i \in D : all[i] <= pool[i]
  BY <1>1, <1>2, <1>3, <1>5, <1>6, <1>8
<1>10. x = 0 \/ SumFunctionOnSet(host, D) = x
  <2>1. CASE x # 0
    <3>1. h \in D
      BY <1>4, <2>1
    <3> HIDE DEF h, x
    <3> QED
      BY <1>4, <1>5, <3>1, SumAtOne
  <2> QED
    BY <2>1
<1> HIDE DEF cpu, all, host, x, h
<1>11. Adds(cpu, host, remote, D) /\ Adds(all, gpu, cpu, D)
  BY <1>1, <1>2, <1>5, <1>7, <1>8 DEF Adds
<1>12. SumFunctionOnSet(cpu, D) = SumFunctionOnSet(host, D) + SumFunctionOnSet(remote, D)
  BY <1>11, SumAdds
<1>13. SumFunctionOnSet(all, D) = SumFunctionOnSet(gpu, D) + SumFunctionOnSet(cpu, D)
  BY <1>11, SumAdds
<1>14. SumFunctionOnSet(all, D) <= SumFunctionOnSet(pool, D)
  BY <1>3, <1>5, <1>8, <1>9, SumMonotone
<1>15. /\ SumFunctionOnSet(gpu, D) \in Nat /\ SumFunctionOnSet(host, D) \in Nat
       /\ SumFunctionOnSet(remote, D) \in Nat /\ SumFunctionOnSet(pool, D) \in Nat
  BY <1>1, <1>2, <1>3, <1>5, SumType
<1>16. SumFunctionOnSet(gpu, D) + x + SumFunctionOnSet(remote, D) <= SumFunctionOnSet(pool, D)
  BY <1>4, <1>10, <1>12, <1>13, <1>14, <1>15
<1> QED
  BY <1>1, <1>2, <1>3, <1>16 DEF x

-----------------------------------------------------------------------------
(* Division, and the pieces of the plan.                                   *)

LEMMA DivBounds ==
  ASSUME NEW a \in Nat, NEW n \in Nat \ {0}
  PROVE  /\ a \div n \in Nat
         /\ (a \div n) * n <= a
         /\ a < (a \div n) * n + n
  OBVIOUS

LEMMA Distributes ==
  ASSUME NEW x \in Int, NEW y \in Int, NEW n \in Int
  PROVE  (x - y) * n = x * n - y * n /\ (x + y) * n = x * n + y * n
  OBVIOUS

LEMMA TimesMonotonic ==
  ASSUME NEW x \in Int, NEW y \in Int, x <= y, NEW n \in Nat
  PROVE  x * n <= y * n
  OBVIOUS

\* What ten elevenths leave of a pool is a tenth of it, rounded.
LEMMA TenElevenths ==
  ASSUME NEW g \in Nat
  PROVE  /\ (g * 10) \div 11 \in Nat
         /\ (g * 10) \div 11 <= g
         /\ g <= (g * 10) \div 11 + g \div 10 + 1
         /\ 10 * g <= 11 * ((g * 10) \div 11) + 10
  OBVIOUS

\* The layers of a model are not larger than the model.
LEMMA PerLayerBounds ==
  ASSUME NEW m \in Models
  PROVE  /\ PerLayer(m) \in Nat \ {0}
         /\ m.layers * PerLayer(m) <= m.total
<1>1. m.total \in Nat /\ m.layers \in Nat \ {0} /\ m.layers <= m.total
  BY DEF Models
<1>2. m.total \div m.layers \in Nat \ {0} /\ (m.total \div m.layers) * m.layers <= m.total
  <2>1. CASE m.total \div m.layers = 0
    BY <1>1, <2>1, DivBounds
  <2> QED
    BY <1>1, <2>1, DivBounds
<1>3. PerLayer(m) = m.total \div m.layers
  BY <1>1, <1>2 DEF PerLayer, Most
<1> QED
  BY <1>1, <1>2, <1>3

\* The GPUs are filled up to less than a layer and the tenth to spare.
LEMMA DenseBounds ==
  ASSUME NEW m \in Models, NEW g \in Nat
  PROVE  /\ DenseLayers(m, g) \in Nat /\ DenseLayers(m, g) <= m.layers
         /\ DenseLayers(m, g) = m.layers \/ (g * 10) \div 11 < DenseLayers(m, g) * PerLayer(m) + PerLayer(m)
<1>1. m.layers \in Nat \ {0} /\ PerLayer(m) \in Nat \ {0} /\ (g * 10) \div 11 \in Nat
  BY PerLayerBounds, TenElevenths DEF Models
<1> DEFINE d == ((g * 10) \div 11) \div PerLayer(m)
<1>2. d \in Nat /\ (g * 10) \div 11 < d * PerLayer(m) + PerLayer(m)
  BY <1>1, DivBounds
<1>3. DenseLayers(m, g) = IF d < m.layers THEN d ELSE m.layers
  BY DEF DenseLayers, Least
<1> HIDE DEF d
<1> QED
  BY <1>1, <1>2, <1>3
-----------------------------------------------------------------------------
(* Each tier, from the pools alone.                                        *)

\* Within the primary memory, what the GPUs do not take fits the host.
LEMMA PrimaryRemainder ==
  ASSUME NEW m \in Models, NEW gpu \in Nat, NEW host \in Nat, NEW required \in Nat,
         m.total <= required, required <= gpu + host
  PROVE  /\ (m.layers - DenseLayers(m, gpu)) * PerLayer(m) <= host + PerLayer(m) + (gpu \div 10)
         /\ required + (required \div 10) <= gpu + host =>
              (m.layers - DenseLayers(m, gpu)) * PerLayer(m) <= host + PerLayer(m)
<1> DEFINE L == m.layers
           D == DenseLayers(m, gpu)
           P == PerLayer(m)
           G == (gpu * 10) \div 11
<1>1. L \in Nat /\ m.total \in Nat /\ P \in Nat \ {0} /\ L * P <= m.total
  BY PerLayerBounds DEF Models
<1>2. D \in Nat /\ D <= L /\ (D = L \/ G < D * P + P)
  BY DenseBounds
<1>3. G \in Nat /\ gpu <= G + gpu \div 10 + 1 /\ 10 * gpu <= 11 * G + 10 /\ gpu \div 10 \in Nat
  BY TenElevenths
<1>4. (L - D) * P = L * P - D * P /\ L * P \in Nat /\ D * P \in Nat
  BY <1>1, <1>2, Distributes
<1>5. CASE D = L
  BY <1>1, <1>3, <1>4, <1>5
<1>6. CASE G < D * P + P
  <2>1. (L - D) * P < m.total - G + P
    BY <1>1, <1>3, <1>4, <1>6
  <2>2. (L - D) * P <= host + P + (gpu \div 10)
    BY <2>1, <1>1, <1>2, <1>3, <1>4
  <2>3. ASSUME required + (required \div 10) <= gpu + host PROVE (L - D) * P <= host + P
    <3>1. 10 * required < 10 * (required \div 10) + 10 * 1 + 9 * required
      OBVIOUS
    <3>2. 11 * required <= 10 * (gpu + host) + 9
      BY <2>3
    <3>3. 11 * (m.total - G) <= 10 * host + 19
      BY <3>2, <1>1, <1>3
    <3>4. m.total - G <= host + 1
      BY <3>3, <1>1, <1>3
    <3> QED
      BY <3>4, <2>1, <1>1, <1>3, <1>4
  <2> QED
    BY <2>2, <2>3
<1> QED
  BY <1>2, <1>5, <1>6

\* The layers of a spilling plan, and the ones it sends away.
Spilled(m, gpu, host) == Least(DenseLayers(m, gpu) + RemoteLayers(m, gpu, host), m.layers)

\* A spilling plan leaves to the host no more than it has, and sends away no
\* more than the remote CPUs have, a tenth of the GPUs and two layers.
LEMMA SpillFits ==
  ASSUME NEW m \in Models, NEW gpu \in Nat, NEW host \in Nat, NEW remote \in Nat,
         m.total <= gpu + host + remote
  PROVE  /\ (m.layers - Spilled(m, gpu, host)) * PerLayer(m) <= host
         /\ (Spilled(m, gpu, host) - DenseLayers(m, gpu)) * PerLayer(m)
                <= remote + (gpu \div 10) + 2 * PerLayer(m)
<1> DEFINE L == m.layers
           D == DenseLayers(m, gpu)
           P == PerLayer(m)
           G == (gpu * 10) \div 11
           H == host \div P
           N == Spilled(m, gpu, host)
<1>1. L \in Nat /\ m.total \in Nat /\ P \in Nat \ {0} /\ L * P <= m.total
  BY PerLayerBounds DEF Models
<1>2. D \in Nat /\ D <= L /\ (D = L \/ G < D * P + P)
  BY DenseBounds
<1>3. G \in Nat /\ gpu <= G + gpu \div 10 + 1 /\ gpu \div 10 \in Nat
  BY TenElevenths
<1>4. H \in Nat /\ H * P <= host /\ host < H * P + P
  BY <1>1, DivBounds
<1>5. L * P \in Nat /\ D * P \in Nat /\ H * P \in Nat
  BY <1>1, <1>2, <1>4
<1>6. CASE L > D + H
  <2>1. N = L - H
    BY <1>1, <1>2, <1>4, <1>6 DEF Spilled, RemoteLayers, Least, Most, Minus
  <2>2. (L - N) * P <= host
    BY <2>1, <1>1, <1>4
  <2>3. (N - D) * P = L * P - H * P - D * P
    <3>1. (L - H) * P = L * P - H * P /\ ((L - H) - D) * P = (L - H) * P - D * P
      BY <1>1, <1>2, <1>4, Distributes
    <3> QED
      BY <2>1, <3>1
  <2>4. D # L
    BY <1>1, <1>2, <1>4, <1>6
  <2>5. (N - D) * P <= remote + (gpu \div 10) + 2 * P
    BY <2>3, <2>4, <1>1, <1>2, <1>3, <1>4, <1>5
  <2> QED
    BY <2>2, <2>5
<1>7. CASE ~(L > D + H)
  <2>1. N \in Nat /\ N <= D + 1 /\ N >= D /\ L - N <= H /\ L - N \in Nat
    BY <1>1, <1>2, <1>4, <1>7 DEF Spilled, RemoteLayers, Least, Most, Minus
  <2>2. (L - N) * P <= H * P
    BY <2>1, <1>1, <1>4, TimesMonotonic
  <2>3. (N - D) * P <= 1 * P
    BY <2>1, <1>1, <1>2, TimesMonotonic
  <2>4. (L - N) * P \in Int /\ (N - D) * P \in Int
    BY <2>1, <1>1, <1>2
  <2> QED
    BY <2>2, <2>3, <2>4, <1>1, <1>3, <1>4, <1>5
<1> QED
  BY <1>6, <1>7

\* Unless the experts of every layer are moved off, the GPUs hold the rest
\* with a tenth to spare.
LEMMA ExpertsFit ==
  ASSUME NEW m \in Models, NEW gpu \in Nat, ExpertsOnCpu(m, gpu) < m.layers
  PROVE  m.total + (m.total \div 10) <= gpu + ExpertsOnCpu(m, gpu) * PerLayer(m)
<1> DEFINE P == PerLayer(m)
           T == m.total + (m.total \div 10)
           S == Minus(T, gpu)
           Q == DivCeil(S, P)
<1>1. m.layers \in Nat /\ T \in Nat /\ P \in Nat \ {0}
  BY PerLayerBounds DEF Models
<1>2. S \in Nat /\ T <= gpu + S
  BY <1>1 DEF Minus
<1> DEFINE X == S + P - 1
<1>3. X \in Nat /\ Q = X \div P
  BY <1>1, <1>2 DEF DivCeil
<1> HIDE DEF X, Q, P
<1>4. Q \in Nat /\ X < Q * P + P
  BY <1>1, <1>3, DivBounds
<1> USE DEF X
<1>5. ExpertsOnCpu(m, gpu) = IF Q < m.layers THEN Q ELSE m.layers
  BY DEF ExpertsOnCpu, Least, Q, P
<1> HIDE DEF S
<1>6. ExpertsOnCpu(m, gpu) = Q
  BY <1>1, <1>4, <1>5
<1>7. T <= gpu + Q * P
  BY <1>1, <1>2, <1>4
<1> QED
  BY <1>6, <1>7 DEF P
-----------------------------------------------------------------------------
(* The plan.                                                               *)

\* The pools of a cluster are numbers.
Pooled(nodes) == GpuPool(nodes) \in Nat /\ HostCpu(nodes) \in Nat /\ RemoteCpu(nodes) \in Nat

\* What SuggestHandler adds leaves the plan as it is.
LEMMA PlanFields ==
  ASSUME NEW self, NEW registered, NEW m, NEW ctx
  PROVE  LET nodes  == PollNodes(self, registered)
             answer == SuggestHandler(self, registered, m, ctx)
             sent   == SuggestPlan(nodes, m, ctx)
         IN  /\ answer.meta = m
             /\ answer.fit = sent.fit /\ answer.ngl = sent.ngl /\ answer.cpuMoe = sent.cpuMoe
             /\ answer.rpcCpu = sent.rpcCpu
             /\ answer.gpuPool = GpuPool(nodes) /\ answer.cpuPool = HostCpu(nodes)
             /\ answer.remotePool = RemoteCpu(nodes)
  BY DEF SuggestHandler, SuggestPlan
\* For any cluster, model and context, the plan's shares fit.
LEMMA EachPlanFits ==
  ASSUME NEW self, NEW registered, NEW m \in Models, NEW ctx \in Nat,
         Pooled(PollNodes(self, registered))
  PROVE  LET answer == SuggestHandler(self, registered, m, ctx)
         IN  RemainderFits(answer) /\ ShareBounded(answer) /\ FreeEnough(answer)
<1> DEFINE nodes  == PollNodes(self, registered)
           answer == SuggestHandler(self, registered, m, ctx)
           sent   == SuggestPlan(nodes, m, ctx)
           gpu    == GpuPool(nodes)
           host   == HostCpu(nodes)
           remote == RemoteCpu(nodes)
           req    == Required(m, ctx)
<1>1. /\ answer.meta = m
      /\ answer.fit = sent.fit /\ answer.ngl = sent.ngl /\ answer.cpuMoe = sent.cpuMoe
      /\ answer.rpcCpu = sent.rpcCpu
      /\ answer.gpuPool = gpu /\ answer.cpuPool = host /\ answer.remotePool = remote
  BY PlanFields
<1>2. gpu \in Nat /\ host \in Nat /\ remote \in Nat
  BY DEF Pooled
<1>3. m.total \in Nat /\ m.layers \in Nat \ {0} /\ m.moe \in BOOLEAN /\ PerLayer(m) \in Nat \ {0}
  BY PerLayerBounds DEF Models
<1>4. req \in Nat /\ m.total <= req /\ req \div 10 \in Nat
  BY <1>3 DEF Required, KvMib
<1>5. /\ sent.fit = Fit(req, gpu + host, remote)
      /\ sent.ngl = IF m.moe THEN m.layers
                    ELSE IF sent.fit = "spill" THEN Spilled(m, gpu, host) ELSE DenseLayers(m, gpu)
      /\ sent.cpuMoe = IF m.moe THEN ExpertsOnCpu(m, gpu) ELSE 0
      /\ sent.rpcCpu # <<>> => sent.fit = "spill" /\ ~m.moe
  BY <1>3, Zenon DEF SuggestPlan, Spilled
<1> HIDE DEF nodes, answer, sent, gpu, host, remote, req
<1>6. /\ sent.fit = "fits"  => req + (req \div 10) <= gpu + host
      /\ sent.fit = "tight" => req <= gpu + host
      /\ sent.fit = "spill" => req <= gpu + host + remote
      /\ sent.fit \in {"fits", "tight", "spill", "wontfit"}
  BY <1>2, <1>4, <1>5 DEF Fit
<1>7. RemainderFits(answer)
  <2>1. CASE m.moe \/ sent.fit = "wontfit"
    BY <1>1, <2>1 DEF RemainderFits
  <2>2. CASE ~m.moe /\ sent.fit \in {"fits", "tight"}
    <3>1. req <= gpu + host
      BY <1>2, <1>4, <1>6, <2>2
    <3>2. /\ (m.layers - DenseLayers(m, gpu)) * PerLayer(m) <= host + PerLayer(m) + (gpu \div 10)
          /\ req + (req \div 10) <= gpu + host =>
               (m.layers - DenseLayers(m, gpu)) * PerLayer(m) <= host + PerLayer(m)
      BY <1>2, <1>4, <3>1, PrimaryRemainder
    <3> QED
      BY <1>1, <1>2, <1>3, <1>5, <1>6, <2>2, <3>2 DEF RemainderFits
  <2>3. CASE ~m.moe /\ sent.fit = "spill"
    <3>1. m.total <= gpu + host + remote
      BY <1>2, <1>3, <1>4, <1>6, <2>3
    <3>2. (m.layers - Spilled(m, gpu, host)) * PerLayer(m) <= host
      BY <1>2, <3>1, SpillFits
    <3>3. gpu \div 10 \in Nat /\ Spilled(m, gpu, host) \in Int
      BY <1>2, <1>3, DenseBounds DEF Spilled, RemoteLayers, Least, Most, Minus
    <3>4. (m.layers - Spilled(m, gpu, host)) * PerLayer(m) \in Int
      BY <1>3, <3>3
    <3> QED
      BY <1>1, <1>2, <1>3, <1>5, <2>3, <3>2, <3>3, <3>4 DEF RemainderFits
  <2> QED
    BY <1>3, <1>6, <2>1, <2>2, <2>3
<1>8. ShareBounded(answer)
  <2>1. CASE answer.rpcCpu = <<>>
    BY <2>1 DEF ShareBounded
  <2>2. CASE answer.rpcCpu # <<>>
    <3>1. sent.fit = "spill" /\ ~m.moe
      BY <1>1, <1>5, <2>2
    <3>2. m.total <= gpu + host + remote
      BY <1>2, <1>3, <1>4, <1>6, <3>1
    <3>3. (Spilled(m, gpu, host) - DenseLayers(m, gpu)) * PerLayer(m)
             <= remote + (gpu \div 10) + 2 * PerLayer(m)
      BY <1>2, <3>2, SpillFits
    <3> QED
      BY <1>1, <1>5, <3>1, <3>3 DEF ShareBounded
  <2> QED
    BY <2>1, <2>2
<1>9. FreeEnough(answer)
  BY <1>1, <1>2, <1>5, ExpertsFit DEF FreeEnough
<1> QED
  BY <1>7, <1>8, <1>9 DEF answer

-----------------------------------------------------------------------------
LEMMA PolledFields ==
  ASSUME NEW n \in Nodes
  PROVE  /\ Polled(n) \in Nodes
         /\ Polled(n).devices = n.devices /\ Polled(n).ram = n.ram
         /\ Polled(n).name = n.name /\ Polled(n).ported = n.ported
         /\ Polled(n).sampled => Counted(Polled(n))
         /\ Counted(Polled(n)) <=> Counted(n)
         /\ Polled(n).endpoint # None =>
               /\ Polled(n).sampled /\ n.endpoint # None
               /\ n.ported => Polled(n).endpoint = n.name
         /\ Counted(n) /\ n.endpoint # None /\ n.name # None => Polled(n).endpoint # None
  BY DEF Polled, Nodes, Counted

\* What poll_nodes answers, of the nodes there are.
LEMMA PollIs ==
  ASSUME NEW self \in Nodes, NEW registered \in Seq(Nodes)
  PROVE  LET polls == PollNodes(self, registered)
         IN  /\ polls \in Seq(Nodes) /\ Len(polls) = Len(registered) + 1
             /\ polls[1] = self
             /\ \A i \in 1..Len(registered) : polls[i + 1] = Polled(registered[i])
             /\ Tail(polls) = [i \in 1..Len(registered) |-> Polled(registered[i])]
<1> DEFINE rs == [i \in 1..Len(registered) |-> Polled(registered[i])]
           polls == PollNodes(self, registered)
<1>1. \A n \in Nodes : Polled(n) \in Nodes
  BY PolledFields
<1>2. rs \in Seq(Nodes) /\ Len(rs) = Len(registered)
  BY <1>1
<1>3. polls = <<self>> \o rs
  BY DEF PollNodes
<1>4. \A i \in 1..Len(registered) : rs[i] = Polled(registered[i])
  OBVIOUS
<1> HIDE DEF rs, polls
<1>5. polls \in Seq(Nodes) /\ Len(polls) = Len(registered) + 1 /\ polls[1] = self
  BY <1>2, <1>3
<1>6. \A i \in 1..Len(registered) : polls[i + 1] = rs[i]
  BY <1>2, <1>3
<1>7. Tail(polls) = rs
  BY <1>2, <1>3
<1> QED
  BY <1>4, <1>5, <1>6, <1>7 DEF polls, rs

-----------------------------------------------------------------------------
(* Endpoints and versions.                                                 *)

\* What a launch gets an endpoint of has one, and has answered.
LEMMA EndpointsOffered ==
  ASSUME NEW rs \in Seq(Nodes), NEW e \in ToSet(RpcEndpoints(rs))
  PROVE  \E i \in 1..Len(rs) : rs[i].sampled /\ rs[i].endpoint # None /\ rs[i].endpoint = e
<1> DEFINE O == {i \in DOMAIN rs : rs[i].sampled /\ rs[i].endpoint # None}
           offered == Picked(rs, O)
           G == {i \in DOMAIN offered : HasGpu(offered[i])}
           C == {i \in DOMAIN offered : ~HasGpu(offered[i])}
           gpu == Picked(offered, G)
           cpu == Picked(offered, C)
           all == gpu \o cpu
<1>1. RpcEndpoints(rs) = [i \in 1..Len(all) |-> all[i].endpoint]
  BY Zenon DEF RpcEndpoints, Retain
<1>2. PICK k \in 1..Len(all) : e = all[k].endpoint
  BY <1>1 DEF ToSet
<1>3. offered \in Seq(Nodes)
  BY PickedSelects
<1>4. gpu \in Seq(Nodes) /\ cpu \in Seq(Nodes)
  <2> HIDE DEF offered, G, C
  <2> QED
    BY <1>3, PickedSelects
<1>5. ASSUME NEW q \in {gpu, cpu}, NEW j \in 1..Len(q)
      PROVE  \E i \in 1..Len(rs) : rs[i].sampled /\ rs[i].endpoint # None /\ rs[i] = q[j]
  <2>1. \E l \in 1..Len(offered) : q[j] = offered[l]
    <3>1. PICK J : q = Picked(offered, J)
      BY <1>5
    <3> HIDE DEF offered, gpu, cpu
    <3>2. \A m \in 1..Len(q) : \E i \in 1..Len(offered) : i \in J /\ q[m] = offered[i]
      <4> HIDE DEF O, G, C, all
      <4>1. \A m \in 1..Len(Picked(offered, J)) :
               \E i \in 1..Len(offered) : i \in J /\ Picked(offered, J)[m] = offered[i]
        BY <1>3, PickedElements
      <4> QED
        BY <3>1, <4>1
    <3> QED
      BY <3>2
  <2>2. PICK l \in 1..Len(offered) : q[j] = offered[l]
    BY <2>1
  <2>3. \E i \in 1..Len(rs) : i \in O /\ offered[l] = rs[i]
    <3> HIDE DEF O
    <3> QED
      BY PickedElements
  <2> QED
    BY <2>2, <2>3
<1>6. \/ k \in 1..Len(gpu) /\ all[k] = gpu[k]
      \/ k - Len(gpu) \in 1..Len(cpu) /\ all[k] = cpu[k - Len(gpu)]
  <2> HIDE DEF gpu, cpu
  <2> QED
    BY <1>2, <1>4
<1> QED
  BY <1>2, <1>5, <1>6

\* A node with another version is warned of.
LEMMA OtherVersionWarned ==
  ASSUME NEW self, NEW rs \in Seq(Nodes), NEW i \in 1..Len(rs), Counted(rs[i]),
         self.version # None, rs[i].version # None, rs[i].version # self.version
  PROVE  rs[i].name \in ToSet(VersionWarnings(self, rs))
<1> DEFINE I == {j \in DOMAIN rs : /\ Counted(rs[j]) /\ rs[j].version # None
                                   /\ rs[j].version # self.version}
           q == Picked(rs, I)
<1>1. VersionWarnings(self, rs) = [j \in DOMAIN q |-> q[j].name]
  BY DEF VersionWarnings, Retain
<1>2. i \in I
  OBVIOUS
<1> HIDE DEF I
<1>3. q \in Seq(Nodes) /\ \E k \in 1..Len(q) : q[k] = rs[i]
  BY <1>2, PickedSelects, PickedElements
<1> HIDE DEF q
<1>4. PICK k \in 1..Len(q) : q[k] = rs[i]
  BY <1>3
<1>5. k \in DOMAIN q
  BY <1>3
<1> QED
  BY <1>1, <1>4, <1>5 DEF ToSet

\* The nodes are told apart by their names.
Distinct(nodes) == \A i, j \in DOMAIN nodes : nodes[i].name = nodes[j].name => i = j

LEMMA PlanIsVersioned ==
  ASSUME NEW self \in Nodes, NEW registered \in Seq(Nodes), NEW m, NEW ctx
  PROVE  Versioned(PollNodes(self, registered), SuggestHandler(self, registered, m, ctx))
<1> DEFINE polls == PollNodes(self, registered)
           answer == SuggestHandler(self, registered, m, ctx)
           rs == Tail(polls)
<1>1. /\ polls[1] = self /\ rs \in Seq(Nodes) /\ Len(rs) = Len(registered)
      /\ \A i \in 1..Len(rs) : rs[i] = Polled(registered[i])
  <2>1. polls \in Seq(Nodes) /\ Len(polls) = Len(registered) + 1 /\ polls[1] = self
    BY PollIs
  <2>2. rs = [i \in 1..Len(registered) |-> Polled(registered[i])]
    BY PollIs
  <2>3. rs \in Seq(Nodes) /\ Len(rs) = Len(registered)
    <3> HIDE DEF polls
    <3> QED
      BY <2>1
  <2> HIDE DEF polls, rs
  <2>4. \A i \in 1..Len(rs) : rs[i] = Polled(registered[i])
    BY <2>2, <2>3
  <2> QED
    BY <2>1, <2>3, <2>4
<1>2. answer.warnings = VersionWarnings(self, rs)
  BY DEF SuggestHandler, SuggestPlan
<1> HIDE DEF polls, answer, rs
<1> SUFFICES ASSUME NEW i \in 1..Len(rs), rs[i].endpoint \in ToSet(RpcEndpoints(rs)),
                    self.version # None, rs[i].version # None, rs[i].version # self.version
             PROVE  rs[i].name \in ToSet(answer.warnings)
  <2>1. \A n \in ToSet(rs) : \E i \in 1..Len(rs) : n = rs[i]
    BY <1>1 DEF ToSet
  <2>2. \A n \in ToSet(rs) : n.endpoint \in ToSet(RpcEndpoints(rs)) =>
            \/ n.name \in ToSet(answer.warnings)
            \/ None \in {n.version, polls[1].version}
            \/ n.version = polls[1].version
    BY <1>1, <2>1
  <2> QED
    BY <2>2 DEF Versioned, polls, rs, answer
<1>3. PICK j \in 1..Len(rs) : rs[j].sampled /\ rs[j].endpoint # None /\ rs[j].endpoint = rs[i].endpoint
  BY <1>1, EndpointsOffered
<1>4. rs[i].endpoint # None => Counted(rs[i])
  <2>1. rs[i] = Polled(registered[i]) /\ registered[i] \in Nodes
    BY <1>1
  <2> QED
    BY <2>1, PolledFields
<1> QED
  BY <1>1, <1>2, <1>3, <1>4, OtherVersionWarned

-----------------------------------------------------------------------------
(* The devices of the split and those of the launch.                       *)

\* A node registered with a port, as poll_one leaves it: its endpoint, if any,
\* is at the host it was asked at, and it has one if it has stats.
Answers ==
    {n \in Nodes : /\ n.sampled => n.reachable /\ n.endpoint # None
                   /\ n.endpoint # None => n.endpoint = n.name}

Offering == {n \in Nodes : n.sampled /\ n.endpoint # None}
WithGpu  == {n \in Nodes : HasGpu(n)}
CpuWorkers == {n \in Nodes : Counted(n) /\ ~HasGpu(n)}

\* What the devices are called.
Labels == {"self"} \cup {n.name : n \in Answers}

\* The devices of a node in the split, and in the launch.
SplitBlock  == [n \in Answers |-> [j \in 1..Len(GpusOf(n)) |-> n.name]]
LaunchBlock == [n \in Answers |-> [j \in 1..Most(Len(TrustedOf(n)), 1) |-> n.name]]

\* The order of a launch.
Ordered(rs) ==
    Keep(rs, Offering \cap WithGpu) \o Keep(rs, Offering \cap (Nodes \ WithGpu))

LEMMA EndpointsAre ==
  ASSUME NEW rs \in Seq(Answers)
  PROVE  /\ Keep(rs, Offering \cap WithGpu) \in Seq(Answers \cap (Offering \cap WithGpu))
         /\ Keep(rs, Offering \cap (Nodes \ WithGpu)) \in Seq(Answers \cap (Offering \cap (Nodes \ WithGpu)))
         /\ RpcEndpoints(rs) = [i \in 1..Len(Ordered(rs)) |-> Ordered(rs)[i].endpoint]
<1> DEFINE o == Keep(rs, Offering)
           g == Keep(o, WithGpu)
           c == Keep(o, Nodes \ WithGpu)
<1>1. rs \in Seq(Nodes) /\ \A i \in DOMAIN rs : rs[i] \in Nodes
  BY DEF Answers
<1>2. {i \in DOMAIN rs : rs[i].sampled /\ rs[i].endpoint # None} = {i \in DOMAIN rs : rs[i] \in Offering}
  BY <1>1 DEF Offering
<1>3. Picked(rs, {i \in DOMAIN rs : rs[i].sampled /\ rs[i].endpoint # None}) = o
  BY <1>2 DEF Keep
<1>4. o \in Seq(Answers \cap Offering)
  BY KeepIn
<1> HIDE DEF o
<1>5. \A i \in DOMAIN o : o[i] \in Nodes
  BY <1>4 DEF Answers
<1>6. /\ {i \in DOMAIN o : HasGpu(o[i])} = {i \in DOMAIN o : o[i] \in WithGpu}
      /\ {i \in DOMAIN o : ~HasGpu(o[i])} = {i \in DOMAIN o : o[i] \in Nodes \ WithGpu}
  BY <1>5 DEF WithGpu
<1>7. /\ Picked(o, {i \in DOMAIN o : HasGpu(o[i])}) = g
      /\ Picked(o, {i \in DOMAIN o : ~HasGpu(o[i])}) = c
  BY <1>6 DEF Keep
<1> HIDE DEF g, c
<1>8. RpcEndpoints(rs) = [i \in 1..Len(g \o c) |-> (g \o c)[i].endpoint]
  BY <1>3, <1>7, Zenon DEF RpcEndpoints, Retain
<1>9. g = Keep(rs, Offering \cap WithGpu) /\ c = Keep(rs, Offering \cap (Nodes \ WithGpu))
  BY KeepTwice DEF g, c, o
<1> QED
  BY <1>8, <1>9, KeepIn DEF Ordered

\* The endpoint of such a node is the node.
NodeAt(rs, e) == CHOOSE n \in ToSet(rs) : n.endpoint = e

LEMMA EndpointTells ==
  ASSUME NEW rs \in Seq(Answers), Distinct(rs), NEW i \in 1..Len(rs), rs[i].endpoint # None
  PROVE  NodeAt(rs, rs[i].endpoint) = rs[i]
<1> DEFINE e == rs[i].endpoint
           m == NodeAt(rs, e)
<1>1. rs[i] \in ToSet(rs) /\ \A n \in ToSet(rs) : \E j \in 1..Len(rs) : n = rs[j]
  BY DEF ToSet
<1>2. m \in ToSet(rs) /\ m.endpoint = e
  BY <1>1 DEF NodeAt
<1>3. PICK j \in 1..Len(rs) : m = rs[j]
  BY <1>1, <1>2
<1>4. \A k \in 1..Len(rs) : rs[k].endpoint # None => rs[k].endpoint = rs[k].name
  BY DEF Answers
<1>5. rs[i].name = rs[j].name
  BY <1>2, <1>3, <1>4
<1> QED
  BY <1>3, <1>5 DEF Distinct

\* As many devices as the plan believes in.
Believed(rs) ==
    \A n \in ToSet(rs) : Counted(n) => Most(Len(n.devices), 1) = Most(Len(TrustedOf(n)), 1)

\* The devices of a launch: this node's, then those of the endpoints in order.
LEMMA RemoteDevicesAre ==
  ASSUME NEW rs \in Seq(Answers), Distinct(rs), Believed(rs)
  PROVE  LET eps == RpcEndpoints(rs)
             count(e) == Most(Len(NodeAt(rs, e).devices), 1)
         IN  [i \in DOMAIN eps |-> [j \in 1..count(eps[i]) |-> eps[i]]]
               = Mapped(LaunchBlock, Ordered(rs))
<1> DEFINE eps == RpcEndpoints(rs)
           q == Ordered(rs)
           count(e) == Most(Len(NodeAt(rs, e).devices), 1)
<1>1. q \in Seq(ToSet(rs) \cap Offering)
  <2> DEFINE R == ToSet(rs)
             g == Keep(rs, Offering \cap WithGpu)
             c == Keep(rs, Offering \cap (Nodes \ WithGpu))
  <2>1. rs \in Seq(R)
    BY ElementsOf
  <2> HIDE DEF R
  <2>2. g \in Seq(R \cap (Offering \cap WithGpu))
    BY <2>1, KeepIn
  <2>3. c \in Seq(R \cap (Offering \cap (Nodes \ WithGpu)))
    BY <2>1, KeepIn
  <2>4. q = g \o c
    BY DEF Ordered
  <2> HIDE DEF g, c, q
  <2>5. g \in Seq(R \cap Offering) /\ c \in Seq(R \cap Offering)
    BY <2>2, <2>3
  <2>6. q \in Seq(R \cap Offering)
    BY <2>4, <2>5
  <2> QED
    BY <2>6 DEF R
<1>2. \A k \in 1..Len(q) : q[k] \in Offering /\ \E i \in 1..Len(rs) : q[k] = rs[i]
  <2> HIDE DEF q
  <2>1. \A k \in 1..Len(q) : q[k] \in Offering /\ q[k] \in ToSet(rs)
    BY <1>1
  <2>2. \A x \in ToSet(rs) : \E i \in 1..Len(rs) : x = rs[i]
    BY ElementsOf
  <2> QED
    BY <2>1, <2>2
<1>3. eps = [i \in 1..Len(q) |-> q[i].endpoint]
  BY EndpointsAre
<1> HIDE DEF q, eps
<1>4. \A k \in 1..Len(q) : NodeAt(rs, eps[k]) = q[k] /\ eps[k] = q[k].name /\ q[k] \in Answers
  <2> SUFFICES ASSUME NEW k \in 1..Len(q)
               PROVE  NodeAt(rs, eps[k]) = q[k] /\ eps[k] = q[k].name /\ q[k] \in Answers
    OBVIOUS
  <2>1. PICK i \in 1..Len(rs) : q[k] = rs[i]
    BY <1>2
  <2>2. eps[k] = q[k].endpoint /\ q[k].endpoint # None /\ q[k] \in Answers
    BY <1>2, <1>3, <2>1 DEF Offering
  <2>3. NodeAt(rs, rs[i].endpoint) = rs[i]
    BY <2>1, <2>2, EndpointTells
  <2> QED
    BY <2>1, <2>2, <2>3 DEF Answers
<1>5. DOMAIN eps = 1..Len(q)
  BY <1>3
<1>6. [i \in DOMAIN eps |-> [j \in 1..count(eps[i]) |-> eps[i]]] = Mapped(LaunchBlock, q)
  <2>0. \A i \in 1..Len(q) : Most(Len(q[i].devices), 1) = Most(Len(TrustedOf(q[i])), 1)
    <3>1. \A i \in 1..Len(q) : q[i] \in ToSet(rs) /\ Counted(q[i])
      BY <1>2, <1>4 DEF ToSet, Offering, Answers, Counted
    <3> QED
      BY <3>1 DEF Believed
  <2>1. \A i \in 1..Len(q) : [j \in 1..count(eps[i]) |-> eps[i]] = LaunchBlock[q[i]]
    BY <1>4, <2>0 DEF LaunchBlock
  <2> HIDE DEF count
  <2> QED
    BY <1>5, <2>1 DEF Mapped
<1> QED
  BY <1>6 DEF q, eps

LEMMA LaunchDevicesAre ==
  ASSUME NEW polls, NEW rs \in Seq(Answers), rs = Tail(polls), Distinct(rs), AllTold(polls)
  PROVE  LaunchDevices(polls)
           = [i \in 1..Len(TrustedOf(polls[1])) |-> "self"] \o FlattenSeq(Mapped(LaunchBlock, Ordered(rs)))
<1> DEFINE eps == RpcEndpoints(rs)
           count(e) == Most(Len(NodeAt(rs, e).devices), 1)
<1>0. Believed(rs) /\ polls[1].gpus = Len(TrustedOf(polls[1]))
  BY DEF AllTold, Believed
<1>1. [i \in DOMAIN eps |-> [j \in 1..count(eps[i]) |-> eps[i]]] = Mapped(LaunchBlock, Ordered(rs))
  BY <1>0, RemoteDevicesAre
<1>2. LaunchDevices(polls)
        = [i \in 1..polls[1].gpus |-> "self"] \o
            FlattenSeq([i \in DOMAIN eps |-> [j \in 1..count(eps[i]) |-> eps[i]]])
  BY Zenon DEF LaunchDevices, NodeAt
<1> QED
  BY <1>0, <1>1, <1>2

\* The devices of the plan's split: this node's, those of the nodes with a
\* GPU, and the CPU-only ones when the plan wires them.
LEMMA SplitDevicesAre ==
  ASSUME NEW self \in Nodes, Counted(self), NEW rs \in Seq(Answers), NEW plan0
  PROVE  LET polls == <<self>> \o rs
         IN  SplitDevices(polls, plan0)
               = ([i \in 1..Len(TrustedOf(self)) |-> "self"]
                   \o FlattenSeq(Mapped(LaunchBlock, Keep(rs, Offering \cap WithGpu)))) \o plan0.rpcCpu
<1> DEFINE polls == <<self>> \o rs
           V == Labels
           mine == [i \in 1..Len(TrustedOf(self)) |-> "self"]
           blocks == [i \in DOMAIN polls |->
                        [j \in DOMAIN GpusOf(polls[i]) |-> IF i = 1 THEN "self" ELSE polls[i].name]]
           T == Offering \cap WithGpu
<1>1. \A n \in Answers : /\ TrustedOf(n) \in Seq(Devices) /\ GpusOf(n) \in Seq(Devices)
                         /\ n.name \in V
                         /\ GpusOf(n) = IF n \in T THEN TrustedOf(n) ELSE <<>>
                         /\ n \in T => Len(TrustedOf(n)) >= 1
  <2> SUFFICES ASSUME NEW n \in Answers
               PROVE  /\ TrustedOf(n) \in Seq(Devices) /\ GpusOf(n) \in Seq(Devices)
                      /\ n.name \in V
                      /\ GpusOf(n) = IF n \in T THEN TrustedOf(n) ELSE <<>>
                      /\ n \in T => Len(TrustedOf(n)) >= 1
    OBVIOUS
  <2>1. n \in Nodes /\ TrustedOf(n) \in Seq(Devices) /\ n.name \in V
    BY UsableWithinFree DEF Answers, Nodes, Labels
  <2>2. n \in T <=> Counted(n) /\ TrustedOf(n) # <<>>
    BY <2>1 DEF Offering, WithGpu, HasGpu, Answers, Counted
  <2>3. GpusOf(n) = IF n \in T THEN TrustedOf(n) ELSE <<>>
    BY <2>2 DEF GpusOf
  <2> HIDE DEF T
  <2>4. GpusOf(n) \in Seq(Devices)
    BY <2>1, <2>3
  <2>5. TrustedOf(n) # <<>> => Len(TrustedOf(n)) >= 1
    BY <2>1
  <2> QED
    BY <2>1, <2>2, <2>3, <2>4, <2>5
<1>2. SplitBlock \in [Answers -> Seq(V)] /\ LaunchBlock \in [Answers -> Seq(V)]
  <2>1. \A k \in Nat, v \in V : [j \in 1..k |-> v] \in Seq(V)
    BY ConstantSeq
  <2>2. \A n \in Answers : /\ Len(GpusOf(n)) \in Nat /\ n.name \in V
                           /\ Most(Len(TrustedOf(n)), 1) \in Nat
    BY <1>1 DEF Most
  <2> HIDE DEF T, V
  <2> QED
    BY <2>1, <2>2 DEF SplitBlock, LaunchBlock
<1>3. \A n \in Answers : SplitBlock[n] = IF n \in T THEN LaunchBlock[n] ELSE <<>>
  <2> SUFFICES ASSUME NEW n \in Answers
               PROVE  SplitBlock[n] = IF n \in T THEN LaunchBlock[n] ELSE <<>>
    OBVIOUS
  <2> HIDE DEF T
  <2>1. CASE n \in T
    <3>1. Len(GpusOf(n)) = Most(Len(TrustedOf(n)), 1)
      BY <1>1, <2>1 DEF Most
    <3> QED
      BY <2>1, <3>1 DEF SplitBlock, LaunchBlock
  <2>2. CASE n \notin T
    <3>1. Len(GpusOf(n)) = 0
      BY <1>1, <2>2
    <3>2. SplitBlock[n] = [j \in 1..0 |-> n.name]
      BY <3>1 DEF SplitBlock
    <3> QED
      BY <2>2, <3>2
  <2> QED
    BY <2>1, <2>2
<1>4. FlattenSeq(Mapped(SplitBlock, rs)) = FlattenSeq(Mapped(LaunchBlock, Keep(rs, T)))
  <2> HIDE DEF T, V
  <2>1. Empties(SplitBlock, LaunchBlock, Answers, T, V)
    BY <1>2, <1>3 DEF Empties
  <2> QED
    BY <2>1, FlattenKept
<1>5. /\ Len(rs) \in Nat /\ polls[1] = self /\ DOMAIN polls = 1..(Len(rs) + 1)
      /\ \A i \in 1..Len(rs) : polls[i + 1] = rs[i]
  OBVIOUS
<1>6. TrustedOf(self) \in Seq(Devices) /\ GpusOf(self) = TrustedOf(self)
  BY UsableWithinFree DEF GpusOf
<1>7. mine \in Seq(V)
  <2>1. Len(TrustedOf(self)) \in Nat /\ "self" \in V
    BY <1>6 DEF Labels
  <2> HIDE DEF V
  <2> QED
    BY <2>1, ConstantSeq
<1> HIDE DEF T, V
<1>8. Mapped(SplitBlock, rs) \in Seq(Seq(V)) /\ Len(Mapped(SplitBlock, rs)) = Len(rs)
      /\ \A i \in 1..Len(rs) : Mapped(SplitBlock, rs)[i] = SplitBlock[rs[i]]
  <2> DEFINE W == Seq(V)
  <2> HIDE DEF W
  <2>1. \A i \in 1..Len(rs) : SplitBlock[rs[i]] \in W
    BY <1>2 DEF W
  <2>2. Mapped(SplitBlock, rs) \in Seq(W) /\ Len(Mapped(SplitBlock, rs)) = Len(rs)
      /\ \A i \in 1..Len(rs) : Mapped(SplitBlock, rs)[i] = SplitBlock[rs[i]]
    BY <2>1 DEF Mapped
  <2> QED
    BY <2>2 DEF W
<1>9. blocks = <<mine>> \o Mapped(SplitBlock, rs)
  <2> DEFINE m == Mapped(SplitBlock, rs)
             whole == <<mine>> \o m
  <2>1. blocks[1] = mine
    <3>1. 1 \in DOMAIN polls /\ DOMAIN GpusOf(polls[1]) = 1..Len(TrustedOf(self))
      BY <1>5, <1>6
    <3> HIDE DEF polls
    <3> QED
      BY <3>1
  <2>2. \A i \in 1..Len(rs) : blocks[i + 1] = m[i]
    <3> SUFFICES ASSUME NEW i \in 1..Len(rs) PROVE blocks[i + 1] = m[i]
      OBVIOUS
    <3>1. rs[i] \in Answers /\ polls[i + 1] = rs[i] /\ i + 1 \in DOMAIN polls /\ i + 1 # 1
      BY <1>5
    <3>2. DOMAIN GpusOf(rs[i]) = 1..Len(GpusOf(rs[i]))
      BY <1>1, <3>1
    <3>3. m[i] = [j \in 1..Len(GpusOf(rs[i])) |-> rs[i].name]
      BY <1>8, <3>1 DEF SplitBlock
    <3> HIDE DEF polls, m
    <3> QED
      BY <3>1, <3>2, <3>3
  <2> HIDE DEF m
  <2>3. /\ whole \in Seq(Seq(V)) /\ Len(whole) = Len(rs) + 1 /\ whole[1] = mine
        /\ \A i \in 1..Len(rs) : whole[i + 1] = m[i]
    <3>1. m \in Seq(Seq(V)) /\ Len(m) = Len(rs) /\ <<mine>> \in Seq(Seq(V))
      BY <1>7, <1>8 DEF m
    <3> HIDE DEF mine
    <3> QED
      BY <3>1
  <2>4. DOMAIN blocks = 1..(Len(rs) + 1) /\ blocks = [i \in DOMAIN blocks |-> blocks[i]]
    BY <1>5
  <2>5. DOMAIN whole = 1..(Len(rs) + 1) /\ whole = [i \in DOMAIN whole |-> whole[i]]
    <3> HIDE DEF whole
    <3> QED
      BY <2>3
  <2> HIDE DEF blocks, whole
  <2>6. \A i \in 1..(Len(rs) + 1) : blocks[i] = whole[i]
    <3> SUFFICES ASSUME NEW i \in 1..(Len(rs) + 1) PROVE blocks[i] = whole[i]
      OBVIOUS
    <3>1. CASE i = 1
      BY <2>1, <2>3, <3>1
    <3>2. CASE i # 1
      <4>1. i - 1 \in 1..Len(rs) /\ (i - 1) + 1 = i
        BY <1>5, <3>2
      <4> QED
        BY <2>2, <2>3, <4>1
    <3> QED
      BY <3>1, <3>2
  <2>7. blocks = whole
    BY <2>4, <2>5, <2>6
  <2> QED
    BY <2>7 DEF whole, m
<1>10. FlattenSeq(blocks) = mine \o FlattenSeq(Mapped(SplitBlock, rs))
  <2> DEFINE m == Mapped(SplitBlock, rs)
             one == <<mine>>
  <2>1. one \in Seq(Seq(V)) /\ m \in Seq(Seq(V))
    BY <1>7, <1>8
  <2>2. FlattenSeq(one) = mine
    <3>1. <<>> \in Seq(Seq(V)) /\ one = Append(<<>>, mine) /\ FlattenSeq(<<>>) = <<>>
      BY DEF FlattenSeq
    <3>2. FlattenSeq(Append(<<>>, mine)) = FlattenSeq(<<>>) \o mine
      BY <1>7, <3>1, FlattenAppend
    <3>3. <<>> \o mine = mine
      BY <1>7
    <3> QED
      BY <3>1, <3>2, <3>3
  <2> HIDE DEF one, m, mine, blocks
  <2>3. FlattenSeq(one \o m) = FlattenSeq(one) \o FlattenSeq(m)
    BY <2>1, FlattenConcat
  <2> QED
    BY <1>9, <2>2, <2>3 DEF one, m
<1>11. SplitDevices(polls, plan0) = FlattenSeq(blocks) \o plan0.rpcCpu
  BY Zenon DEF SplitDevices
<1> QED
  BY <1>4, <1>10, <1>11 DEF T

\* What the plan puts on remote CPUs when this node is the host.
NameOf == [n \in Answers |-> n.name]

LEMMA CpuEndpointsAre ==
  ASSUME NEW self \in Nodes, NEW rs \in Seq(Answers), HostIdx(<<self>> \o rs) = 1
  PROVE  CpuEndpoints(<<self>> \o rs) = Mapped(NameOf, Keep(rs, Offering \cap (Nodes \ WithGpu)))
<1> DEFINE polls == <<self>> \o rs
           E == {n \in Nodes : n.endpoint # None}
           k == Keep(rs, CpuWorkers)
           c == Keep(rs, Offering \cap (Nodes \ WithGpu))
<1>1. rs \in Seq(Nodes)
  BY DEF Answers
<1>2. polls \in Seq(Nodes)
  BY <1>1
<1> HIDE DEF polls
<1>3. CpuNodes(polls) = k
  <2>1. \A i \in DOMAIN polls : polls[i] \in Nodes
    BY <1>2
  <2>2. {i \in DOMAIN polls : Counted(polls[i]) /\ i # HostIdx(polls) /\ ~HasGpu(polls[i])}
          = {i \in DOMAIN polls : i # 1 /\ polls[i] \in CpuWorkers}
    BY <2>1 DEF CpuWorkers, polls
  <2>3. CpuNodes(polls) = Beyond(polls, CpuWorkers)
    BY <2>2 DEF CpuNodes, Beyond
  <2>4. Beyond(<<self>> \o rs, CpuWorkers) = Keep(rs, CpuWorkers)
    BY <1>1, BeyondFirst
  <2> QED
    BY <2>3, <2>4 DEF polls
<1>4. k \in Seq(Nodes \cap CpuWorkers)
  BY <1>1, KeepIn
<1> HIDE DEF k
<1>5. Picked(k, {i \in DOMAIN k : k[i].endpoint # None}) = Keep(k, E)
  <2>1. {i \in DOMAIN k : k[i].endpoint # None} = {i \in DOMAIN k : k[i] \in E}
    BY <1>4
  <2> QED
    BY <2>1 DEF Keep
<1>6. Keep(k, E) = c
  <2>1. Keep(k, E) = Keep(rs, CpuWorkers \cap E)
    BY KeepTwice DEF k
  <2>2. \A n \in Answers : n \in CpuWorkers \cap E <=> n \in Offering \cap (Nodes \ WithGpu)
    BY DEF CpuWorkers, Offering, WithGpu, Answers, Counted
  <2> HIDE DEF E
  <2>3. Keep(rs, CpuWorkers \cap E) = c
    BY <2>2, KeepSame
  <2> QED
    BY <2>1, <2>3
<1>7. c \in Seq(Answers \cap (Offering \cap (Nodes \ WithGpu)))
  BY KeepIn
<1>8. CpuEndpoints(polls) = [i \in DOMAIN c |-> c[i].endpoint]
  <2> HIDE DEF c
  <2> QED
    BY <1>3, <1>5, <1>6, Zenon DEF CpuEndpoints, Retain
<1> HIDE DEF c
<1>9. DOMAIN c = 1..Len(c) /\ \A i \in 1..Len(c) : c[i].endpoint = NameOf[c[i]]
  BY <1>7 DEF Answers, Offering, NameOf
<1> QED
  BY <1>8, <1>9 DEF Mapped, polls, c

\* A CPU-only worker is one device of a launch.
LEMMA CpuBlocks ==
  ASSUME NEW c \in Seq(Answers \cap (Offering \cap (Nodes \ WithGpu)))
  PROVE  /\ FlattenSeq(Mapped(LaunchBlock, c)) = Mapped(NameOf, c)
         /\ Mapped(NameOf, c) \in Seq(Labels)
<1> DEFINE S == Answers \cap (Offering \cap (Nodes \ WithGpu))
           V == Labels
           b == [n \in S |-> LaunchBlock[n]]
           g == [n \in S |-> n.name]
<1>1. \A n \in S : n \in Answers /\ n.name \in V /\ TrustedOf(n) = <<>>
  BY DEF WithGpu, HasGpu, Answers, Nodes, Labels
<1>2. \A n \in S : LaunchBlock[n] = <<n.name>>
  <2> SUFFICES ASSUME NEW n \in S PROVE LaunchBlock[n] = <<n.name>>
    OBVIOUS
  <2>1. Most(Len(TrustedOf(n)), 1) = 1
    BY <1>1 DEF Most
  <2>2. LaunchBlock[n] = [j \in 1..1 |-> n.name]
    BY <1>1, <2>1 DEF LaunchBlock
  <2> QED
    BY <2>2
<1> HIDE DEF S, V
<1>3. Singles(b, g, S, V)
  <2>1. \A n \in S : <<n.name>> \in Seq(V)
    BY <1>1
  <2> QED
    BY <1>1, <1>2, <2>1 DEF Singles
<1>4. c \in Seq(S)
  BY DEF S
<1>5. FlattenSeq(Mapped(b, c)) = Mapped(g, c)
  <2> HIDE DEF b, g
  <2> QED
    BY <1>3, <1>4, FlattenSingles
<1>6. \A i \in 1..Len(c) : c[i] \in S
  BY <1>4
<1>7. Mapped(b, c) = Mapped(LaunchBlock, c) /\ Mapped(g, c) = Mapped(NameOf, c)
  BY <1>1, <1>6 DEF Mapped, NameOf
<1>8. Mapped(g, c) \in Seq(V)
  BY <1>1, <1>4, <1>6 DEF Mapped
<1> QED
  BY <1>5, <1>7, <1>8 DEF V

\* The split of the plan is the beginning of the devices of the launch.
LEMMA AlignsOnHost ==
  ASSUME NEW self \in Nodes, Counted(self), NEW rs \in Seq(Answers), Distinct(rs),
         HostIdx(<<self>> \o rs) = 1, AllTold(<<self>> \o rs), NEW m, NEW ctx
  PROVE  Aligns(<<self>> \o rs, SuggestPlan(<<self>> \o rs, m, ctx))
<1> DEFINE polls == <<self>> \o rs
           answer == SuggestPlan(polls, m, ctx)
           V == Labels
           S == Answers
           mine == [i \in 1..Len(TrustedOf(self)) |-> "self"]
           G == Keep(rs, Offering \cap WithGpu)
           C == Keep(rs, Offering \cap (Nodes \ WithGpu))
           fg == FlattenSeq(Mapped(LaunchBlock, G))
           names == Mapped(NameOf, C)
           head == mine \o fg
<1>1. answer.rpcCpu \in {names, <<>>}
  <2>1. answer.rpcCpu \in {CpuEndpoints(polls), <<>>}
    BY DEF SuggestPlan
  <2> QED
    BY <2>1, CpuEndpointsAre
<1>2. SplitDevices(polls, answer) = head \o answer.rpcCpu
  BY SplitDevicesAre
<1>3. polls[1] = self /\ Tail(polls) = rs
  <2>1. rs \in Seq(Nodes)
    BY DEF Answers
  <2> QED
    BY <2>1
<1>4. LaunchDevices(polls) = mine \o FlattenSeq(Mapped(LaunchBlock, G \o C))
  BY <1>3, LaunchDevicesAre DEF Ordered
<1>5. LaunchBlock \in [S -> Seq(V)] /\ mine \in Seq(V)
  <2>1. \A n \in Answers : Len(TrustedOf(n)) \in Nat /\ n.name \in V
    <3>1. \A n \in Answers : n \in Nodes /\ n.name \in V
      BY DEF Answers, Labels
    <3>2. \A n \in Nodes : TrustedOf(n) \in Seq(Devices)
      BY UsableWithinFree
    <3> QED
      BY <3>1, <3>2
  <2>2. \A n \in Answers : Most(Len(TrustedOf(n)), 1) \in Nat
    BY <2>1 DEF Most
  <2>3. Len(TrustedOf(self)) \in Nat /\ "self" \in V
    BY UsableWithinFree DEF Labels
  <2> HIDE DEF V
  <2>4. \A n \in Answers : [j \in 1..Most(Len(TrustedOf(n)), 1) |-> n.name] \in Seq(V)
    BY <2>1, <2>2, ConstantSeq
  <2> QED
    BY <2>3, <2>4, ConstantSeq DEF LaunchBlock
<1>6. G \in Seq(Answers) /\ C \in Seq(Answers)
  <2>1. G \in Seq(Answers \cap (Offering \cap WithGpu))
    BY KeepIn
  <2>2. C \in Seq(Answers \cap (Offering \cap (Nodes \ WithGpu)))
    BY KeepIn
  <2> HIDE DEF G, C
  <2> QED
    BY <2>1, <2>2
<1>7. FlattenSeq(Mapped(LaunchBlock, C)) = names /\ names \in Seq(V)
  <2>1. C \in Seq(Answers \cap (Offering \cap (Nodes \ WithGpu)))
    BY KeepIn
  <2> QED
    BY <2>1, CpuBlocks
<1> HIDE DEF polls, answer, V, S, G, C, names
<1>8. FlattenSeq(Mapped(LaunchBlock, G \o C)) = fg \o names /\ fg \in Seq(V)
  <2> DEFINE W == Seq(V)
             mg == Mapped(LaunchBlock, G)
             mc == Mapped(LaunchBlock, C)
  <2> HIDE DEF W
  <2>1. LaunchBlock \in [S -> W] /\ G \in Seq(S) /\ C \in Seq(S)
    BY <1>5, <1>6 DEF W, S
  <2>2. Mapped(LaunchBlock, G \o C) = mg \o mc
    <3>1. Joins(LaunchBlock, G, C)
      BY <2>1, MappedConcat
    <3> QED
      BY <3>1 DEF Joins
  <2>3. mg \in Seq(W) /\ mc \in Seq(W)
    <3>1. \A q \in Seq(S) : \A i \in 1..Len(q) : LaunchBlock[q[i]] \in W
      BY <2>1
    <3> QED
      BY <2>1, <3>1 DEF Mapped
  <2> HIDE DEF mg, mc
  <2>4. FlattenSeq(mg \o mc) = FlattenSeq(mg) \o FlattenSeq(mc)
    BY <2>2, <2>3, FlattenConcat DEF W
  <2>5. FlattenSeq(Append(mg, <<>>)) = FlattenSeq(mg) \o <<>> /\ FlattenSeq(mg) \in Seq(V)
    <3>1. <<>> \in Seq(V)
      OBVIOUS
    <3> QED
      BY <2>3, <3>1, FlattenAppend DEF W
  <2> QED
    BY <1>7, <2>2, <2>4, <2>5 DEF mg, mc
<1> HIDE DEF mine, fg
<1>9. head \in Seq(V) /\ mine \o (fg \o names) = head \o names /\ head \o <<>> = head
  <2>1. mine \in Seq(V) /\ fg \in Seq(V) /\ names \in Seq(V)
    BY <1>5, <1>7, <1>8
  <2>2. head \in Seq(V) /\ head \o <<>> = head
    BY <2>1
  <2> QED
    BY <2>1, <2>2, ConcatAssociative
<1> HIDE DEF head
<1>10. IsPrefix(head, head \o names) /\ IsPrefix(head \o names, head \o names)
  <2> DEFINE all == head \o names
  <2>1. head \in Seq(V) /\ names \in Seq(V)
    BY <1>7, <1>9
  <2>2. all \in Seq(V)
    BY <2>1
  <2>3. IsPrefix(head, all)
    BY <2>1, PrefixOfConcat
  <2> HIDE DEF all
  <2>4. IsPrefix(all, all)
    BY <2>2, PrefixOfConcat
  <2> QED
    BY <2>3, <2>4 DEF all
<1>11. IsPrefix(SplitDevices(polls, answer), LaunchDevices(polls))
  BY <1>1, <1>2, <1>4, <1>8, <1>9, <1>10
<1> QED
  BY <1>11 DEF Aligns, polls, answer

-----------------------------------------------------------------------------
(* The machine that grows the inputs.                                     *)

\* A plan that is shown was made for the cluster that is shown.
PlanIsAnswer ==
    IsPlanned => /\ cluster # <<>>
                 /\ \E m \in Metas : plan = SuggestHandler(Head(cluster), Tail(cluster), m, Ctx)

\* The cluster is made of what nodes report, under the names there are.
ClusterIsNodes ==
    /\ cluster \in Seq(Nodes)
    /\ Len(cluster) <= Len(Names)
    /\ \A i \in 1..Len(cluster) :
          \E n \in IF i = 1 THEN SelfNodes ELSE RemoteNodes : cluster[i] = Named(n, i)

LEMMA PlanInvariance == Spec => []PlanIsAnswer
<1>1. Init => PlanIsAnswer
  BY DEF Init, PlanIsAnswer, IsPlanned
<1>2. PlanIsAnswer /\ [Next]_vars => PlanIsAnswer'
  <2> SUFFICES ASSUME PlanIsAnswer, [Next]_vars PROVE PlanIsAnswer'
    OBVIOUS
  <2>1. CASE AddArg \/ AddChar \/ AddFile \/ FillField \/ AddNode
    BY <2>1 DEF AddArg, AddChar, AddFile, FillField, AddNode, Only, PlanIsAnswer, IsPlanned
  <2>2. CASE AskPlan
    <3>1. cluster # <<>> /\ UNCHANGED cluster
      BY <2>2 DEF AskPlan, inputs
    <3>2. \E m \in Metas : plan' = SuggestHandler(Head(cluster), Tail(cluster), m, Ctx)
      BY <2>2 DEF AskPlan
    <3> QED
      BY <3>1, <3>2 DEF PlanIsAnswer, IsPlanned
  <2>3. CASE UNCHANGED vars
    BY <2>3 DEF vars, inputs, PlanIsAnswer, IsPlanned
  <2> QED
    BY <2>1, <2>2, <2>3 DEF Next
<1> QED
  BY <1>1, <1>2, PTL DEF Spec

LEMMA NamedIs ==
  ASSUME NEW n \in Nodes, NEW i \in 1..Len(Names)
  PROVE  /\ Named(n, i) \in Nodes /\ Named(n, i).name = Names[i]
         /\ Named(n, i).devices = n.devices /\ Named(n, i).ram = n.ram
<1>1. Names[i] \in STRING
  BY NamesAssumption
<1>2. Named(n, i).devices = n.devices
  BY DEF Named, Nodes
<1> QED
  BY <1>1, <1>2 DEF Named, Nodes

LEMMA ClusterInvariance == Spec => []ClusterIsNodes
<1>1. Init => ClusterIsNodes
  BY NamesAssumption DEF Init, ClusterIsNodes
<1>2. ClusterIsNodes /\ [Next]_vars => ClusterIsNodes'
  <2> SUFFICES ASSUME ClusterIsNodes, [Next]_vars PROVE ClusterIsNodes'
    OBVIOUS
  <2>1. CASE UNCHANGED cluster
    BY <2>1 DEF ClusterIsNodes
  <2>2. CASE AddNode
    <3>1. PICK n \in IF cluster = <<>> THEN SelfNodes ELSE RemoteNodes :
             Len(cluster) < Len(Names) /\ cluster' = Append(cluster, Named(n, Len(cluster) + 1))
      BY <2>2 DEF AddNode
    <3> DEFINE k == Len(cluster) + 1
    <3>2. /\ k \in 1..Len(Names) /\ cluster \in Seq(Nodes) /\ Len(Names) \in Nat
          /\ cluster = <<>> <=> k = 1
      BY <3>1, NamesAssumption DEF ClusterIsNodes
    <3>3. Named(n, k) \in Nodes
      BY <3>2, NodesAssumption, NamedIs
    <3>4. cluster' \in Seq(Nodes) /\ Len(cluster') = k
      BY <3>1, <3>2, <3>3
    <3>5. \A i \in 1..k : cluster'[i] = IF i = k THEN Named(n, k) ELSE cluster[i]
      BY <3>1, <3>2
    <3> QED
      BY <3>1, <3>2, <3>4, <3>5 DEF ClusterIsNodes
  <2> QED
    BY <2>1, <2>2 DEF Next, AddArg, AddChar, AddFile, FillField, AskPlan, inputs, vars
<1> QED
  BY <1>1, <1>2, PTL DEF Spec

\* What is asked of such a cluster.
LEMMA ClusterSplits ==
  ASSUME ClusterIsNodes, cluster # <<>>
  PROVE  /\ Head(cluster) \in Nodes /\ Tail(cluster) \in Seq(Nodes) /\ Distinct(Tail(cluster))
         /\ Polls \in Seq(Nodes)
         /\ \A i \in DOMAIN Polls :
               \E n \in SelfNodes \cup RemoteNodes :
                  Polls[i].devices = n.devices /\ Polls[i].ram = n.ram
<1>1. cluster \in Seq(Nodes) /\ Len(cluster) <= Len(Names) /\ Len(Names) \in Nat
  BY NamesAssumption DEF ClusterIsNodes
<1>2. /\ Head(cluster) \in Nodes /\ Head(cluster) = cluster[1]
      /\ Tail(cluster) \in Seq(Nodes) /\ Len(cluster) = Len(Tail(cluster)) + 1
      /\ \A i \in 1..Len(Tail(cluster)) : Tail(cluster)[i] = cluster[i + 1]
  BY <1>1
<1>3. \A i \in 1..Len(cluster) :
         /\ cluster[i].name = Names[i]
         /\ \E n \in SelfNodes \cup RemoteNodes :
               cluster[i].devices = n.devices /\ cluster[i].ram = n.ram
  <2> SUFFICES ASSUME NEW i \in 1..Len(cluster)
               PROVE  /\ cluster[i].name = Names[i]
                      /\ \E n \in SelfNodes \cup RemoteNodes :
                            cluster[i].devices = n.devices /\ cluster[i].ram = n.ram
    OBVIOUS
  <2>1. PICK n \in IF i = 1 THEN SelfNodes ELSE RemoteNodes : cluster[i] = Named(n, i)
    BY DEF ClusterIsNodes
  <2>2. i \in 1..Len(Names) /\ n \in Nodes
    BY <1>1, NodesAssumption
  <2> QED
    BY <2>1, <2>2, NamedIs
<1>4. Distinct(Tail(cluster))
  <2> SUFFICES ASSUME NEW i \in 1..Len(Tail(cluster)), NEW j \in 1..Len(Tail(cluster)),
                      Tail(cluster)[i].name = Tail(cluster)[j].name
               PROVE  i = j
    BY <1>2 DEF Distinct
  <2>1. i + 1 \in 1..Len(cluster) /\ j + 1 \in 1..Len(cluster)
    BY <1>2
  <2>2. Names[i + 1] = Names[j + 1] /\ i + 1 \in DOMAIN Names /\ j + 1 \in DOMAIN Names
    BY <1>1, <1>2, <1>3, <2>1, NamesAssumption
  <2>3. i + 1 = j + 1
    BY <2>2, NamesAssumption DEF IsInjective
  <2> QED
    BY <1>2, <2>3
<1>5. /\ Polls \in Seq(Nodes) /\ Len(Polls) = Len(Tail(cluster)) + 1 /\ Polls[1] = Head(cluster)
      /\ \A i \in 1..Len(Tail(cluster)) : Polls[i + 1] = Polled(Tail(cluster)[i])
  BY <1>2, PollIs DEF Polls
<1>6. ASSUME NEW i \in DOMAIN Polls
      PROVE  Polls[i].devices = cluster[i].devices /\ Polls[i].ram = cluster[i].ram
  <2>1. CASE i = 1
    BY <1>2, <1>5, <2>1
  <2>2. CASE i # 1
    <3>1. i - 1 \in 1..Len(Tail(cluster)) /\ (i - 1) + 1 = i
      BY <1>2, <1>5, <2>2
    <3>2. Polls[i] = Polled(cluster[i]) /\ cluster[i] \in Nodes
      <4>1. Polls[i] = Polled(Tail(cluster)[i - 1])
        BY <1>5, <3>1
      <4>2. Tail(cluster)[i - 1] = cluster[i]
        BY <1>2, <3>1
      <4>3. i \in 1..Len(cluster)
        BY <1>2, <1>5
      <4>4. cluster[i] \in Nodes
        BY <1>1, <4>3
      <4> QED
        BY <4>1, <4>2, <4>4
    <3>3. Polls[i].devices = cluster[i].devices /\ Polls[i].ram = cluster[i].ram
      BY <3>2, PolledFields
    <3> QED
      BY <3>3
  <2> QED
    BY <2>1, <2>2
<1>7. \A i \in DOMAIN Polls : i \in 1..Len(cluster)
  BY <1>2, <1>5
<1> QED
  BY <1>2, <1>3, <1>4, <1>5, <1>6, <1>7

\* And of its answers.
LEMMA ClusterAnswers ==
  ASSUME ClusterIsNodes, cluster # <<>>
  PROVE  /\ Counted(Head(cluster))
         /\ AllTold(Polls) => \E rs \in Seq(Answers) : Distinct(rs) /\ Polls = <<Head(cluster)>> \o rs
<1> DEFINE registered == Tail(cluster)
           rs == [i \in 1..Len(registered) |-> Polled(registered[i])]
<1>1. cluster \in Seq(Nodes) /\ Len(cluster) <= Len(Names) /\ Len(Names) \in Nat
  BY NamesAssumption DEF ClusterIsNodes
<1>2. /\ Head(cluster) = cluster[1] /\ registered \in Seq(Nodes)
      /\ Len(cluster) = Len(registered) + 1 /\ Len(registered) \in Nat
      /\ \A i \in 1..Len(registered) : registered[i] = cluster[i + 1]
  BY <1>1
<1>3. Counted(Head(cluster))
  <2>1. PICK n \in SelfNodes : cluster[1] = Named(n, 1)
    BY <1>2 DEF ClusterIsNodes
  <2>2. n \in Nodes /\ Counted(n)
    BY NodesAssumption
  <2> QED
    BY <1>2, <2>1, <2>2 DEF Counted, Named, Nodes
<1> HIDE DEF registered
<1>4. ASSUME NEW i \in 1..Len(registered)
      PROVE  /\ (Counted(registered[i]) => registered[i].ported) => Polled(registered[i]) \in Answers
             /\ Polled(registered[i]) \in Nodes
             /\ Polled(registered[i]).name = registered[i].name
  <2>1. i + 1 \in 1..Len(cluster) /\ i + 1 # 1 /\ registered[i] = cluster[i + 1]
    BY <1>2
  <2>2. PICK n \in RemoteNodes : registered[i] = Named(n, i + 1)
    BY <2>1 DEF ClusterIsNodes
  <2>3. n \in Nodes /\ (Counted(n) => n.endpoint # None) /\ Names[i + 1] # None
    <3>1. i + 1 \in DOMAIN Names
      BY <1>1, <2>1
    <3> QED
      BY <3>1, NodesAssumption, NamesAssumption DEF ToSet
  <2> DEFINE r == registered[i]
  <2>4. r \in Nodes /\ r.name # None /\ (Counted(r) => r.endpoint # None)
    <3>1. r \in Nodes
      BY <1>2
    <3> QED
      BY <2>2, <2>3, <3>1 DEF Named, Nodes, Counted
  <2> HIDE DEF r
  <2>5. Polled(r) \in Nodes /\ Polled(r).name = r.name
    BY <2>4, PolledFields
  <2>7. (Counted(r) => r.ported) => Polled(r) \in Answers
    BY <2>4, <2>5, PolledFields DEF Answers, Counted
  <2> QED
    BY <2>5, <2>7 DEF r
<1>5. Len(rs) = Len(registered) /\ rs \in Seq(Nodes)
  BY <1>2, <1>4
<1>6. Distinct(rs)
  <2>1. \A i \in DOMAIN rs : rs[i].name = registered[i].name /\ i \in DOMAIN registered
    BY <1>2, <1>4, <1>5
  <2>2. Distinct(registered)
    BY ClusterSplits DEF registered
  <2> HIDE DEF rs
  <2> QED
    BY <2>1, <2>2 DEF Distinct
<1>7. Polls = <<Head(cluster)>> \o rs
  BY DEF Polls, PollNodes, registered
<1>8. ASSUME AllTold(Polls) PROVE rs \in Seq(Answers)
  <2>1. Tail(Polls) = rs
    BY <1>5, <1>7
  <2>2. \A i \in 1..Len(rs) : rs[i] \in ToSet(Tail(Polls)) /\ rs[i] = Polled(registered[i])
    BY <1>5, <2>1 DEF ToSet
  <2>3. \A i \in 1..Len(rs) : Counted(registered[i]) => registered[i].ported
    BY <1>2, <1>5, <1>8, <2>2, PolledFields DEF AllTold
  <2>4. \A i \in 1..Len(rs) : rs[i] \in Answers
    BY <1>4, <1>5, <2>2, <2>3
  <2> HIDE DEF rs
  <2> QED
    BY <1>5, <2>4
<1> QED
  BY <1>3, <1>6, <1>7, <1>8

\* suggest_plan: for clusters, models and pools of any size, whatever is left
\* to the host's CPU, sent to remote CPUs or kept on the GPUs fits there.
THEOREM PlansFit == Spec => []SharesFit
<1>1. PlanIsAnswer /\ ClusterIsNodes => SharesFit
  <2> SUFFICES ASSUME PlanIsAnswer, ClusterIsNodes, IsPlanned
               PROVE  RemainderFits(plan) /\ ShareBounded(plan) /\ FreeEnough(plan)
    BY DEF SharesFit
  <2>1. PICK m \in Metas : plan = SuggestHandler(Head(cluster), Tail(cluster), m, Ctx)
    BY DEF PlanIsAnswer
  <2>2. Polls \in Seq(Nodes)
    BY ClusterSplits DEF PlanIsAnswer
  <2>3. Pooled(PollNodes(Head(cluster), Tail(cluster)))
    BY <2>2, GpuPoolIs, HostCpuIs, RemoteCpuIs DEF Pooled, Polls
  <2> QED
    BY <2>1, <2>3, MetasAssumption, EachPlanFits
<1> QED
  BY <1>1, PlanInvariance, ClusterInvariance, PTL

\* suggest_plan counts no memory twice, in a cluster of any nodes whose
\* unified memory is part of their RAM (gather_devices).
THEOREM NoMemoryTwice == Spec => []PoolsWithinTotals
<1>1. PlanIsAnswer /\ ClusterIsNodes => PoolsWithinTotals
  <2> SUFFICES ASSUME PlanIsAnswer, ClusterIsNodes, IsPlanned PROVE PoolsWithin(Polls, plan)
    BY DEF PoolsWithinTotals
  <2>1. PICK m \in Metas : plan = SuggestHandler(Head(cluster), Tail(cluster), m, Ctx)
    BY DEF PlanIsAnswer
  <2>2. Polls \in Seq(Nodes) /\ \A i \in DOMAIN Polls : UsableUnified(Polls[i]) <= Polls[i].ram
    BY NodesAssumption, ClusterSplits DEF PlanIsAnswer, UsableUnified
  <2>3. /\ plan.gpuPool = GpuPool(Polls) /\ plan.cpuPool = HostCpu(Polls)
        /\ plan.remotePool = RemoteCpu(Polls)
    BY <2>1, PlanFields DEF Polls
  <2> QED
    BY <2>2, <2>3, PoolsAddUp DEF PoolsWithin
<1> QED
  BY <1>1, PlanInvariance, ClusterInvariance, PTL

\* ordered_rpc_endpoints and suggest_plan: where the node that plans is the
\* host and no GPU is hidden or reports nonsense, entry i of the tensor split
\* is for the device llama.cpp numbers i, however many nodes and GPUs there
\* are.
THEOREM SplitsAlign == Spec => []SplitAlignsOnHost
<1>1. PlanIsAnswer /\ ClusterIsNodes => SplitAlignsOnHost
  <2> SUFFICES ASSUME PlanIsAnswer, ClusterIsNodes, IsPlanned, HostIdx(Polls) = 1, AllTold(Polls)
               PROVE  Aligns(Polls, plan)
    BY DEF SplitAlignsOnHost
  <2>1. PICK m \in Metas : plan = SuggestHandler(Head(cluster), Tail(cluster), m, Ctx)
    BY DEF PlanIsAnswer
  <2>2. Head(cluster) \in Nodes /\ Counted(Head(cluster))
    BY ClusterSplits, ClusterAnswers DEF PlanIsAnswer
  <2>3. PICK rs \in Seq(Answers) : Distinct(rs) /\ Polls = <<Head(cluster)>> \o rs
    BY ClusterAnswers DEF PlanIsAnswer
  <2> DEFINE answer == SuggestPlan(Polls, m, Ctx)
  <2>4. Aligns(Polls, answer)
    BY <2>2, <2>3, AlignsOnHost
  <2>5. plan.split = answer.split /\ plan.rpcCpu = answer.rpcCpu
    BY <2>1 DEF SuggestHandler, SuggestPlan, Polls
  <2> HIDE DEF answer
  <2>6. SplitDevices(Polls, plan) = SplitDevices(Polls, answer)
    BY <2>5 DEF SplitDevices
  <2> QED
    BY <2>4, <2>5, <2>6 DEF Aligns
<1> QED
  BY <1>1, PlanInvariance, ClusterInvariance, PTL

\* version_warnings: whatever the nodes report, none is handed to
\* llama-server unnoticed with another version.
THEOREM LaunchesAreVersioned == Spec => []EndpointsAreVersioned
<1>1. PlanIsAnswer /\ ClusterIsNodes => EndpointsAreVersioned
  <2> SUFFICES ASSUME PlanIsAnswer, ClusterIsNodes, IsPlanned PROVE Versioned(Polls, plan)
    BY DEF EndpointsAreVersioned
  <2>1. PICK m \in Metas : plan = SuggestHandler(Head(cluster), Tail(cluster), m, Ctx)
    BY DEF PlanIsAnswer
  <2>2. Head(cluster) \in Nodes /\ Tail(cluster) \in Seq(Nodes)
    BY ClusterSplits DEF PlanIsAnswer
  <2> QED
    BY <2>1, <2>2, PlanIsVersioned DEF Polls
<1> QED
  BY <1>1, PlanInvariance, ClusterInvariance, PTL

-----------------------------------------------------------------------------
(* The command line.                                                       *)

\* The flags, which are the settings they set.
Flags == Args!FlagTokens

\* A scan under way: where it is and what it has set.
Scans(D, T) == [at : Nat \ {0}, config : [D -> T]]

\* A flag that is given one of T stores one of T.
StoresIn(T) == \A flag \in Flags, v \in T : Args!Stored(flag, v) \in T

\* What a round of the scan does.
Round(s, argv, D, T) ==
    /\ Args!ScanToken(s, argv) \in Scans(D, T)
    /\ Args!IsPair(s, argv) =>
          /\ s.at \in 1..(Len(argv) - 1) /\ argv[s.at] \in Flags
          /\ Args!ScanToken(s, argv).at = s.at + 2
          /\ Args!ScanToken(s, argv).config
               = [s.config EXCEPT ![argv[s.at]] = Args!Stored(argv[s.at], argv[s.at + 1])]
    /\ ~Args!IsPair(s, argv) => /\ Args!ScanToken(s, argv).at = s.at + 1
                              /\ Args!ScanToken(s, argv).config = s.config

\* One round, by the definition.
LEMMA ScanStep ==
  ASSUME NEW D, Flags \subseteq D, NEW T, StoresIn(T), NEW argv \in Seq(T), NEW s \in Scans(D, T)
  PROVE  Round(s, argv, D, T)
<1> DEFINE a == s.at
           x == Args!Stored(argv[a], argv[a + 1])
           set == [s.config EXCEPT ![argv[a]] = x]
<1>1. a \in Nat \ {0} /\ s.config \in [D -> T] /\ s = [at |-> a, config |-> s.config]
  BY DEF Scans
<1>2. ASSUME Args!IsPair(s, argv)
      PROVE  /\ a \in 1..(Len(argv) - 1) /\ argv[a] \in Flags /\ set \in [D -> T]
             /\ Args!ScanToken(s, argv) = [at |-> a + 2, config |-> set]
  <2>1. a \in 1..(Len(argv) - 1) /\ argv[a] \in Flags
    <3>1. a < Len(argv) /\ argv[a] \in Args!FlagTokens
      BY <1>2 DEF Args!IsPair
    <3>2. Len(argv) \in Nat
      OBVIOUS
    <3> HIDE DEF a
    <3>3. a \in 1..(Len(argv) - 1)
      BY <1>1, <3>1, <3>2
    <3> QED
      BY <3>1, <3>3 DEF Flags
  <2>2. x \in T
    <3>1. a + 1 \in 1..Len(argv)
      BY <1>1, <2>1
    <3>2. argv[a + 1] \in T
      BY <3>1
    <3> QED
      BY <2>1, <3>2 DEF StoresIn
  <2>3. Args!ScanToken(s, argv) = [at |-> a + 2, config |-> set]
    BY <1>2 DEF Args!ScanToken
  <2> HIDE DEF x, a
  <2>4. set \in [D -> T]
    BY <1>1, <2>2
  <2> QED
    BY <2>1, <2>3, <2>4
<1>3. ASSUME ~Args!IsPair(s, argv) PROVE Args!ScanToken(s, argv) = [at |-> a + 1, config |-> s.config]
  <2>1. Args!ScanToken(s, argv) = [s EXCEPT !.at = @ + 1]
    BY <1>3 DEF Args!ScanToken
  <2>2. [s EXCEPT !.at = @ + 1] = [at |-> a + 1, config |-> s.config]
    BY <1>1
  <2> QED
    BY <2>1, <2>2
<1>4. a + 1 \in Nat \ {0} /\ a + 2 \in Nat \ {0}
  BY <1>1
<1>5. ASSUME NEW k \in Nat \ {0}, NEW c \in [D -> T], Args!ScanToken(s, argv) = [at |-> k, config |-> c]
      PROVE  /\ Args!ScanToken(s, argv) \in Scans(D, T)
             /\ Args!ScanToken(s, argv).at = k /\ Args!ScanToken(s, argv).config = c
  BY <1>5 DEF Scans
<1> HIDE DEF set, x
<1>6. CASE Args!IsPair(s, argv)
  <2>1. Args!ScanToken(s, argv) = [at |-> a + 2, config |-> set] /\ set \in [D -> T]
        /\ a \in 1..(Len(argv) - 1) /\ argv[a] \in Flags
    BY <1>2, <1>6
  <2>2. /\ Args!ScanToken(s, argv) \in Scans(D, T)
        /\ Args!ScanToken(s, argv).at = a + 2 /\ Args!ScanToken(s, argv).config = set
    BY <1>4, <1>5, <2>1
  <2> QED
    BY <1>6, <2>1, <2>2 DEF set, x, Round
<1>7. CASE ~Args!IsPair(s, argv)
  <2>1. /\ Args!ScanToken(s, argv) \in Scans(D, T)
        /\ Args!ScanToken(s, argv).at = a + 1 /\ Args!ScanToken(s, argv).config = s.config
    BY <1>1, <1>3, <1>4, <1>5, <1>7
  <2> QED
    BY <1>7, <2>1 DEF Round
<1> QED
  BY <1>6, <1>7

\* f[i] is the scan after i rounds.
Scanned(f, D, T, config, argv) ==
    /\ f \in [0..Len(argv) -> Scans(D, T)]
    /\ f[0] = [at |-> 1, config |-> config]
    /\ \A i \in 1..Len(argv) : f[i] = Args!ScanToken(f[i - 1], argv)
    /\ Args!Overrides(config, argv) = f[Len(argv)].config

\* The equation Overrides is defined by has a solution.
LEMMA ScanEquation ==
  ASSUME NEW D, Flags \subseteq D, NEW T, StoresIn(T), NEW argv \in Seq(T), NEW config \in [D -> T]
  PROVE  \E f : Scanned(f, D, T, config, argv)
<1> DEFINE n == Len(argv)
           V == Scans(D, T)
           e == [at |-> 1, config |-> config]
           step == [p \in V \X (1..n) |-> Args!ScanToken(p[1], argv)]
           Body(f, i) == IF i = 0 THEN e ELSE Args!ScanToken(f[i - 1], argv)
           Eq(f) == f = [i \in 0..n |-> Body(f, i)]
           g == CHOOSE f : Eq(f)
<1>1. n \in Nat /\ e \in V
  <2>1. 1 \in Nat \ {0}
    OBVIOUS
  <2>2. e \in Scans(D, T)
    BY <2>1 DEF Scans
  <2> QED
    BY <2>2
<1>2. \A s \in V : Args!ScanToken(s, argv) \in V
  BY ScanStep DEF Round
<1>3. step \in [V \X (1..n) -> V]
  <2> HIDE DEF V
  <2> QED
    BY <1>2
<1>4. \A s \in V, i \in 1..n : step[<<s, i>>] = Args!ScanToken(s, argv)
  <2> HIDE DEF V
  <2> QED
    OBVIOUS
<1>6. Args!Overrides(config, argv) = g[n].config
  BY DEF Args!Overrides
<1> HIDE DEF n, e, V, step, Eq, g
<1>7. PICK f : Steps(f, V, e, n, step)
  BY <1>1, <1>3, RecursionExists
<1>8. Eq(f)
  <2>1. ASSUME NEW i \in 0..n PROVE f[i] = Body(f, i)
    <3>1. CASE i = 0
      <4>1. f[0] = e
        BY <1>7 DEF Steps
      <4>2. Body(f, 0) = e
        OBVIOUS
      <4> QED
        BY <3>1, <4>1, <4>2
    <3>2. CASE i \in 1..n
      <4>1. f[i - 1] \in V /\ f[i] = step[<<f[i - 1], i>>]
        BY <1>1, <1>7, <3>2 DEF Steps
      <4>2. i # 0
        BY <1>1, <3>2
      <4>3. Body(f, i) = Args!ScanToken(f[i - 1], argv)
        BY <4>2
      <4> HIDE DEF Body
      <4> QED
        BY <1>4, <3>2, <4>1, <4>3
    <3>3. i = 0 \/ i \in 1..n
      BY <1>1
    <3> QED
      BY <3>1, <3>2, <3>3
  <2>2. f = [i \in 0..n |-> f[i]]
    BY <1>7 DEF Steps
  <2> QED
    BY <2>1, <2>2 DEF Eq
<1>9. Eq(g)
  BY <1>8 DEF g
<1>10. g = [i \in 0..n |-> g[i]] /\ \A i \in 0..n : g[i] = Body(g, i)
  <2> HIDE DEF Body
  <2> QED
    BY <1>9 DEF Eq
<1>11. g[0] = e /\ \A i \in 1..n : g[i] = Args!ScanToken(g[i - 1], argv)
  <2>1. 0 \in 0..n /\ \A i \in 1..n : i \in 0..n /\ i # 0
    BY <1>1
  <2> QED
    BY <1>10, <2>1
<1> HIDE DEF Body
<1>12. g \in [0..n -> V]
  <2>1. \A i \in 1..n : g[i - 1] \in V => g[i] = step[<<g[i - 1], i>>]
    BY <1>4, <1>11
  <2>2. Follows(g, V, e, n, step)
    BY <1>10, <1>11, <2>1 DEF Follows
  <2> QED
    BY <1>1, <1>3, <2>2, RecursionTypes
<1> QED
  BY <1>6, <1>11, <1>12 DEF Scanned, n, e, V

\* A position is a value if its predecessor is a flag that is not.
Values(value, argv) ==
    /\ value \in [0..Len(argv) -> BOOLEAN]
    /\ \A i \in 1..Len(argv) :
          value[i] <=> i > 1 /\ ~value[i - 1] /\ argv[i - 1] \in Flags /\ Args!Takes(argv[i - 1], argv[i])

\* The same of IsValue.
LEMMA ValueEquation == ASSUME NEW T, NEW argv \in Seq(T) PROVE Values(Args!IsValue(argv), argv)
<1> DEFINE n == Len(argv)
           Body(value, i) == /\ i > 1
                             /\ ~value[i - 1]
                             /\ argv[i - 1] \in Args!FlagTokens
                             /\ Args!Takes(argv[i - 1], argv[i])
           Eq(value) == value = [i \in 0..n |-> Body(value, i)]
           g == CHOOSE value : Eq(value)
           step == [p \in BOOLEAN \X (1..n) |->
                       /\ p[2] > 1
                       /\ ~p[1]
                       /\ argv[p[2] - 1] \in Args!FlagTokens
                       /\ Args!Takes(argv[p[2] - 1], argv[p[2]])]
<1>1. n \in Nat
  OBVIOUS
<1>2. step \in [BOOLEAN \X (1..n) -> BOOLEAN]
  OBVIOUS
<1>3. Args!IsValue(argv) = g
  BY DEF Args!IsValue
<1>4. \A b \in BOOLEAN, i \in 1..n :
         step[<<b, i>>] = (i > 1 /\ ~b /\ argv[i - 1] \in Args!FlagTokens
                                 /\ Args!Takes(argv[i - 1], argv[i]))
  OBVIOUS
<1> HIDE DEF n, step, Eq, g
<1>5. PICK f : Steps(f, BOOLEAN, FALSE, n, step)
  BY <1>1, <1>2, RecursionExists
<1>6. Eq(f)
  <2>1. ASSUME NEW i \in 0..n PROVE f[i] = Body(f, i)
    <3>1. CASE i = 0
      <4>1. f[0] = FALSE
        BY <1>5 DEF Steps
      <4>2. Body(f, 0) = FALSE
        OBVIOUS
      <4> HIDE DEF Body
      <4> QED
        BY <3>1, <4>1, <4>2
    <3>2. CASE i \in 1..n
      <4>1. i - 1 \in 0..n
        BY <1>1, <3>2
      <4>2. f[i - 1] \in BOOLEAN /\ f[i] = step[<<f[i - 1], i>>]
        BY <1>5, <3>2, <4>1 DEF Steps
      <4> QED
        BY <1>4, <3>2, <4>2
    <3>3. i = 0 \/ i \in 1..n
      BY <1>1
    <3> QED
      BY <3>1, <3>2, <3>3
  <2>2. f = [i \in 0..n |-> f[i]]
    BY <1>5 DEF Steps
  <2> QED
    BY <2>1, <2>2 DEF Eq
<1>7. Eq(g)
  BY <1>6 DEF g
<1>8. g = [i \in 0..n |-> Body(g, i)]
  BY <1>7 DEF Eq
<1>9. \A i \in 0..n : Body(g, i) \in BOOLEAN
  OBVIOUS
<1>10. g \in [0..n -> BOOLEAN] /\ \A i \in 0..n : g[i] = Body(g, i)
  <2> HIDE DEF Body
  <2> QED
    BY <1>8, <1>9
<1>11. \A i \in 1..n : i \in 0..n
  BY <1>1
<1> QED
  BY <1>3, <1>10, <1>11 DEF Values, Flags, n

\* What a flag is set to by the pairs whose values are at the positions G.
Decided(config, flag, argv, G) ==
    IF G = {} THEN config[flag]
    ELSE Args!Stored(flag, argv[CHOOSE i \in G : \A j \in G : j <= i])

\* The values given to a flag before position a.
GivenBefore(flag, argv, a) == {i \in Args!Given(flag, argv) : i < a}

\* After k rounds the scan is past k tokens, not at a value, and has applied
\* the pairs before it.
KeepsUp(s, k, config, argv) ==
    /\ s.at > k
    /\ s.at <= Len(argv) => ~Args!IsValue(argv)[s.at]
    /\ \A flag \in Flags :
          s.config[flag] = Decided(config, flag, argv, GivenBefore(flag, argv, s.at))

\* a is beyond all of G.
Below(G, a) == \A i \in G : i < a

\* A value more, and it decides.
LEMMA DecidedByLast ==
  ASSUME NEW config, NEW flag, NEW argv, NEW G \in SUBSET Nat, NEW a \in Nat, Below(G, a)
  PROVE  Decided(config, flag, argv, G \cup {a}) = Args!Stored(flag, argv[a])
<1> DEFINE H == G \cup {a}
           c == CHOOSE i \in H : \A j \in H : j <= i
<1>1. a \in H /\ \A j \in H : j <= a
  BY DEF Below
<1>2. c \in H /\ \A j \in H : j <= c
  BY <1>1
<1>3. c = a
  <2>1. c <= a /\ a <= c /\ c \in Nat
    BY <1>1, <1>2
  <2> HIDE DEF c
  <2> QED
    BY <2>1
<1>4. H # {}
  OBVIOUS
<1> QED
  BY <1>3, <1>4, Zenon DEF Decided

\* A round keeps up: the pair it applies is the last of its flag so far.
LEMMA KeepsUpStep ==
  ASSUME NEW D, Flags \subseteq D, NEW T, StoresIn(T), NEW argv \in Seq(T),
         NEW config \in [D -> T], NEW s \in Scans(D, T), NEW k \in Nat, KeepsUp(s, k, config, argv)
  PROVE  KeepsUp(Args!ScanToken(s, argv), k + 1, config, argv)
<1>0. Round(s, argv, D, T)
  BY ScanStep
<1> DEFINE n == Len(argv)
           a == s.at
           t == Args!ScanToken(s, argv)
           v == Args!IsValue(argv)
           V(flag, b) == GivenBefore(flag, argv, b)
<1>1. n \in Nat /\ a \in Nat \ {0} /\ a > k /\ s.config \in [D -> T]
  BY DEF KeepsUp, Scans
<1>2. /\ v \in [0..n -> BOOLEAN]
      /\ \A i \in 1..n :
            v[i] <=> i > 1 /\ ~v[i - 1] /\ argv[i - 1] \in Flags /\ Args!Takes(argv[i - 1], argv[i])
  BY ValueEquation DEF Values
<1>3. \A flag, b : V(flag, b) = {i \in 2..n : v[i] /\ argv[i - 1] = flag /\ i < b}
  BY DEF GivenBefore, Args!Given
<1>4. a <= n => ~v[a]
  BY DEF KeepsUp
<1>5. \A flag \in Flags : s.config[flag] = Decided(config, flag, argv, V(flag, a))
  BY DEF KeepsUp
<1>6. Args!IsPair(s, argv) <=> a < n /\ argv[a] \in Flags /\ Args!Takes(argv[a], argv[a + 1])
  BY DEF Args!IsPair, Flags
<1>7. /\ Args!IsPair(s, argv) => /\ t.at = a + 2
                                 /\ t.config = [s.config EXCEPT ![argv[a]] = Args!Stored(argv[a], argv[a + 1])]
      /\ ~Args!IsPair(s, argv) => t.at = a + 1 /\ t.config = s.config
  <2>1. Args!IsPair(s, argv) =>
           /\ Args!ScanToken(s, argv).at = s.at + 2
           /\ Args!ScanToken(s, argv).config
                = [s.config EXCEPT ![argv[s.at]] = Args!Stored(argv[s.at], argv[s.at + 1])]
    BY <1>0 DEF Round
  <2>2. ~Args!IsPair(s, argv) => /\ Args!ScanToken(s, argv).at = s.at + 1
                                 /\ Args!ScanToken(s, argv).config = s.config
    BY <1>0 DEF Round
  <2> QED
    BY <2>1, <2>2
<1> HIDE DEF n, a, t, v, V
<1>8. CASE Args!IsPair(s, argv)
  <2>1. a \in 1..n /\ a + 1 \in 1..n /\ argv[a] \in Flags
    BY <1>1, <1>6, <1>8
  <2>2. v[a + 1] /\ ~v[a]
    <3>1. (a + 1) - 1 = a /\ a + 1 > 1
      BY <1>1
    <3>2. ~v[a]
      BY <1>4, <2>1
    <3> QED
      BY <1>2, <1>6, <1>8, <2>1, <3>1, <3>2
  <2>3. a + 2 <= n => ~v[a + 2]
    <3> SUFFICES ASSUME a + 2 <= n PROVE ~v[a + 2]
      OBVIOUS
    <3>1. a + 2 \in 1..n /\ (a + 2) - 1 = a + 1
      BY <1>1
    <3>2. v[a + 2] => ~v[(a + 2) - 1]
      BY <1>2, <3>1
    <3> QED
      BY <2>2, <3>1, <3>2
  <2>4. V(argv[a], a + 2) = V(argv[a], a) \cup {a + 1}
    <3>1. \A i \in 2..n : i < a + 2 <=> i < a \/ i = a \/ i = a + 1
      BY <1>1
    <3>2. a + 1 \in 2..n /\ (a + 1) - 1 = a
      BY <1>1, <2>1
    <3> QED
      BY <1>3, <2>2, <3>1, <3>2
  <2>5. ASSUME NEW flag \in Flags, flag # argv[a] PROVE V(flag, a + 2) = V(flag, a)
    <3>1. \A i \in 2..n : i < a + 2 <=> i < a \/ i = a \/ i = a + 1
      BY <1>1
    <3>2. (a + 1) - 1 = a
      BY <1>1
    <3> QED
      BY <1>3, <2>2, <2>5, <3>1, <3>2
  <2>6. ASSUME NEW flag \in Flags
        PROVE  t.config[flag] = Decided(config, flag, argv, V(flag, a + 2))
    <3>1. CASE flag = argv[a]
      <4>1. V(flag, a) \in SUBSET Nat /\ \A i \in V(flag, a) : i < a + 1
        BY <1>1, <1>3
      <4>2. Decided(config, flag, argv, V(flag, a) \cup {a + 1}) = Args!Stored(flag, argv[a + 1])
        <5> DEFINE G == V(flag, a)
                   b == a + 1
        <5>1. G \in SUBSET Nat /\ b \in Nat /\ Below(G, b)
          BY <1>1, <4>1 DEF Below
        <5> HIDE DEF G, b
        <5>2. Decided(config, flag, argv, G \cup {b}) = Args!Stored(flag, argv[b])
          BY <5>1, DecidedByLast
        <5> QED
          BY <5>2 DEF G, b
      <4>3. t.config[flag] = Args!Stored(flag, argv[a + 1])
        BY <1>1, <1>7, <1>8, <3>1
      <4> QED
        BY <2>4, <3>1, <4>2, <4>3
    <3>2. CASE flag # argv[a]
      <4>1. t.config[flag] = s.config[flag]
        BY <1>1, <1>7, <1>8, <3>2
      <4> QED
        BY <1>5, <2>5, <3>2, <4>1
    <3> QED
      BY <3>1, <3>2
  <2>7. t.at = a + 2 /\ a + 2 > k + 1
    BY <1>1, <1>7, <1>8
  <2> QED
    BY <2>3, <2>6, <2>7 DEF KeepsUp, t, v, V, n
<1>9. CASE ~Args!IsPair(s, argv)
  <2>1. a + 1 <= n => ~v[a + 1]
    <3> SUFFICES ASSUME a + 1 <= n PROVE ~v[a + 1]
      OBVIOUS
    <3>1. a + 1 \in 1..n /\ (a + 1) - 1 = a /\ a < n
      BY <1>1
    <3>2. v[a + 1] => argv[(a + 1) - 1] \in Flags /\ Args!Takes(argv[(a + 1) - 1], argv[a + 1])
      BY <1>2, <3>1
    <3> QED
      BY <1>6, <1>9, <3>1, <3>2
  <2>2. ASSUME NEW flag \in Flags PROVE V(flag, a + 1) = V(flag, a)
    <3>1. \A i \in 2..n : i < a + 1 <=> i < a \/ i = a
      BY <1>1
    <3>2. \A i \in 2..n : i = a => ~v[i]
      BY <1>1, <1>4
    <3> QED
      BY <1>3, <3>1, <3>2
  <2>3. t.at = a + 1 /\ a + 1 > k + 1 /\ t.config = s.config
    BY <1>1, <1>7, <1>9
  <2> QED
    BY <1>5, <2>1, <2>2, <2>3 DEF KeepsUp, t, v, V, n
<1> QED
  BY <1>8, <1>9

\* What the scan comes to.
Overriding(config, argv, D, T) ==
    /\ Args!Overrides(config, argv) \in [D -> T]
    /\ \A flag \in Flags :
          Args!Overrides(config, argv)[flag] = Decided(config, flag, argv, Args!Given(flag, argv))

\* By induction over the rounds.
LEMMA OverridesAre ==
  ASSUME NEW D, Flags \subseteq D, NEW T, StoresIn(T), NEW argv \in Seq(T), NEW config \in [D -> T]
  PROVE  Overriding(config, argv, D, T)
<1> DEFINE n == Len(argv)
<1>1. PICK f : Scanned(f, D, T, config, argv)
  BY ScanEquation
<1> DEFINE N == {k \in Nat : k <= n => KeepsUp(f[k], k, config, argv)}
<1>2. n \in Nat /\ f \in [0..n -> Scans(D, T)]
  BY <1>1 DEF Scanned
<1>3. 0 \in N
  <2>1. f[0] = [at |-> 1, config |-> config]
    BY <1>1 DEF Scanned
  <2>2. n >= 1 => ~Args!IsValue(argv)[1]
    <3>1. Values(Args!IsValue(argv), argv)
      BY ValueEquation
    <3> QED
      BY <1>2, <3>1 DEF Values
  <2>3. \A flag : GivenBefore(flag, argv, 1) = {}
    BY DEF GivenBefore, Args!Given
  <2>4. \A flag : config[flag] = Decided(config, flag, argv, GivenBefore(flag, argv, 1))
    BY <2>3 DEF Decided
  <2>5. f[0].at = 1 /\ f[0].config = config
    BY <2>1
  <2>6. KeepsUp(f[0], 0, config, argv)
    BY <2>2, <2>4, <2>5 DEF KeepsUp
  <2> QED
    BY <2>6
<1>4. ASSUME NEW k \in Nat, k \in N PROVE k + 1 \in N
  <2> SUFFICES ASSUME k + 1 <= n PROVE KeepsUp(f[k + 1], k + 1, config, argv)
    OBVIOUS
  <2>1. k \in 0..n /\ k + 1 \in 1..n /\ (k + 1) - 1 = k
    BY <1>2
  <2>2. KeepsUp(f[k], k, config, argv) /\ f[k] \in Scans(D, T)
    BY <1>2, <1>4, <2>1
  <2>3. f[k + 1] = Args!ScanToken(f[k], argv)
    BY <1>1, <2>1 DEF Scanned
  <2> HIDE DEF N
  <2>4. KeepsUp(Args!ScanToken(f[k], argv), k + 1, config, argv)
    BY <2>2, KeepsUpStep
  <2> QED
    BY <2>3, <2>4
<1> HIDE DEF N
<1>5. n \in N
  BY <1>2, <1>3, <1>4, Induction
<1>6. KeepsUp(f[n], n, config, argv) /\ f[n] \in Scans(D, T)
  BY <1>2, <1>5 DEF N
<1>7. Args!Overrides(config, argv) = f[n].config
  BY <1>1 DEF Scanned
<1>8. ASSUME NEW flag PROVE GivenBefore(flag, argv, f[n].at) = Args!Given(flag, argv)
  <2>1. f[n].at \in Nat /\ f[n].at > n
    BY <1>6 DEF KeepsUp, Scans
  <2> HIDE DEF n
  <2>2. \A i \in 2..n : i < f[n].at
    BY <1>2, <2>1
  <2>3. \A i \in Args!Given(flag, argv) : i \in 2..n
    BY DEF Args!Given, n
  <2> QED
    BY <2>2, <2>3 DEF GivenBefore
<1>9. f[n].config \in [D -> T]
  BY <1>6 DEF Scans
<1> HIDE DEF n
<1> QED
  BY <1>6, <1>7, <1>8, <1>9 DEF KeepsUp, Overriding

\* What a setting can hold.
Held == Args!Tokens \cup {"8675", "worker", "none", "true"}

\* The command line is made of tokens.
ArgsAreTokens == args \in Seq(Args!Tokens)

LEMMA ArgsInvariance == Spec => []ArgsAreTokens
<1>1. Init => ArgsAreTokens
  BY DEF Init, ArgsAreTokens
<1>2. ArgsAreTokens /\ [Next]_vars => ArgsAreTokens'
  <2> SUFFICES ASSUME ArgsAreTokens, [Next]_vars PROVE ArgsAreTokens'
    OBVIOUS
  <2> USE DEF ArgsAreTokens
  <2>1. CASE AddArg
    BY <2>1 DEF AddArg
  <2>2. CASE UNCHANGED args
    BY <2>2
  <2>3. Next \/ UNCHANGED vars => AddArg \/ UNCHANGED args
    BY DEF Next, AddChar, AddFile, FillField, AddNode, AskPlan, vars, inputs
  <2> QED
    BY <2>1, <2>2, <2>3
<1> QED
  BY <1>1, <1>2, PTL DEF Spec

\* The defaults, and what the flags store.
LEMMA HeldIsStored == StoresIn(Held) /\ Args!Settings \in [Flags -> Held] /\ Args!Tokens \subseteq Held
<1>1. Args!Tokens \subseteq Held
  BY DEF Held
<1>2. StoresIn(Held)
  BY DEF StoresIn, Held, Args!Stored
<1>3. Args!Settings \in [Flags -> Held]
  BY DEF Args!Settings, Flags, Held, Args!FlagTokens
<1> QED
  BY <1>1, <1>2, <1>3

\* apply_cli_overrides, for one command line.
LEMMA LastPairsOf == ASSUME NEW argv \in Seq(Args!Tokens) PROVE Args!LastPairDecides(argv)
<1>1. argv \in Seq(Held)
  <2> DEFINE S == Args!Tokens
  <2>1. S \subseteq Held /\ argv \in Seq(S)
    BY HeldIsStored
  <2> HIDE DEF S
  <2> QED
    BY <2>1
<1>2. Flags \subseteq Flags
  OBVIOUS
<1>3. Overriding(Args!Settings, argv, Flags, Held)
  <2> DEFINE c == Args!Settings
  <2>1. c \in [Flags -> Held] /\ StoresIn(Held)
    BY HeldIsStored
  <2> HIDE DEF c
  <2>2. Overriding(c, argv, Flags, Held)
    BY <1>1, <1>2, <2>1, OverridesAre
  <2> QED
    BY <2>2 DEF c
<1> QED
  BY <1>3 DEF Args!LastPairDecides, Overriding, Decided, Flags

\* apply_cli_overrides: in a command line of any length each setting is
\* decided by the last pair that names its flag.
THEOREM LastPairs == Spec => []LastPairDecides
<1>1. ArgsAreTokens => LastPairDecides
  BY LastPairsOf DEF ArgsAreTokens, LastPairDecides
<1> QED
  BY <1>1, ArgsInvariance, PTL

-----------------------------------------------------------------------------
(* The worker's device.                                                    *)

\* A bounded set of positions has a last one.
LEMMA LastOf ==
  ASSUME NEW n \in Nat, NEW G \in SUBSET (0..n), G # {}
  PROVE  (CHOOSE i \in G : \A j \in G : j <= i) \in G
<1> DEFINE S == {m \in Nat : m <= n /\ n - m \in G}
<1>1. S # {}
  <2>1. PICK i \in G : TRUE
    OBVIOUS
  <2>2. i \in 0..n
    OBVIOUS
  <2>3. n - i \in Nat /\ n - i <= n /\ n - (n - i) = i
    BY <2>2
  <2> QED
    BY <2>1, <2>3
<1>2. PICK m \in S : \A k \in S : m <= k
  BY <1>1, SmallestNat
<1>3. n - m \in G
  OBVIOUS
<1>4. \A j \in G : j <= n - m
  <2> SUFFICES ASSUME NEW j \in G PROVE j <= n - m
    OBVIOUS
  <2>1. j \in 0..n
    OBVIOUS
  <2>2. n - j \in Nat /\ n - j <= n /\ n - (n - j) = j
    BY <2>1
  <2>3. n - j \in S
    BY <2>2
  <2>4. m <= n - j /\ m \in Nat
    BY <1>2, <2>3
  <2> HIDE DEF S
  <2> QED
    BY <2>1, <2>4
<1> HIDE DEF S
<1> QED
  BY <1>3, <1>4

\* The worker reads the command line as the configuration does.
LEMMA SameScan == \A file, argv : Worker!Overrides(file, argv) = Args!Overrides(file, argv)
  BY DEF Worker!Overrides, Args!Overrides, Worker!ScanToken, Args!ScanToken, Worker!IsPair, Args!IsPair,
         Worker!FlagTokens, Args!FlagTokens, Worker!Takes, Args!Takes, Worker!Stored, Args!Stored,
         Worker!Numbers, Args!Numbers, Worker!Truths, Args!Truths

\* What a file sets, and to what.
Keys == Flags \cup {"rpc_binary", "rpc_device"}
InFile == Held \cup {"/b/rpc-server", "CPU"}

\* The settings of a file.
LEMMA FilesAre ==
  ASSUME NEW file \in Worker!Files
  PROVE  file \in [Keys -> InFile] /\ file["--advertise-gpu"] \in {"true", "false"}
<1>1. PICK adv \in {"true", "false"}, bin \in {"none", "/b/rpc-server"}, dev \in {"none", "CPU"} :
        file = [f \in Keys |->
                  CASE f = "--advertise-gpu" -> adv [] f = "rpc_binary" -> bin [] f = "rpc_device" -> dev
                    [] OTHER -> Worker!Settings[f]]
  BY DEF Worker!Files, Worker!Unset, Keys, Flags, Worker!FlagTokens, Args!FlagTokens
<1>2. \A f \in Flags : Worker!Settings[f] \in InFile
  BY DEF Worker!Settings, Worker!FlagTokens, Flags, Args!FlagTokens, InFile, Held
<1>3. {adv, bin, dev} \subseteq InFile
  BY DEF InFile, Held, Args!Tokens, Args!Truths
<1>4. \A f \in Keys : file[f] \in InFile
  BY <1>1, <1>2, <1>3 DEF Keys
<1>5. "--advertise-gpu" \in Keys
  BY DEF Keys, Flags, Args!FlagTokens
<1>6. file \in [Keys -> InFile]
  BY <1>1, <1>4
<1> QED
  BY <1>1, <1>5, <1>6

\* The scan of a file's settings.
LEMMA FileOverrides ==
  ASSUME NEW file \in Worker!Files, NEW argv \in Seq(Args!Tokens)
  PROVE  Overriding(file, argv, Keys, InFile)
<1>1. file \in [Keys -> InFile]
  BY FilesAre
<1>2. argv \in Seq(InFile)
  <2> DEFINE S == Args!Tokens
  <2>1. S \subseteq InFile /\ argv \in Seq(S)
    BY DEF InFile, Held
  <2> HIDE DEF S
  <2> QED
    BY <2>1
<1>3. StoresIn(InFile) /\ Flags \subseteq Keys
  BY DEF StoresIn, InFile, Held, Args!Stored, Keys
<1> QED
  BY <1>1, <1>2, <1>3, OverridesAre

\* --advertise-gpu is left as the file has it or turned off.
LEMMA GpuIsTruth ==
  ASSUME NEW file \in Worker!Files, NEW argv \in Seq(Args!Tokens)
  PROVE  Args!Overrides(file, argv)["--advertise-gpu"] \in {"true", "false"}
<1> DEFINE flag == "--advertise-gpu"
           G == Args!Given(flag, argv)
           last == CHOOSE i \in G : \A j \in G : j <= i
<1>0. flag \in Flags
  BY DEF Flags, Args!FlagTokens
<1>1. file[flag] \in {"true", "false"}
  BY FilesAre
<1>4. Overriding(file, argv, Keys, InFile)
  BY FileOverrides
<1>5. Args!Overrides(file, argv)[flag] = Decided(file, flag, argv, G)
  <2> HIDE DEF flag, G
  <2>1. \A f \in Flags : Args!Overrides(file, argv)[f] = Decided(file, f, argv, Args!Given(f, argv))
    BY <1>4 DEF Overriding
  <2> QED
    BY <1>0, <2>1 DEF G
<1>6. CASE G = {}
  BY <1>1, <1>5, <1>6 DEF Decided
<1>7. CASE G # {}
  <2>1. G \in SUBSET (0..Len(argv)) /\ Len(argv) \in Nat
    BY DEF Args!Given
  <2>2. last \in G
    <3> HIDE DEF G
    <3> QED
      BY <1>7, <2>1, LastOf
  <2>3. last \in 2..Len(argv) /\ Args!IsValue(argv)[last] /\ argv[last - 1] = flag
    BY <2>2 DEF Args!Given
  <2>4. Args!Takes(argv[last - 1], argv[last])
    <3> HIDE DEF last
    <3>1. last \in 1..Len(argv)
      BY <2>3
    <3> QED
      BY <2>3, <3>1, ValueEquation DEF Values
  <2> HIDE DEF last
  <2>5. argv[last] = "false"
    BY <2>3, <2>4 DEF Args!Takes, Args!Truths
  <2>6. Args!Stored(flag, argv[last]) = "false"
    BY <2>5 DEF Args!Stored
  <2> HIDE DEF G, flag
  <2>7. Decided(file, flag, argv, G) = Args!Stored(flag, argv[last])
    BY <1>7 DEF Decided, last
  <2>8. Args!Overrides(file, argv)[flag] = "false"
    BY <1>5, <2>6, <2>7
  <2> QED
    BY <2>8 DEF flag
<1> QED
  BY <1>6, <1>7

\* What a worker offers with the device filter of its configuration.
LEMMA FilterServes ==
  ASSUME NEW c, c["--advertise-gpu"] \in {"true", "false"}, c["rpc_device"] = Worker!Unset,
         NEW m \in Worker!Machines, NEW spec, spec.device = Worker!RpcDeviceFilter(c, m)
  PROVE  Worker!Offers(spec, m) = Worker!Advertises(c, m)
<1>1. m.apple \in BOOLEAN /\ m.gpu \in BOOLEAN /\ (m.apple => m.gpu)
  BY DEF Worker!Machines
<1> QED
  BY <1>1 DEF Worker!RpcDeviceFilter, Worker!Offers, Worker!Advertises, Worker!Unset

\* Both ways of starting a worker, for one command line.
LEMMA WorkersServe == ASSUME NEW argv \in Seq(Args!Tokens) PROVE Worker!ServesAdvertised(argv)
<1> SUFFICES ASSUME NEW file \in Worker!Files, NEW m \in Worker!Machines,
                    Worker!Boot(file, argv)["rpc_device"] = Worker!Unset,
                    NEW spec \in {Worker!WorkerStartHandler(
                                     [binary |-> "rpc-server", device |-> Worker!Unset], Worker!Boot(file, argv), m)}
                                  \cup (IF Worker!WorkerMode(argv)
                                        THEN {Worker!Autostart(Worker!Boot(file, argv), m)} ELSE {})
             PROVE  Worker!Offers(spec, m) = Worker!Advertises(Worker!Boot(file, argv), m)
  BY DEF Worker!ServesAdvertised
<1> DEFINE c == Worker!Boot(file, argv)
<1>1. c["--advertise-gpu"] \in {"true", "false"}
  <2> DEFINE o == Args!Overrides(file, argv)
  <2>1. o["--advertise-gpu"] \in {"true", "false"}
    BY GpuIsTruth
  <2>2. c = o \/ c = [o EXCEPT !["--role"] = "worker"]
    BY SameScan DEF Worker!Boot
  <2>3. "--advertise-gpu" \in DOMAIN o
    <3>1. Overriding(file, argv, Keys, InFile)
      BY FileOverrides
    <3> QED
      BY <3>1 DEF Overriding, Keys, Flags, Args!FlagTokens
  <2> HIDE DEF o, c
  <2> QED
    BY <2>1, <2>2, <2>3
<1>2. spec.device = Worker!RpcDeviceFilter(c, m)
  BY DEF Worker!WorkerStartHandler, Worker!Autostart, Worker!RpcServerSpec
<1> HIDE DEF c
<1> QED
  BY <1>1, <1>2, FilterServes DEF c

\* worker_start_handler and main: whatever the file and the command line, a
\* worker serves the kind of device it advertises.
THEOREM WorkersServeAdvertised == Spec => []ServesAdvertised
<1>1. ArgsAreTokens => ServesAdvertised
  BY WorkersServe DEF ArgsAreTokens, ServesAdvertised
<1> QED
  BY <1>1, ArgsInvariance, PTL

-----------------------------------------------------------------------------
(* The form and the profile.                                               *)

\* The fields of the form.
IsForm(f) == f = [hf |-> f.hf, path |-> f.path, moe |-> f.moe, moe_n |-> f.moe_n, no_mmap |-> f.no_mmap, opt |-> f.opt]

\* The request made of a profile is the request the form makes itself.
LEMMA BodyOfProfile ==
  ASSUME NEW f, Form!Plain(f)
  PROVE  Form!LaunchRequestFromProfile(Form!ProfileBody(f)) = Form!LaunchBody(f)
<1> DEFINE p == Form!ProfileBody(f)
           r == Form!LaunchRequestFromProfile(p)
           b == Form!LaunchBody(f)
<1>1. p.model = Form!CurrentModelRef(f) /\ p.cpu_moe = Form!FormCpuMoe(f)
      /\ p.no_mmap = f.no_mmap /\ p.opt = Form!Options(f)
  BY DEF Form!ProfileBody
<1>2. ~Form!LooksLikePath("")
  BY DEF Form!LooksLikePath
<1>3. r = [model_hf   |-> IF Form!LooksLikePath(p.model) THEN Form!NoValue ELSE Form!Value(p.model),
           model_path |-> IF Form!LooksLikePath(p.model) THEN p.model ELSE Form!NoValue,
           cpu_moe |-> p.cpu_moe, no_mmap |-> p.no_mmap, opt |-> p.opt]
  BY DEF Form!LaunchRequestFromProfile
<1>4. b = [model_hf   |-> Form!Value(f.hf),
           model_path |-> IF f.hf = Form!Blank THEN Form!Value(f.path) ELSE Form!NoValue,
           cpu_moe |-> Form!FormCpuMoe(f), no_mmap |-> f.no_mmap, opt |-> Form!Options(f)]
  BY DEF Form!LaunchBody
<1> HIDE DEF p, r, b
<1>5. CASE f.hf # Form!Blank /\ ~Form!LooksLikePath(f.hf)
  <2>1. p.model = f.hf
    BY <1>1, <1>5 DEF Form!CurrentModelRef
  <2> QED
    BY <1>1, <1>3, <1>4, <1>5, <2>1 DEF r, b, p
<1>6. CASE f.hf = Form!Blank /\ Form!LooksLikePath(f.path)
  <2>1. p.model = f.path
    BY <1>1, <1>6 DEF Form!CurrentModelRef
  <2>2. Form!Value(f.hf) = Form!NoValue /\ Form!Value(f.path) = f.path
    BY <1>2, <1>6 DEF Form!Value, Form!Blank
  <2> QED
    BY <1>1, <1>3, <1>4, <1>6, <2>1, <2>2 DEF r, b, p
<1> QED
  BY <1>5, <1>6 DEF Form!Plain

LEMMA ProfilesAreForms == ASSUME NEW f, NEW c, NEW d PROVE Form!ProfileIsForm(f, c, d)
<1>1. Form!LaunchBody(f).opt = Form!ProfileBody(f).opt
  BY DEF Form!LaunchBody, Form!ProfileBody
<1>2. Form!Accepted(Form!LaunchBody(f)) <=> Form!Accepted(Form!ProfileBody(f))
  BY <1>1 DEF Form!Accepted
<1> QED
  BY <1>2, BodyOfProfile DEF Form!ProfileIsForm, Form!LaunchProfile

\* launch_profile runs what the form the profile was saved from would run,
\* whatever the form, the configured cache directory and the disk.
THEOREM ProfilesKeepForms == Spec => []ProfileIsForm
<1>1. ProfileIsForm
  BY ProfilesAreForms DEF ProfileIsForm
<1> QED
  BY <1>1, PTL

\* Two requests that agree but for an expert setting that is none run alike.
LEMMA LaunchAlike ==
  ASSUME NEW r, NEW b, r.model_hf = b.model_hf, r.model_path = b.model_path, r.no_mmap = b.no_mmap,
         r.opt = b.opt, Form!CpuMoe(r) = Form!CpuMoe(b), NEW c, NEW d
  PROVE  Form!HostLaunch(r, c, d) = Form!HostLaunch(b, c, d)
<1>1. Form!ResolveLaunchModel(r, c, d) = Form!ResolveLaunchModel(b, c, d)
  BY DEF Form!ResolveLaunchModel
<1>2. \A m : Form!LlamaServerSpec(r, m) = Form!LlamaServerSpec(b, m)
  BY DEF Form!LlamaServerSpec
<1> QED
  BY <1>1, <1>2 DEF Form!HostLaunch

\* The expert setting survives the form, unless it is none.
LEMMA CpuMoeSurvives ==
  ASSUME NEW before, IsForm(before), NEW moe, NEW g, NEW r, NEW b,
         g.moe = Form!FillCpuMoe(before, moe).moe, g.moe_n = Form!FillCpuMoe(before, moe).moe_n,
         r.cpu_moe = Form!FormCpuMoe(g), b.cpu_moe = moe
  PROVE  Form!CpuMoe(r) = Form!CpuMoe(b)
<1>1. CASE moe = "all"
  <2>1. Form!FillCpuMoe(before, moe) = [before EXCEPT !.moe = "all"]
    BY <1>1, NumeralsAssumption DEF Form!FillCpuMoe
  <2>2. g.moe = "all"
    BY <2>1 DEF IsForm
  <2>3. r.cpu_moe = moe
    BY <1>1, <2>2 DEF Form!FormCpuMoe
  <2> QED
    BY <2>3 DEF Form!CpuMoe
<1>2. CASE moe \in Form!Numerals
  <2>1. moe # "all" /\ moe # Form!Blank
    BY <1>2, NumeralsAssumption
  <2>2. Form!FillCpuMoe(before, moe) = [before EXCEPT !.moe = "custom", !.moe_n = moe]
    BY <1>2, <2>1 DEF Form!FillCpuMoe
  <2>3. g.moe = "custom" /\ g.moe_n = moe
    BY <2>2 DEF IsForm
  <2>4. r.cpu_moe = moe
    BY <2>1, <2>3 DEF Form!FormCpuMoe
  <2> QED
    BY <2>4 DEF Form!CpuMoe
<1>3. CASE moe # "all" /\ moe \notin Form!Numerals
  <2>1. Form!FillCpuMoe(before, moe) = [before EXCEPT !.moe = Form!Blank]
    BY <1>3 DEF Form!FillCpuMoe
  <2>2. g.moe = Form!Blank
    BY <2>1 DEF IsForm
  <2>3. r.cpu_moe = Form!NoValue
    BY <2>2 DEF Form!FormCpuMoe, Form!Blank
  <2>4. Form!NoValue # "all" /\ Form!NoValue \notin Form!Numerals
    BY NumeralsAssumption DEF Form!NoValue
  <2>5. Form!CpuMoe(r) = {}
    BY <2>3, <2>4 DEF Form!CpuMoe
  <2>6. Form!CpuMoe(b) = {}
    BY <1>3 DEF Form!CpuMoe
  <2> QED
    BY <2>5, <2>6
<1> QED
  BY <1>1, <1>2, <1>3

\* What the filled form asks for.
LEMMA FilledBody ==
  ASSUME NEW before, IsForm(before), NEW f, Form!Plain(f), NEW g, NEW r, NEW b,
         g = Form!FillFormFromProfile(before, Form!ProfileBody(f)),
         r = Form!LaunchBody(g), b = Form!LaunchRequestFromProfile(Form!ProfileBody(f))
  PROVE  /\ r.model_hf = b.model_hf /\ r.model_path = b.model_path /\ r.no_mmap = b.no_mmap
         /\ r.opt = b.opt /\ Form!CpuMoe(r) = Form!CpuMoe(b)
<1> DEFINE p == Form!ProfileBody(f)
           e == Form!FillModel(before, p.model)
           h == Form!FillCpuMoe(e, p.cpu_moe)
           texts == [o \in Form!Nums \cup Form!Texts |-> Form!Text(p.opt[o])]
<1>1. /\ p.model = Form!CurrentModelRef(f) /\ p.cpu_moe = Form!FormCpuMoe(f)
      /\ p.no_mmap = f.no_mmap /\ p.opt = Form!Options(f)
  BY DEF Form!ProfileBody
<1>2. IsForm(e)
  BY DEF Form!FillModel, IsForm
<1>3. IsForm(h) /\ h.hf = e.hf /\ h.path = e.path
  <2> HIDE DEF e
  <2>1. \/ h = [e EXCEPT !.moe = "all"]
        \/ h = [e EXCEPT !.moe = "custom", !.moe_n = p.cpu_moe]
        \/ h = [e EXCEPT !.moe = Form!Blank]
    <3> HIDE DEF p
    <3>1. CASE p.cpu_moe = "all"
      BY <3>1, NumeralsAssumption DEF Form!FillCpuMoe
    <3>2. CASE p.cpu_moe \in Form!Numerals /\ p.cpu_moe # "all"
      BY <3>2 DEF Form!FillCpuMoe
    <3>3. CASE p.cpu_moe \notin Form!Numerals /\ p.cpu_moe # "all"
      BY <3>3 DEF Form!FillCpuMoe
    <3> QED
      BY <3>1, <3>2, <3>3
  <2> HIDE DEF h, p
  <2> QED
    BY <1>2, <2>1 DEF IsForm
<1>4. g = [h EXCEPT !.no_mmap = p.no_mmap, !.opt = texts]
  BY DEF Form!FillFormFromProfile
<1> HIDE DEF texts, h, e
<1>5. g.hf = e.hf /\ g.path = e.path /\ g.moe = h.moe /\ g.moe_n = h.moe_n
      /\ g.no_mmap = p.no_mmap /\ g.opt = texts
  <2> HIDE DEF p
  <2> QED
    BY <1>3, <1>4 DEF IsForm
<1>6. r.model_hf = Form!Value(g.hf) /\ r.cpu_moe = Form!FormCpuMoe(g)
      /\ r.model_path = (IF g.hf = Form!Blank THEN Form!Value(g.path) ELSE Form!NoValue)
      /\ r.no_mmap = g.no_mmap /\ r.opt = Form!Options(g)
  BY DEF Form!LaunchBody
<1>7. b.cpu_moe = p.cpu_moe /\ b.no_mmap = p.no_mmap /\ b.opt = p.opt
      /\ b.model_hf = (IF Form!LooksLikePath(p.model) THEN Form!NoValue ELSE Form!Value(p.model))
      /\ b.model_path = (IF Form!LooksLikePath(p.model) THEN p.model ELSE Form!NoValue)
  BY DEF Form!LaunchRequestFromProfile
<1> HIDE DEF p
<1>8. r.opt = b.opt
  <2>1. ASSUME NEW x PROVE Form!Value(Form!Text(Form!Value(x))) = Form!Value(x)
    BY DEF Form!Value, Form!Text, Form!Blank, Form!NoValue
  <2>2. ASSUME NEW o \in Form!Nums \cup Form!Texts, o \notin Form!CacheTypes
        PROVE  Form!Value(texts[o]) = Form!Value(f.opt[o])
    <3>1. texts[o] = Form!Text(p.opt[o])
      BY DEF texts
    <3>2. p.opt[o] = Form!Value(f.opt[o])
      BY <1>1, <2>2 DEF Form!Options
    <3> QED
      BY <2>1, <3>1, <3>2
  <2>3. Form!Options(g) = Form!Options(f)
    BY <1>5, <2>2 DEF Form!Options
  <2> QED
    BY <1>1, <1>6, <1>7, <2>3
<1>9. r.model_hf = b.model_hf /\ r.model_path = b.model_path
  <2>1. ~Form!LooksLikePath("")
    BY DEF Form!LooksLikePath
  <2>2. CASE f.hf # Form!Blank /\ ~Form!LooksLikePath(f.hf)
    <3>1. p.model = f.hf
      BY <1>1, <2>2 DEF Form!CurrentModelRef
    <3>2. e.hf = f.hf
      BY <2>2, <3>1 DEF e, Form!FillModel, IsForm
    <3> QED
      BY <1>5, <1>6, <1>7, <2>2, <3>1, <3>2
  <2>3. CASE f.hf = Form!Blank /\ Form!LooksLikePath(f.path)
    <3>1. p.model = f.path /\ f.path # Form!Blank
      BY <1>1, <2>1, <2>3 DEF Form!CurrentModelRef, Form!Blank
    <3>2. e.hf = Form!Blank /\ e.path = f.path
      BY <2>3, <3>1 DEF e, Form!FillModel, IsForm
    <3> QED
      BY <1>5, <1>6, <1>7, <2>3, <3>1, <3>2 DEF Form!Value
  <2> QED
    BY <2>2, <2>3 DEF Form!Plain
<1>10. Form!CpuMoe(r) = Form!CpuMoe(b)
  BY <1>2, <1>5, <1>6, <1>7, CpuMoeSurvives DEF h
<1> QED
  BY <1>5, <1>6, <1>7, <1>8, <1>9, <1>10

\* fillFormFromProfile leaves nothing of the old form in the launch.
THEOREM LoadsForgetForms == Spec => []LoadForgetsForm
<1>1. ASSUME NEW f, NEW c, NEW d PROVE Form!LoadForgetsForm(FullForm, f, c, d)
  <2> SUFFICES ASSUME Form!Plain(f)
               PROVE  Form!HostLaunch(Form!LaunchBody(Form!FillFormFromProfile(FullForm, Form!ProfileBody(f))), c, d)
                        = Form!LaunchProfile(Form!ProfileBody(f), c, d)
    BY DEF Form!LoadForgetsForm
  <2>1. IsForm(FullForm)
    BY DEF IsForm, FullForm
  <2> QED
    BY <2>1, FilledBody, LaunchAlike DEF Form!LaunchProfile
<1>2. LoadForgetsForm
  BY <1>1 DEF LoadForgetsForm
<1> QED
  BY <1>2, PTL

\* A form filled from a plan: the plan's values, and what was there before
\* where the plan has none.
LEMMA FilledFromPlan ==
  ASSUME NEW before, IsForm(before), NEW p, NEW g, g = Form!FillFormFromPlan(before, p)
  PROVE  /\ g.moe = Form!FillCpuMoe(before, p.cpu_moe).moe
         /\ g.moe_n = Form!FillCpuMoe(before, p.cpu_moe).moe_n
         /\ g.no_mmap = p.no_mmap
         /\ g.opt = [o \in DOMAIN before.opt |->
                       IF o \in DOMAIN p.opt /\ p.opt[o] # Form!NoValue THEN p.opt[o] ELSE before.opt[o]]
<1> DEFINE h == Form!FillCpuMoe(before, p.cpu_moe)
           opts(c) == [o \in DOMAIN c |-> IF o \in DOMAIN p.opt /\ p.opt[o] # Form!NoValue THEN p.opt[o] ELSE c[o]]
<1>1. IsForm(h) /\ h.opt = before.opt
  <2>1. \/ h = [before EXCEPT !.moe = "all"]
        \/ h = [before EXCEPT !.moe = "custom", !.moe_n = p.cpu_moe]
        \/ h = [before EXCEPT !.moe = Form!Blank]
    <3>1. CASE p.cpu_moe = "all"
      BY <3>1, NumeralsAssumption DEF Form!FillCpuMoe
    <3>2. CASE p.cpu_moe \in Form!Numerals /\ p.cpu_moe # "all"
      BY <3>2 DEF Form!FillCpuMoe
    <3>3. CASE p.cpu_moe \notin Form!Numerals /\ p.cpu_moe # "all"
      BY <3>3 DEF Form!FillCpuMoe
    <3> QED
      BY <3>1, <3>2, <3>3
  <2> HIDE DEF h
  <2> QED
    BY <2>1 DEF IsForm
<1>2. g = [h EXCEPT !.no_mmap = p.no_mmap, !.opt = opts(h.opt)]
  BY DEF Form!FillFormFromPlan
<1> HIDE DEF h, opts
<1>3. g.moe = h.moe /\ g.moe_n = h.moe_n /\ g.no_mmap = p.no_mmap /\ g.opt = opts(h.opt)
  BY <1>1, <1>2 DEF IsForm
<1> QED
  BY <1>1, <1>3 DEF h, opts

\* The switches of a plan.
Planned == {"ngl", "tensor_split", "flash_attn"}

\* A launch of the filled form has the plan's switches.
LEMMA PlanLaunched ==
  ASSUME NEW before, IsForm(before), DOMAIN before.opt = Form!Nums \cup Form!Texts,
         NEW p, DOMAIN p.opt = Planned, \A o \in Planned : p.opt[o] # Form!Blank
  PROVE  Form!PlanIsLaunched(before, p)
<1> DEFINE g == Form!FillFormFromPlan(before, p)
           r == Form!LaunchBody(g)
           m == Form!Hf("org/m")
           Given == {o \in Planned : p.opt[o] # Form!NoValue}
           planned(s) == s[1] \in {"--cpu-moe", "--n-cpu-moe", "--no-mmap"} \cup Given
           mmap == IF p.no_mmap THEN {<<"--no-mmap", "">>} ELSE {}
           Switched == DOMAIN r.opt \ {"hf_cache_dir"}
           switches == {<<o, r.opt[o]>> : o \in {q \in Switched : r.opt[q] # Form!NoValue}}
<1>1. /\ g.moe = Form!FillCpuMoe(before, p.cpu_moe).moe
      /\ g.moe_n = Form!FillCpuMoe(before, p.cpu_moe).moe_n
      /\ g.no_mmap = p.no_mmap
      /\ g.opt = [o \in Form!Nums \cup Form!Texts |->
                    IF o \in Planned /\ p.opt[o] # Form!NoValue THEN p.opt[o] ELSE before.opt[o]]
  BY FilledFromPlan
<1> HIDE DEF g
<1>2. r.cpu_moe = Form!FormCpuMoe(g) /\ r.no_mmap = g.no_mmap /\ r.opt = Form!Options(g)
  BY DEF Form!LaunchBody
<1> HIDE DEF r
<1>3. Form!CpuMoe(r) = Form!CpuMoe(p)
  BY <1>1, <1>2, CpuMoeSurvives
<1>4. Given \subseteq Switched /\ \A o \in Given : r.opt[o] = p.opt[o] /\ r.opt[o] # Form!NoValue
  <2>1. Planned \subseteq (Form!Nums \cup Form!Texts) \ (Form!CacheTypes \cup {"hf_cache_dir"})
    BY DEF Planned, Form!Nums, Form!Texts, Form!CacheTypes
  <2>2. DOMAIN r.opt = Form!Nums \cup Form!Texts \cup Form!CacheTypes
    BY <1>2 DEF Form!Options
  <2>3. ASSUME NEW o \in Given PROVE r.opt[o] = p.opt[o]
    <3>1. r.opt[o] = Form!Value(g.opt[o])
      BY <1>2, <2>1 DEF Form!Options
    <3>2. g.opt[o] = p.opt[o]
      BY <1>1, <2>1
    <3> QED
      BY <3>1, <3>2 DEF Form!Value
  <2> QED
    BY <2>1, <2>2, <2>3
<1>5. Form!LlamaServerSpec(r, m) = {<<m.kind, m.ref>>} \cup switches \cup Form!CpuMoe(p) \cup mmap
  BY <1>1, <1>2, <1>3 DEF Form!LlamaServerSpec
<1>6. \A s \in Form!CpuMoe(p) \cup mmap : planned(s)
  <2>1. \/ Form!CpuMoe(p) = {<<"--cpu-moe", "">>}
        \/ Form!CpuMoe(p) = {<<"--n-cpu-moe", p.cpu_moe>>}
        \/ Form!CpuMoe(p) = {}
    <3>1. CASE p.cpu_moe = "all"
      BY <3>1, NumeralsAssumption DEF Form!CpuMoe
    <3>2. CASE p.cpu_moe # "all" /\ p.cpu_moe \in Form!Numerals
      BY <3>2 DEF Form!CpuMoe
    <3>3. CASE p.cpu_moe # "all" /\ p.cpu_moe \notin Form!Numerals
      BY <3>3 DEF Form!CpuMoe
    <3> QED
      BY <3>1, <3>2, <3>3
  <2> HIDE DEF Given, Switched
  <2>2. \A x : planned(<<"--cpu-moe", x>>) /\ planned(<<"--n-cpu-moe", x>>) /\ planned(<<"--no-mmap", x>>)
    OBVIOUS
  <2> HIDE DEF planned
  <2> QED
    BY <2>1, <2>2
<1>7. m.kind \notin {"--cpu-moe", "--n-cpu-moe", "--no-mmap"} \cup Planned
  BY DEF Form!Hf, Planned
<1>8. \A o \in Switched : o \notin {"--cpu-moe", "--n-cpu-moe", "--no-mmap"}
  BY <1>2 DEF Form!Options, Form!Nums, Form!Texts, Form!CacheTypes
<1>9. {s \in switches : planned(s)} = {<<o, p.opt[o]>> : o \in Given}
  <2> HIDE DEF Switched, Given
  <2> QED
    BY <1>4, <1>8
<1>10. {s \in Form!LlamaServerSpec(r, m) : planned(s)}
         = Form!CpuMoe(p) \cup mmap \cup {<<o, p.opt[o]>> : o \in Given}
  <2>1. ~planned(<<m.kind, m.ref>>)
    BY <1>7
  <2> HIDE DEF planned, mmap, switches, Given, m
  <2> QED
    BY <1>5, <1>6, <1>9, <2>1
<1>11. DOMAIN p.opt = Planned
  OBVIOUS
<1> QED
  BY <1>10, <1>11 DEF Form!PlanIsLaunched, g, r

\* btn-suggest and btn-launch: whatever model, cluster and context length, a
\* launch after the plan runs the plan, if no spelling of a number is blank.
THEOREM PlansLaunched ==
  ASSUME \A v : ToString(v) # Form!Blank
  PROVE  Spec => []PlanIsLaunched
<1>1. PlanIsAnswer => PlanIsLaunched
  <2> SUFFICES ASSUME PlanIsAnswer, IsPlanned, NEW before \in {Form!EmptyForm, FullForm}
               PROVE  Form!PlanIsLaunched(before, PlanAnswer)
    BY DEF PlanIsLaunched
  <2> DEFINE p == PlanAnswer
  <2>1. IsForm(before) /\ DOMAIN before.opt = Form!Nums \cup Form!Texts
    BY DEF IsForm, FullForm, Form!EmptyForm
  <2>2. DOMAIN p.opt = Planned /\ \A o \in Planned : p.opt[o] # Form!Blank
    <3> DEFINE n == ToString(plan.ngl)
               t == IF plan.split = <<>> THEN Form!NoValue ELSE ToString(plan.split)
    <3>1. p.opt = [ngl |-> n, tensor_split |-> t, flash_attn |-> "on"]
      BY DEF PlanAnswer
    <3>2. n # Form!Blank /\ t # Form!Blank /\ "on" # Form!Blank
      BY Zenon DEF Form!NoValue, Form!Blank
    <3> HIDE DEF n, t, p
    <3> QED
      BY <3>1, <3>2 DEF Planned
  <2> QED
    BY <2>1, <2>2, PlanLaunched
<1> QED
  BY <1>1, PlanInvariance, PTL

-----------------------------------------------------------------------------
(* Picking a file.                                                         *)

\* ModelChoice filters as DataLemmas knows it.
LEMMA ChoicePicks == \A s, I : Choice!Picked(s, I) = Picked(s, I)
  BY DEF Choice!Picked, Picked

\* A listing of files, each once.
Lists(s) ==
    /\ s \in Seq(Choice!Files)
    /\ \A i, j \in 1..Len(s) : s[i] = s[j] => i = j

\* q is the elements of s that are in T, in order.
Keeps(q, s, T) ==
    /\ Lists(q)
    /\ \A f : (\E k \in 1..Len(q) : q[k] = f) <=> f \in T /\ \E i \in 1..Len(s) : s[i] = f

\* A filter by the elements of T.
LEMMA PickedKeeps ==
  ASSUME NEW s, Lists(s), NEW T, NEW q, q = Picked(s, {i \in DOMAIN s : s[i] \in T})
  PROVE  Keeps(q, s, T)
<1> DEFINE S == Choice!Files
           I == {i \in DOMAIN s : s[i] \in T}
<1>1. s \in Seq(S) /\ \A i, j \in 1..Len(s) : s[i] = s[j] => i = j
  BY DEF Lists
<1>2. \A i \in 1..Len(s) : i \in I <=> s[i] \in T
  BY <1>1
<1> HIDE DEF S, I
<1>3. q = Picked(s, I)
  BY DEF I
<1>4. Picked(s, I) \in Seq(S)
  BY <1>1, PickedSelects
<1>5. /\ \A k \in 1..Len(Picked(s, I)) : \E i \in 1..Len(s) : i \in I /\ Picked(s, I)[k] = s[i]
      /\ \A i \in 1..Len(s) : i \in I => \E k \in 1..Len(Picked(s, I)) : Picked(s, I)[k] = s[i]
  BY <1>1, PickedElements
<1>6. ASSUME NEW j \in 1..Len(q), NEW k \in 1..Len(q), q[j] = q[k], j # k PROVE FALSE
  <2>1. \E i, l \in 1..Len(s) :
            i # l /\ i \in I /\ l \in I /\ Picked(s, I)[j] = s[i] /\ Picked(s, I)[k] = s[l]
    BY <1>1, <1>3, <1>6, PickedDistinct
  <2> QED
    BY <1>1, <1>3, <1>6, <2>1
<1>7. q \in Seq(S)
  BY <1>3, <1>4
<1>8. Lists(q)
  BY <1>6, <1>7 DEF Lists, S
<1>9. ASSUME NEW f
      PROVE  (\E k \in 1..Len(q) : q[k] = f) <=> f \in T /\ \E i \in 1..Len(s) : s[i] = f
  BY <1>2, <1>3, <1>5
<1> QED
  BY <1>8, <1>9 DEF Keeps

\* What a listing without repetitions says of its set of files.
LEMMA ListsAre ==
  ASSUME NEW q, Lists(q)
  PROVE  /\ q = <<>> <=> Choice!Elements(q) = {}
         /\ q # <<>> => Head(q) \in Choice!Elements(q)
         /\ Len(q) = 1 <=> \E g \in Choice!Elements(q) : Choice!Elements(q) = {g}
<1> DEFINE S == Choice!Files
           E == {q[i] : i \in 1..Len(q)}
<1>1. q \in Seq(S) /\ Len(q) \in Nat /\ Choice!Elements(q) = E
  BY DEF Lists, Choice!Elements
<1> HIDE DEF S
<1>2. q # <<>> => 1 \in 1..Len(q) /\ Head(q) = q[1]
  BY <1>1
<1>3. q = <<>> => Len(q) = 0
  OBVIOUS
<1>5. CASE Len(q) = 1
  <2>1. E = {q[1]}
    BY <1>5
  <2> HIDE DEF E
  <2> QED
    BY <1>1, <1>5, <2>1, <1>2, <1>3
<1>6. CASE Len(q) = 0
  <2>1. E = {} /\ q = <<>>
    BY <1>1, <1>6, EmptySeq
  <2> HIDE DEF E
  <2> QED
    BY <1>1, <1>6, <2>1
<1>7. CASE Len(q) > 1
  <2>1. 1 \in 1..Len(q) /\ 2 \in 1..Len(q)
    BY <1>1, <1>7
  <2>2. q[1] # q[2] /\ q[1] \in E /\ q[2] \in E
    BY <2>1 DEF Lists
  <2> HIDE DEF E
  <2> QED
    BY <1>1, <1>2, <1>3, <1>7, <2>2
<1>8. Len(q) = 1 \/ Len(q) = 0 \/ Len(q) > 1
  <2>1. \A n \in Nat : n = 1 \/ n = 0 \/ n > 1
    OBVIOUS
  <2> HIDE DEF E
  <2> QED
    BY <1>1, <2>1
<1> HIDE DEF E
<1> QED
  BY <1>5, <1>6, <1>7, <1>8

\* The same of the sets.
LEMMA KeepsElements ==
  ASSUME NEW q, NEW s, NEW T, Keeps(q, s, T)
  PROVE  Choice!Elements(q) = {f \in Choice!Elements(s) : f \in T}
  BY DEF Keeps, Choice!Elements

\* pick_gguf, for one listing and one quant.
LEMMA PicksRight == ASSUME NEW names, Lists(names), NEW q PROVE Choice!PickIsRight(names, q)
<1> DEFINE Ggufs  == {f \in Choice!Files : Choice!IsGguf(f)}
           Wanted == {f \in Choice!Files : Choice!HasQuant(f, q)}
           Firsts == {f \in Choice!Files : Choice!IsFirstShard(f)}
           ggufs   == Choice!Retain(names, Choice!IsGguf)
           matched == Choice!Retain(ggufs, LAMBDA f : Choice!HasQuant(f, q))
           left    == Choice!Narrow(ggufs, q)
           shards  == Choice!Retain(left, Choice!IsFirstShard)
<1>0. ASSUME NEW s, Lists(s) PROVE \A i \in DOMAIN s : s[i] \in Choice!Files
  <2> DEFINE S == Choice!Files
  <2>1. s \in Seq(S)
    BY <1>0 DEF Lists
  <2> HIDE DEF S
  <2>2. \A i \in DOMAIN s : s[i] \in S
    BY <2>1
  <2> QED
    BY <2>2 DEF S
<1>1. Keeps(ggufs, names, Ggufs)
  <2>1. {i \in DOMAIN names : Choice!IsGguf(names[i])} = {i \in DOMAIN names : names[i] \in Ggufs}
    BY <1>0
  <2>2. ggufs = Picked(names, {i \in DOMAIN names : Choice!IsGguf(names[i])})
    BY ChoicePicks DEF Choice!Retain
  <2> HIDE DEF ggufs, Ggufs
  <2> QED
    BY <2>1, <2>2, PickedKeeps
<1> HIDE DEF ggufs
<1>2. Keeps(matched, ggufs, Wanted)
  <2>0. Lists(ggufs)
    BY <1>1 DEF Keeps
  <2>1. {i \in DOMAIN ggufs : Choice!HasQuant(ggufs[i], q)} = {i \in DOMAIN ggufs : ggufs[i] \in Wanted}
    BY <1>0, <2>0
  <2>2. matched = Picked(ggufs, {i \in DOMAIN ggufs : Choice!HasQuant(ggufs[i], q)})
    BY ChoicePicks DEF Choice!Retain
  <2> HIDE DEF matched, Wanted
  <2> QED
    BY <2>0, <2>1, <2>2, PickedKeeps
<1>3. left = IF matched = <<>> THEN ggufs ELSE matched
  BY DEF Choice!Narrow
<1> HIDE DEF matched, left
<1>4. Lists(left)
  BY <1>1, <1>2, <1>3 DEF Keeps
<1>5. Keeps(shards, left, Firsts)
  <2>1. {i \in DOMAIN left : Choice!IsFirstShard(left[i])} = {i \in DOMAIN left : left[i] \in Firsts}
    BY <1>0, <1>4
  <2>2. shards = Picked(left, {i \in DOMAIN left : Choice!IsFirstShard(left[i])})
    BY ChoicePicks DEF Choice!Retain
  <2> HIDE DEF shards, Firsts
  <2> QED
    BY <1>4, <2>1, <2>2, PickedKeeps
<1> DEFINE E(s) == Choice!Elements(s)
           files  == {f \in E(names) : Choice!IsGguf(f)}
           wanted == {f \in files : Choice!HasQuant(f, q)}
           rest   == IF wanted = {} THEN files ELSE wanted
           firsts == {f \in rest : Choice!IsFirstShard(f)}
           f      == Choice!PickGguf(names, q)
<1>6. ASSUME NEW s, Lists(s) PROVE E(s) \subseteq Choice!Files
  <2>1. E(s) = {s[i] : i \in 1..Len(s)} /\ DOMAIN s = 1..Len(s)
    BY <1>6 DEF Lists, Choice!Elements
  <2> QED
    BY <1>0, <1>6, <2>1
<1>7. E(ggufs) = files
  <2>1. E(ggufs) = {x \in E(names) : x \in Ggufs}
    BY <1>1, KeepsElements
  <2>2. E(names) \subseteq Choice!Files
    BY <1>6
  <2> QED
    BY <2>1, <2>2
<1>8. E(matched) = wanted
  <2>1. E(matched) = {x \in E(ggufs) : x \in Wanted}
    BY <1>2, KeepsElements
  <2>2. E(ggufs) \subseteq Choice!Files
    BY <1>1, <1>6 DEF Keeps
  <2> QED
    BY <1>7, <2>1, <2>2
<1>9. E(left) = rest
  <2>1. matched = <<>> <=> wanted = {}
    BY <1>2, <1>8, ListsAre DEF Keeps
  <2> QED
    BY <1>3, <1>7, <1>8, <2>1
<1>10. E(shards) = firsts
  <2>1. E(shards) = {x \in E(left) : x \in Firsts}
    <3> HIDE DEF shards, Firsts
    <3> QED
      BY <1>5, KeepsElements
  <2>2. E(left) \subseteq Choice!Files
    BY <1>4, <1>6
  <2> QED
    BY <1>9, <2>1, <2>2
<1>11. f = CASE shards # <<>>                   -> Head(shards)
             [] shards = <<>> /\ Len(left) = 1  -> Head(left)
             [] OTHER                           -> Choice!NoFile
  BY DEF Choice!PickGguf, left, ggufs
<1>12. Lists(shards)
  BY <1>5 DEF Keeps
<1>13. Choice!NoFile \notin Choice!Files
  BY DEF Choice!NoFile, Choice!Files, Choice!Q4, Choice!Q8
<1>14. rest \subseteq Choice!Files
  BY <1>4, <1>6, <1>9
<1> HIDE DEF shards, E, firsts, rest, f
<1>15. firsts \subseteq rest
  BY DEF firsts
<1>16. /\ f # Choice!NoFile => f \in rest
       /\ firsts # {} => f \in firsts
       /\ f = Choice!NoFile <=> firsts = {} /\ \A g \in rest : rest # {g}
  <2>1. /\ shards = <<>> <=> firsts = {}
        /\ shards # <<>> => Head(shards) \in firsts
    BY <1>10, <1>12, ListsAre DEF E
  <2>2. /\ left = <<>> <=> rest = {}
        /\ left # <<>> => Head(left) \in rest
        /\ Len(left) = 1 <=> \E g \in rest : rest = {g}
    BY <1>4, <1>9, ListsAre DEF E
  <2>3. Len(left) = 1 => left # <<>>
    OBVIOUS
  <2>4. CASE shards # <<>>
    <3>1. f = Head(shards)
      BY <1>11, <2>4
    <3> QED
      BY <1>13, <1>14, <1>15, <2>1, <2>4, <3>1
  <2>5. CASE shards = <<>> /\ Len(left) = 1
    <3>1. f = Head(left)
      BY <1>11, <2>5
    <3> QED
      BY <1>13, <1>14, <2>1, <2>2, <2>3, <2>5, <3>1
  <2>6. CASE shards = <<>> /\ Len(left) # 1
    <3>1. f = Choice!NoFile
      BY <1>11, <2>6
    <3> QED
      BY <2>1, <2>2, <2>6, <3>1
  <2> QED
    BY <2>4, <2>5, <2>6
<1>17. /\ f # Choice!NoFile => f \in rest
       /\ firsts # {} => f \in firsts
       /\ (f = Choice!NoFile) <=> (firsts = {} /\ \A g \in rest : rest # {g})
  BY <1>16
<1> QED
  BY <1>17 DEF Choice!PickIsRight, f, firsts, rest, E

\* A directory holds a file once.
ListingIsListed == Lists(listing)

LEMMA ListingInvariance == Spec => []ListingIsListed
<1>1. Init => ListingIsListed
  BY DEF Init, ListingIsListed, Lists
<1>2. ListingIsListed /\ [Next]_vars => ListingIsListed'
  <2> SUFFICES ASSUME ListingIsListed, [Next]_vars PROVE ListingIsListed'
    OBVIOUS
  <2>1. CASE AddFile
    <3>1. PICK f \in Choice!Files \ ToSet(listing) : listing' = Append(listing, f)
      BY <2>1 DEF AddFile
    <3> DEFINE S == Choice!Files
    <3>2. listing \in Seq(S) /\ f \in S /\ \A i, j \in 1..Len(listing) : listing[i] = listing[j] => i = j
      BY DEF ListingIsListed, Lists
    <3>3. \A i \in 1..Len(listing) : listing[i] # f
      BY DEF ToSet, ListingIsListed, Lists
    <3> HIDE DEF S
    <3>4. /\ Append(listing, f) \in Seq(S)
          /\ \A i, j \in 1..Len(Append(listing, f)) :
                Append(listing, f)[i] = Append(listing, f)[j] => i = j
      BY <3>2, <3>3
    <3> QED
      BY <3>1, <3>4 DEF ListingIsListed, Lists, S
  <2>2. CASE UNCHANGED listing
    BY <2>2 DEF ListingIsListed, Lists
  <2>3. Next \/ UNCHANGED vars => AddFile \/ UNCHANGED listing
    BY DEF Next, AddArg, AddChar, FillField, AddNode, AskPlan, vars, inputs
  <2> QED
    BY <2>1, <2>2, <2>3
<1> QED
  BY <1>1, <1>2, PTL DEF Spec

\* pick_gguf: for directories of any size, read in any order, the wanted
\* quant, whole, or nothing.
THEOREM PicksAreRight == Spec => []PickIsRight
<1>1. ListingIsListed => PickIsRight
  BY PicksRight DEF ListingIsListed, PickIsRight
<1> QED
  BY <1>1, ListingInvariance, PTL

-----------------------------------------------------------------------------
(* Ids.                                                                    *)

LEMMA SameCount == \A T : Name!Cardinality(T) = Cardinality(T)
  BY DEF Name!Cardinality, Cardinality

\* What is written, and what the loop has of it.
Written == Name!Alnums \cup {"-"}
Loops   == [out : Seq(Written), dashed : BOOLEAN]

\* f[i] is what the loop has after i characters.
Loop(f, s) ==
    /\ f \in [0..Len(s) -> Loops]
    /\ f[0] = [out |-> <<>>, dashed |-> FALSE]
    /\ \A i \in 1..Len(s) : f[i] = Name!Push(f[i - 1], s[i])
    /\ Name!Dashed(s) = f[Len(s)].out

LEMMA PushKeeps ==
  ASSUME NEW r \in Loops, NEW ch
  PROVE  Name!Push(r, ch) \in Loops
<1>1. ASSUME NEW x \in Written, NEW d \in BOOLEAN PROVE [out |-> Append(r.out, x), dashed |-> d] \in Loops
  <2>1. Append(r.out, x) \in Seq(Written)
    BY DEF Loops
  <2> QED
    BY <2>1 DEF Loops
<1>2. "-" \in Written /\ (ch \in Name!Alnums => Name!Lower(ch) \in Written)
  BY DEF Written, Name!Alnums, Name!Lower
<1> QED
  BY <1>1, <1>2 DEF Name!Push

\* The equation Dashed is defined by has a solution.
LEMMA LoopEquation ==
  ASSUME NEW T, NEW s \in Seq(T)
  PROVE  \E f : Loop(f, s)
<1> DEFINE n == Len(s)
           V == Loops
           e == [out |-> <<>>, dashed |-> FALSE]
           step == [p \in V \X (1..n) |-> Name!Push(p[1], s[p[2]])]
           Body(f, i) == IF i = 0 THEN e ELSE Name!Push(f[i - 1], s[i])
           Eq(f) == f = [i \in 0..n |-> Body(f, i)]
           g == CHOOSE f : Eq(f)
<1>1. n \in Nat /\ e \in V
  <2>1. <<>> \in Seq(Written)
    OBVIOUS
  <2> QED
    BY <2>1 DEF Loops
<1>2. \A r \in V : \A ch : Name!Push(r, ch) \in V
  BY PushKeeps
<1>3. step \in [V \X (1..n) -> V]
  <2> HIDE DEF V
  <2> QED
    BY <1>2
<1>4. \A r \in V, i \in 1..n : step[<<r, i>>] = Name!Push(r, s[i])
  <2> HIDE DEF V
  <2> QED
    OBVIOUS
<1>6. Name!Dashed(s) = g[n].out
  BY DEF Name!Dashed
<1> HIDE DEF n, e, V, step, Eq, g
<1>7. PICK f : Steps(f, V, e, n, step)
  BY <1>1, <1>3, RecursionExists
<1>8. Eq(f)
  <2>1. ASSUME NEW i \in 0..n PROVE f[i] = Body(f, i)
    <3>1. CASE i = 0
      <4>1. f[0] = e
        BY <1>7 DEF Steps
      <4>2. Body(f, 0) = e
        OBVIOUS
      <4> QED
        BY <3>1, <4>1, <4>2
    <3>2. CASE i \in 1..n
      <4>1. f[i - 1] \in V /\ f[i] = step[<<f[i - 1], i>>]
        BY <1>1, <1>7, <3>2 DEF Steps
      <4>2. i # 0
        BY <1>1, <3>2
      <4>3. Body(f, i) = Name!Push(f[i - 1], s[i])
        BY <4>2
      <4> HIDE DEF Body
      <4> QED
        BY <1>4, <3>2, <4>1, <4>3
    <3>3. i = 0 \/ i \in 1..n
      BY <1>1
    <3> QED
      BY <3>1, <3>2, <3>3
  <2>2. f = [i \in 0..n |-> f[i]]
    BY <1>7 DEF Steps
  <2> QED
    BY <2>1, <2>2 DEF Eq
<1>9. Eq(g)
  BY <1>8 DEF g
<1>10. g = [i \in 0..n |-> g[i]] /\ \A i \in 0..n : g[i] = Body(g, i)
  <2> HIDE DEF Body
  <2> QED
    BY <1>9 DEF Eq
<1>11. g[0] = e /\ \A i \in 1..n : g[i] = Name!Push(g[i - 1], s[i])
  <2>1. 0 \in 0..n /\ \A i \in 1..n : i \in 0..n /\ i # 0
    BY <1>1
  <2> QED
    BY <1>10, <2>1
<1> HIDE DEF Body
<1>12. g \in [0..n -> V]
  <2>1. \A i \in 1..n : g[i - 1] \in V => g[i] = step[<<g[i - 1], i>>]
    BY <1>4, <1>11
  <2>2. Follows(g, V, e, n, step)
    BY <1>10, <1>11, <2>1 DEF Follows
  <2> QED
    BY <1>1, <1>3, <2>2, RecursionTypes
<1> QED
  BY <1>6, <1>11, <1>12 DEF Loop, n, e, V

\* One more character: it is a letter or not, and begins a word or not.
LEMMA LettersNext ==
  ASSUME NEW T, NEW s \in Seq(T), NEW k \in Nat, k + 1 \in 1..Len(s)
  PROVE  /\ Name!Letters(s, k + 1)
              = IF s[k + 1] \in Name!Alnums THEN Name!Letters(s, k) \cup {k + 1} ELSE Name!Letters(s, k)
         /\ Name!Begins(s, k + 1)
              = IF s[k + 1] \in Name!Alnums /\ Name!Letters(s, k) # {} /\ s[k] \notin Name!Alnums
                THEN Name!Begins(s, k) \cup {k + 1} ELSE Name!Begins(s, k)
         /\ Name!Begins(s, k) \subseteq Name!Letters(s, k)
<1>1. Name!Letters(s, k + 1)
        = IF s[k + 1] \in Name!Alnums THEN Name!Letters(s, k) \cup {k + 1} ELSE Name!Letters(s, k)
  BY DEF Name!Letters
<1>2. (k + 1) - 1 = k
  OBVIOUS
<1> QED
  BY <1>1, <1>2 DEF Name!Begins

LEMMA LettersCount ==
  ASSUME NEW T, NEW s \in Seq(T), NEW k \in Nat
  PROVE  /\ IsFiniteSet(Name!Letters(s, k)) /\ IsFiniteSet(Name!Begins(s, k))
         /\ Cardinality(Name!Letters(s, k)) \in Nat /\ Cardinality(Name!Begins(s, k)) \in Nat
         /\ Name!Place(s, k) \in Nat
         /\ Name!Place(s, k) = Cardinality(Name!Letters(s, k)) + Cardinality(Name!Begins(s, k))
         /\ k + 1 \notin Name!Letters(s, k) /\ k + 1 \notin Name!Begins(s, k)
<1>1. IsFiniteSet(1..k) /\ Name!Letters(s, k) \subseteq 1..k /\ Name!Begins(s, k) \subseteq 1..k
  BY FS_Interval DEF Name!Letters, Name!Begins
<1>2. IsFiniteSet(Name!Letters(s, k)) /\ IsFiniteSet(Name!Begins(s, k))
  BY <1>1, FS_Subset
<1>3. Cardinality(Name!Letters(s, k)) \in Nat /\ Cardinality(Name!Begins(s, k)) \in Nat
  BY <1>2, FS_CardinalityType
<1>4. Name!Place(s, k) = Cardinality(Name!Letters(s, k)) + Cardinality(Name!Begins(s, k))
  BY SameCount, Zenon DEF Name!Place
<1>5. k + 1 \notin 1..k
  OBVIOUS
<1> QED
  BY <1>1, <1>2, <1>3, <1>4, <1>5

\* ... and so the places go.
LEMMA PlaceNext ==
  ASSUME NEW T, NEW s \in Seq(T), NEW k \in Nat, k + 1 \in 1..Len(s)
  PROVE  Name!Place(s, k + 1)
           = IF s[k + 1] \notin Name!Alnums THEN Name!Place(s, k)
             ELSE IF k + 1 \in Name!Begins(s, k + 1) THEN Name!Place(s, k) + 2
             ELSE Name!Place(s, k) + 1
<1> DEFINE L == Name!Letters(s, k)
           B == Name!Begins(s, k)
<1>1. IsFiniteSet(L) /\ IsFiniteSet(B) /\ k + 1 \notin L /\ k + 1 \notin B
  BY LettersCount
<1>2. Cardinality(L \cup {k + 1}) = Cardinality(L) + 1 /\ Cardinality(B \cup {k + 1}) = Cardinality(B) + 1
  <2> HIDE DEF L, B
  <2>1. Cardinality(L \cup {k + 1}) = Cardinality(L) + 1
    BY <1>1, FS_AddElement
  <2>2. Cardinality(B \cup {k + 1}) = Cardinality(B) + 1
    BY <1>1, FS_AddElement
  <2> QED
    BY <2>1, <2>2
<1>3. /\ Name!Place(s, k) = Cardinality(L) + Cardinality(B)
      /\ Cardinality(L) \in Nat /\ Cardinality(B) \in Nat
      /\ Name!Place(s, k + 1) = Cardinality(Name!Letters(s, k + 1)) + Cardinality(Name!Begins(s, k + 1))
  <2>1. k + 1 \in Nat
    OBVIOUS
  <2> QED
    BY <2>1, LettersCount
<1>4. CASE s[k + 1] \notin Name!Alnums
  <2>1. Name!Letters(s, k + 1) = L /\ Name!Begins(s, k + 1) = B
    BY <1>4, LettersNext
  <2> QED
    BY <1>3, <1>4, <2>1
<1>5. CASE s[k + 1] \in Name!Alnums /\ k + 1 \in Name!Begins(s, k + 1)
  <2>1. Name!Letters(s, k + 1) = L \cup {k + 1} /\ Name!Begins(s, k + 1) = B \cup {k + 1}
    BY <1>1, <1>5, LettersNext
  <2>2. Name!Place(s, k + 1) = Cardinality(L \cup {k + 1}) + Cardinality(B \cup {k + 1})
    BY <1>3, <2>1, Zenon
  <2> DEFINE p == Name!Place(s, k)
             p1 == Name!Place(s, k + 1)
             b == Cardinality(B)
             l == Cardinality(L)
  <2>3. p1 = (l + 1) + (b + 1) /\ p = l + b /\ l \in Nat /\ b \in Nat
    BY <1>2, <1>3, <2>2, Zenon
  <2> HIDE DEF p, p1, b, l
  <2>4. p1 = p + 2
    BY <2>3
  <2> QED
    BY <1>5, <2>4 DEF p, p1
<1>6. CASE s[k + 1] \in Name!Alnums /\ k + 1 \notin Name!Begins(s, k + 1)
  <2>1. Name!Letters(s, k + 1) = L \cup {k + 1} /\ Name!Begins(s, k + 1) = B
    BY <1>1, <1>6, LettersNext
  <2>2. Name!Place(s, k + 1) = Cardinality(L \cup {k + 1}) + Cardinality(B)
    BY <1>3, <2>1, Zenon
  <2> DEFINE p == Name!Place(s, k)
             p1 == Name!Place(s, k + 1)
             b == Cardinality(B)
             l == Cardinality(L)
  <2>3. p1 = (l + 1) + b /\ p = l + b /\ l \in Nat /\ b \in Nat
    BY <1>2, <1>3, <2>2, Zenon
  <2> HIDE DEF p, p1, b, l
  <2>4. p1 = p + 1
    BY <2>3
  <2> QED
    BY <1>6, <2>4 DEF p, p1
<1> QED
  BY <1>4, <1>5, <1>6

\* What the loop has of the first k characters: the letters and the dashes in
\* their places, and perhaps one dash more.
HasWords(r, s, k) ==
    /\ Len(r.out) = Name!Place(s, k) + (IF r.dashed THEN 1 ELSE 0)
    /\ r.out = <<>> <=> Name!Letters(s, k) = {}
    /\ r.dashed => s[k] \notin Name!Alnums /\ r.out[Len(r.out)] = "-"
    /\ ~r.dashed /\ Name!Letters(s, k) # {} => s[k] \in Name!Alnums
    /\ Name!Place(s, k) > 0 => r.out[Name!Place(s, k)] # "-"

Placed(out, s, k) ==
    \A i \in Name!Letters(s, k) :
        /\ Name!Place(s, i) \in 1..Name!Place(s, k)
        /\ out[Name!Place(s, i)] = Name!Lower(s[i])
        /\ i \in Name!Begins(s, k) => /\ Name!Place(s, i) - 1 \in 1..Name!Place(s, k)
                                       /\ out[Name!Place(s, i) - 1] = "-"

LEMMA LowerIsNoDash == \A ch \in Name!Alnums : Name!Lower(ch) # "-" /\ Name!Lower(ch) \in Written
  BY DEF Name!Alnums, Name!Lower, Written

\* A letter is written in its place.
LEMMA PushLetter ==
  ASSUME NEW T, NEW s \in Seq(T), NEW k \in Nat, k + 1 \in 1..Len(s),
         NEW r \in Loops, HasWords(r, s, k), Placed(r.out, s, k), s[k + 1] \in Name!Alnums
  PROVE  LET q == Name!Push(r, s[k + 1])
         IN  HasWords(q, s, k + 1) /\ Placed(q.out, s, k + 1)
<1> DEFINE x == Name!Lower(s[k + 1])
           out == r.out
           new == Append(out, x)
           q == Name!Push(r, s[k + 1])
           P == Name!Place(s, k)
           N == Name!Place(s, k + 1)
           L == Name!Letters(s, k)
           M == Name!Letters(s, k + 1)
           B == Name!Begins(s, k)
           C == Name!Begins(s, k + 1)
<1>1. q = [out |-> new, dashed |-> FALSE]
  BY DEF Name!Push
<1>2. x \in Written /\ x # "-"
  BY LowerIsNoDash
<1>3. out \in Seq(Written) /\ r.dashed \in BOOLEAN
  BY DEF Loops
<1>4. P \in Nat /\ N \in Nat
  BY LettersCount
<1>5. /\ M = L \cup {k + 1} /\ B \subseteq L /\ k + 1 \notin L /\ k + 1 \notin B
      /\ C = IF L # {} /\ s[k] \notin Name!Alnums THEN B \cup {k + 1} ELSE B
  BY LettersNext, LettersCount
<1>6. N = IF k + 1 \in C THEN P + 2 ELSE P + 1
  BY PlaceNext
<1>7. /\ Len(out) = P + (IF r.dashed THEN 1 ELSE 0)
      /\ out = <<>> <=> L = {}
      /\ r.dashed => s[k] \notin Name!Alnums /\ out[Len(out)] = "-"
      /\ ~r.dashed /\ L # {} => s[k] \in Name!Alnums
  BY DEF HasWords
<1>8. \A i \in L : /\ Name!Place(s, i) \in 1..P
                   /\ out[Name!Place(s, i)] = Name!Lower(s[i])
                   /\ i \in B => /\ Name!Place(s, i) - 1 \in 1..P
                                  /\ out[Name!Place(s, i) - 1] = "-"
  BY DEF Placed
<1> HIDE DEF q, P, N, L, M, B, C, x, out
<1>9. k + 1 \in C <=> r.dashed
  <2>1. CASE r.dashed
    <3>1. Len(out) # 0
      BY <1>4, <1>7, <2>1
    <3>2. out # <<>>
      BY <1>3, <3>1
    <3> QED
      BY <1>5, <1>7, <2>1, <3>2
  <2>2. CASE ~r.dashed
    BY <1>5, <1>7, <2>2
  <2> QED
    BY <2>1, <2>2
<1>10. N = Len(out) + 1 /\ Len(out) \in Nat /\ P <= Len(out)
  BY <1>3, <1>4, <1>6, <1>7, <1>9
<1>11. /\ new \in Seq(Written) /\ Len(new) = N /\ new[N] = x
       /\ \A j \in 1..Len(out) : new[j] = out[j]
  BY <1>2, <1>3, <1>10
<1> HIDE DEF new
<1>12. HasWords(q, s, k + 1)
  <2>1. q.out = new /\ q.dashed = FALSE
    BY <1>1
  <2>2. new # <<>> /\ M # {}
    BY <1>5, <1>10, <1>11
  <2> QED
    BY <1>2, <1>4, <1>11, <2>1, <2>2 DEF HasWords, M, N
<1>13. ASSUME NEW i \in M
       PROVE  /\ Name!Place(s, i) \in 1..N
              /\ new[Name!Place(s, i)] = Name!Lower(s[i])
              /\ i \in C => /\ Name!Place(s, i) - 1 \in 1..N
                             /\ new[Name!Place(s, i) - 1] = "-"
  <2>1. CASE i = k + 1
    <3>1. Name!Place(s, i) = N /\ Name!Lower(s[i]) = x
      BY <2>1 DEF N, x
    <3>2. N \in 1..N
      BY <1>10
    <3>3. ASSUME i \in C PROVE N - 1 \in 1..N /\ new[N - 1] = "-"
      <4>1. r.dashed
        BY <1>9, <2>1, <3>3
      <4>2. Len(out) >= 1 /\ out[Len(out)] = "-" /\ N - 1 = Len(out)
        BY <1>4, <1>7, <1>10, <4>1
      <4>3. Len(out) \in 1..Len(out) /\ Len(out) \in 1..N
        BY <1>10, <4>2
      <4> QED
        BY <1>11, <4>2, <4>3
    <3> QED
      BY <1>11, <3>1, <3>2, <3>3
  <2>2. CASE i # k + 1
    <3>1. i \in L /\ (i \in C <=> i \in B)
      BY <1>5, <2>2
    <3>2. \A j \in 1..P : j \in 1..N /\ new[j] = out[j]
      BY <1>4, <1>10, <1>11
    <3> QED
      BY <1>8, <3>1, <3>2
  <2> QED
    BY <2>1, <2>2
<1>14. Placed(q.out, s, k + 1)
  <2>1. q.out = new
    BY <1>1
  <2> QED
    BY <1>13, <2>1 DEF Placed, M, N, C
<1> QED
  BY <1>12, <1>14 DEF q

\* Anything else is at most a dash.
LEMMA PushOther ==
  ASSUME NEW T, NEW s \in Seq(T), NEW k \in Nat, k + 1 \in 1..Len(s),
         NEW r \in Loops, HasWords(r, s, k), Placed(r.out, s, k), s[k + 1] \notin Name!Alnums
  PROVE  LET q == Name!Push(r, s[k + 1])
         IN  HasWords(q, s, k + 1) /\ Placed(q.out, s, k + 1)
<1> DEFINE out == r.out
           new == Append(out, "-")
           q == Name!Push(r, s[k + 1])
           P == Name!Place(s, k)
           L == Name!Letters(s, k)
           B == Name!Begins(s, k)
<1>1. Name!Letters(s, k + 1) = L /\ Name!Begins(s, k + 1) = B /\ Name!Place(s, k + 1) = P
  BY LettersNext, PlaceNext
<1>2. q = IF out # <<>> /\ ~r.dashed THEN [out |-> new, dashed |-> TRUE] ELSE r
  BY DEF Name!Push
<1>3. out \in Seq(Written) /\ r.dashed \in BOOLEAN /\ P \in Nat
  BY LettersCount DEF Loops
<1>4. /\ Len(out) = P + (IF r.dashed THEN 1 ELSE 0)
      /\ out = <<>> <=> L = {}
      /\ r.dashed => s[k] \notin Name!Alnums /\ out[Len(out)] = "-"
      /\ ~r.dashed /\ L # {} => s[k] \in Name!Alnums
      /\ P > 0 => out[P] # "-"
  BY DEF HasWords
<1>5. \A i \in L : /\ Name!Place(s, i) \in 1..P
                   /\ out[Name!Place(s, i)] = Name!Lower(s[i])
                   /\ i \in B => /\ Name!Place(s, i) - 1 \in 1..P
                                  /\ out[Name!Place(s, i) - 1] = "-"
  BY DEF Placed
<1> HIDE DEF q, P, L, B, out
<1>6. CASE out # <<>> /\ ~r.dashed
  <2>1. q.out = new /\ q.dashed = TRUE
    BY <1>2, <1>6
  <2>0. Len(out) = P
    BY <1>3, <1>4, <1>6
  <2>2. "-" \in Written
    BY DEF Written
  <2>3. /\ Len(new) = P + 1 /\ new[P + 1] = "-" /\ new # <<>>
        /\ \A j \in 1..P : new[j] = out[j]
    <3> DEFINE d == "-"
    <3>1. d \in Written
      BY <2>2
    <3> HIDE DEF d, new
    <3>2. new = Append(out, d)
      BY DEF new, d
    <3>3. /\ Len(Append(out, d)) = P + 1 /\ Append(out, d)[P + 1] = d
          /\ \A j \in 1..P : Append(out, d)[j] = out[j]
      BY <1>3, <2>0, <3>1
    <3>4. new # <<>>
      BY <1>3, <3>2, <3>3
    <3> QED
      BY <3>2, <3>3, <3>4 DEF d
  <2> HIDE DEF new
  <2>4. HasWords(q, s, k + 1)
    <3>1. P > 0 => P \in 1..P
      BY <1>3
    <3>2. P > 0 => new[P] # "-"
      BY <1>4, <2>3, <3>1
    <3> QED
      BY <1>1, <1>4, <1>6, <2>0, <2>1, <2>3, <3>2 DEF HasWords
  <2>5. Placed(q.out, s, k + 1)
    <3>1. \A i \in L : /\ Name!Place(s, i) \in 1..P
                       /\ new[Name!Place(s, i)] = Name!Lower(s[i])
                       /\ i \in B => /\ Name!Place(s, i) - 1 \in 1..P
                                      /\ new[Name!Place(s, i) - 1] = "-"
      BY <1>5, <2>3
    <3> QED
      BY <1>1, <2>1, <3>1 DEF Placed
  <2> QED
    BY <2>4, <2>5 DEF q
<1>7. CASE ~(out # <<>> /\ ~r.dashed)
  <2>1. q = r /\ (r.dashed \/ L = {})
    BY <1>2, <1>3, <1>4, <1>7
  <2>2. HasWords(q, s, k + 1)
    BY <1>1, <1>4, <2>1 DEF HasWords, out
  <2>3. Placed(q.out, s, k + 1)
    BY <1>1, <1>5, <2>1 DEF Placed, out
  <2> QED
    BY <2>2, <2>3 DEF q
<1> QED
  BY <1>6, <1>7

\* ... so the loop has the words of the whole name.
LEMMA LoopHasWords ==
  ASSUME NEW T, NEW s \in Seq(T), NEW f, Loop(f, s)
  PROVE  LET n == Len(s) IN f[n] \in Loops /\ HasWords(f[n], s, n) /\ Placed(f[n].out, s, n)
<1> DEFINE n == Len(s)
           S == {k \in Nat : k <= n => HasWords(f[k], s, k) /\ Placed(f[k].out, s, k)}
<1>1. n \in Nat /\ \A k \in 0..n : f[k] \in Loops
  BY DEF Loop
<1>2. 0 \in S
  <2>1. Name!Letters(s, 0) = {} /\ Name!Begins(s, 0) = {}
    BY DEF Name!Letters, Name!Begins
  <2>2. Name!Place(s, 0) = 0
    <3>1. Name!Place(s, 0) = Cardinality({}) + Cardinality({})
      BY <2>1, SameCount, Zenon DEF Name!Place
    <3>2. Cardinality({}) = 0
      BY FS_EmptySet
    <3> QED
      BY <3>1, <3>2
  <2>3. f[0] = [out |-> <<>>, dashed |-> FALSE]
    BY DEF Loop
  <2>4. f[0].out = <<>> /\ f[0].dashed = FALSE /\ Len(f[0].out) = 0
    BY <2>3
  <2>5. HasWords(f[0], s, 0)
    BY <2>1, <2>2, <2>4 DEF HasWords
  <2>6. Placed(f[0].out, s, 0)
    BY <2>1 DEF Placed
  <2> QED
    BY <2>5, <2>6
<1>3. ASSUME NEW k \in Nat, k \in S PROVE k + 1 \in S
  <2> SUFFICES ASSUME k + 1 <= n PROVE HasWords(f[k + 1], s, k + 1) /\ Placed(f[k + 1].out, s, k + 1)
    OBVIOUS
  <2>1. k + 1 \in 1..n /\ k \in 0..n /\ k <= n /\ (k + 1) - 1 = k
    BY <1>1
  <2>2. f[k] \in Loops /\ HasWords(f[k], s, k) /\ Placed(f[k].out, s, k)
    BY <1>1, <1>3, <2>1
  <2>3. f[k + 1] = Name!Push(f[k], s[k + 1])
    BY <2>1 DEF Loop
  <2> HIDE DEF S
  <2>4. CASE s[k + 1] \in Name!Alnums
    BY <2>1, <2>2, <2>3, <2>4, PushLetter
  <2>5. CASE s[k + 1] \notin Name!Alnums
    BY <2>1, <2>2, <2>3, <2>5, PushOther
  <2> QED
    BY <2>4, <2>5
<1> HIDE DEF S
<1>4. n \in S
  BY <1>1, <1>2, <1>3, Induction
<1> QED
  BY <1>1, <1>4 DEF S

\* Trim cuts after the last character that is no dash.
LEMMA TrimCuts ==
  ASSUME NEW out \in Seq(Written), NEW p \in 0..Len(out),
         p > 0 => out[p] # "-", \A i \in (p + 1)..Len(out) : out[i] = "-"
  PROVE  Name!Trim(out) = SubSeq(out, 1, p)
<1> DEFINE Cut(n) == /\ n > 0 => out[n] # "-"
                     /\ \A i \in (n + 1)..Len(out) : out[i] = "-"
<1>1. Cut(p)
  OBVIOUS
<1>2. ASSUME NEW n \in 0..Len(out), Cut(n) PROVE n = p
  <2>1. CASE n < p
    <3>1. p \in (n + 1)..Len(out) /\ p > 0
      BY <2>1
    <3> QED
      BY <1>1, <1>2, <3>1
  <2>2. CASE p < n
    <3>1. n \in (p + 1)..Len(out) /\ n > 0
      BY <2>2
    <3> QED
      BY <1>1, <1>2, <3>1
  <2> QED
    BY <2>1, <2>2
<1>3. (CHOOSE n \in 0..Len(out) : Cut(n)) = p
  <2> HIDE DEF Cut
  <2> QED
    BY <1>1, <1>2
<1> QED
  BY <1>3 DEF Name!Trim

\* slugify, for one name.
LEMMA SlugJoins == ASSUME NEW T, NEW s \in Seq(T) PROVE Name!JoinsWords(s)
<1>1. PICK f : Loop(f, s)
  BY LoopEquation
<1> DEFINE n == Len(s)
           r == f[n]
           out == r.out
           P == Name!Place(s, n)
           slug == SubSeq(out, 1, P)
<1>2. r \in Loops /\ HasWords(r, s, n) /\ Placed(out, s, n)
  BY <1>1, LoopHasWords
<1>3. Name!Dashed(s) = out
  BY <1>1 DEF Loop
<1>4. n \in Nat /\ P \in Nat
  BY LettersCount
<1>5. out \in Seq(Written) /\ r.dashed \in BOOLEAN
  BY <1>2 DEF Loops
<1>6. /\ Len(out) = P + (IF r.dashed THEN 1 ELSE 0)
      /\ r.dashed => out[Len(out)] = "-"
      /\ P > 0 => out[P] # "-"
  BY <1>2 DEF HasWords
<1>7. \A i \in Name!Letters(s, n) :
        /\ Name!Place(s, i) \in 1..P
        /\ out[Name!Place(s, i)] = Name!Lower(s[i])
        /\ i \in Name!Begins(s, n) => /\ Name!Place(s, i) - 1 \in 1..P
                                       /\ out[Name!Place(s, i) - 1] = "-"
  BY <1>2 DEF Placed
<1> HIDE DEF n, r, out, P
<1>8. P \in 0..Len(out) /\ \A i \in (P + 1)..Len(out) : out[i] = "-"
  <2>1. CASE r.dashed
    <3>1. Len(out) = P + 1 /\ out[P + 1] = "-"
      BY <1>6, <2>1
    <3> QED
      BY <1>4, <3>1
  <2>2. CASE ~r.dashed
    <3>1. Len(out) = P
      BY <1>4, <1>6, <2>2
    <3> QED
      BY <1>4, <3>1
  <2> QED
    BY <2>1, <2>2
<1>9. Name!Slug(s) = slug
  BY <1>3, <1>5, <1>6, <1>8, TrimCuts DEF Name!Slug
<1>10. Len(slug) = P /\ \A j \in 1..P : slug[j] = out[j]
  BY <1>5, <1>8
<1> HIDE DEF slug
<1>11. \A i \in Name!Letters(s, n) :
        /\ slug[Name!Place(s, i)] = Name!Lower(s[i])
        /\ i \in Name!Begins(s, n) => slug[Name!Place(s, i) - 1] = "-"
  BY <1>7, <1>10
<1> QED
  BY <1>9, <1>10, <1>11 DEF Name!JoinsWords, n, P

\* A name is a sequence of characters.
NameIsChars == name \in Seq(Name!Chars)

LEMMA NameInvariance == Spec => []NameIsChars
<1>1. Init => NameIsChars
  BY DEF Init, NameIsChars
<1>2. NameIsChars /\ [Next]_vars => NameIsChars'
  <2> SUFFICES ASSUME NameIsChars, [Next]_vars PROVE NameIsChars'
    OBVIOUS
  <2> USE DEF NameIsChars
  <2>1. CASE AddChar
    BY <2>1 DEF AddChar
  <2>2. CASE UNCHANGED name
    BY <2>2
  <2>3. Next \/ UNCHANGED vars => AddChar \/ UNCHANGED name
    BY DEF Next, AddArg, AddFile, FillField, AddNode, AskPlan, vars, inputs
  <2> QED
    BY <2>1, <2>2, <2>3
<1> QED
  BY <1>1, <1>2, PTL DEF Spec

\* slugify: the id of a name of any length is its words in lower case, in
\* order and joined by single dashes, with none at either end.
THEOREM SlugsJoin == Spec => []SlugJoinsWords
<1>1. NameIsChars => SlugJoinsWords
  BY SlugJoins DEF NameIsChars, SlugJoinsWords
<1> QED
  BY <1>1, NameInvariance, PTL
=============================================================================
