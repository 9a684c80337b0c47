---------------------------- MODULE ConfigProofs ----------------------------
(***************************************************************************)
(* Proofs about the configuration (ConfigStore).                           *)
(***************************************************************************)
EXTENDS ConfigStore, DataLemmas, TLAPS

USE ConfigStoreAssumption

IsConfig(c) == c \in [port : {c.port}, role : {c.role}, name : {c.name}, nodes : {c.nodes}]

\* What memory and the file hold are configurations.
HoldConfigs ==
    /\ IsConfig(mem)
    /\ disk = Unreadable \/ IsConfig(disk)

\* Whether the program runs or not, the file is only behind after a failure.
FileAgrees == ~failed => disk = mem \/ mem = Override(Load, flags)

-----------------------------------------------------------------------------
(* Configurations stay configurations.                                     *)

LEMMA FormsAreConfigs ==
  /\ IsConfig(Default)
  /\ \A c, f : IsConfig(c) => IsConfig(Override(c, f))
  /\ \A c, l : IsConfig(c) => IsConfig([c EXCEPT !.nodes = l])
  /\ \A c, l, n : IsConfig(c) => IsConfig([c EXCEPT !.nodes = l, !.name = n])
<1>1. IsConfig(Default)
  BY DEF IsConfig, Default
<1>2. ASSUME NEW c, NEW f, IsConfig(c) PROVE IsConfig(Override(c, f))
  BY <1>2 DEF IsConfig, Override
<1>3. ASSUME NEW c, NEW l, IsConfig(c) PROVE IsConfig([c EXCEPT !.nodes = l])
  BY <1>3 DEF IsConfig
<1>4. ASSUME NEW c, NEW l, NEW n, IsConfig(c)
      PROVE  IsConfig([c EXCEPT !.nodes = l, !.name = n])
  BY <1>4 DEF IsConfig
<1> QED
  BY <1>1, <1>2, <1>3, <1>4

\* A page sends a configuration.
LEMMA BodiesAreConfigs ==
  ASSUME NEW t, NEW body \in SettingsBodies(t)
  PROVE  IsConfig(body)
  BY DEF SettingsBodies, IsConfig

\* A file cut short holds one, with the nodes in front.
LEMMA CutsAreConfigs ==
  ASSUME NEW c, IsConfig(c), NEW d \in CutShort(c)
  PROVE  /\ IsConfig(d)
         /\ d.nodes = <<>> \/ \E k \in 0..Len(c.nodes) : d.nodes = SubSeq(c.nodes, 1, k)
<1>1. ASSUME NEW p, d = [Default EXCEPT !.port = p] PROVE IsConfig(d) /\ d.nodes = <<>>
  BY <1>1 DEF IsConfig, Default
<1>2. ASSUME d = [Default EXCEPT !.port = c.port, !.role = c.role]
      PROVE  IsConfig(d) /\ d.nodes = <<>>
  BY <1>2 DEF IsConfig, Default
<1>3. ASSUME NEW k \in 0..Len(c.nodes), d = [c EXCEPT !.nodes = SubSeq(c.nodes, 1, k)]
      PROVE  IsConfig(d) /\ d.nodes = SubSeq(c.nodes, 1, k)
  BY <1>3 DEF IsConfig
<1> QED
  BY <1>1, <1>2, <1>3 DEF CutShort

\* A change that takes a configuration leaves one in memory and on disk.
LEMMA ChangeKeeps ==
  ASSUME NEW c, IsConfig(c), HoldConfigs, Change(c)
  PROVE  HoldConfigs'
BY CutsAreConfigs DEF Change, Save, HoldConfigs

\* Every save leaves the file agreeing with memory, or is known to have failed.
LEMMA ChangeAgrees == ASSUME NEW c, Change(c) PROVE ~failed' => disk' = mem'
BY DEF Change, Save

LEMMA InitHolds == ASSUME Init PROVE HoldConfigs
<1>1. disk = Unreadable \/ \E l : disk = [Default EXCEPT !.nodes = l]
  BY DEF Init
<1>2. disk = Unreadable \/ IsConfig(disk)
  <2>1. ASSUME NEW l PROVE IsConfig([Default EXCEPT !.nodes = l])
    BY FormsAreConfigs
  <2> QED
    BY <1>1, <2>1
<1>3. mem = Load
  BY DEF Init
<1>4. IsConfig(Load)
  BY <1>2, FormsAreConfigs DEF Load
<1> QED
  BY <1>2, <1>3, <1>4 DEF HoldConfigs

LEMMA StepHolds == ASSUME HoldConfigs, [Next]_vars PROVE HoldConfigs'
<1>1. ASSUME NEW f \in Flags, Boot(f) PROVE HoldConfigs'
  BY <1>1, FormsAreConfigs DEF Boot, HoldConfigs, Load
<1>2. CASE Quit
  BY <1>2 DEF Quit, HoldConfigs
<1>3. ASSUME NEW l, Change([mem EXCEPT !.nodes = l]) PROVE HoldConfigs'
  BY <1>3, FormsAreConfigs, ChangeKeeps DEF HoldConfigs
<1>4. ASSUME NEW a \in Addrs, AddNode(a) PROVE HoldConfigs'
  BY <1>3, <1>4 DEF AddNode
<1>5. ASSUME NEW a \in Addrs, RemoveNode(a) PROVE HoldConfigs'
  BY <1>3, <1>5 DEF RemoveNode
<1>6. CASE ApplyProfile
  BY <1>3, <1>6 DEF ApplyProfile
<1>7. ASSUME NEW t \in Tabs, LoadSettings(t) PROVE HoldConfigs'
  BY <1>7 DEF LoadSettings, HoldConfigs
<1>8. ASSUME NEW t \in Tabs, PostConfig(t) PROVE HoldConfigs'
  BY <1>8, BodiesAreConfigs, FormsAreConfigs, ChangeKeeps DEF PostConfig
<1>9. CASE UNCHANGED vars
  BY <1>9 DEF vars, HoldConfigs
<1> QED
  BY <1>1, <1>2, <1>4, <1>5, <1>6, <1>7, <1>8, <1>9 DEF Next

LEMMA ConfigsAreHeld == Spec => []HoldConfigs
<1>1. Init => HoldConfigs
  BY InitHolds
<1>2. HoldConfigs /\ [Next]_vars => HoldConfigs'
  BY StepHolds
<1> QED
  BY <1>1, <1>2, PTL DEF Spec

-----------------------------------------------------------------------------
(* The file agrees with memory.                                            *)

LEMMA FileInvariance == Spec => []FileAgrees
<1>1. Init => FileAgrees
  <2> SUFFICES ASSUME Init PROVE mem = Override(Load, flags)
    BY DEF FileAgrees
  <2>1. IsConfig(mem) /\ mem = Load /\ flags = NoFlags
    BY InitHolds DEF Init, HoldConfigs
  <2>2. mem = Override(mem, NoFlags)
    BY <2>1 DEF Override, NoFlags, IsConfig
  <2> QED
    BY <2>1, <2>2
<1>2. FileAgrees /\ [Next]_vars => FileAgrees'
  <2> SUFFICES ASSUME FileAgrees, [Next]_vars PROVE FileAgrees'
    OBVIOUS
  <2>1. ASSUME NEW f \in Flags, Boot(f) PROVE FileAgrees'
    BY <2>1 DEF Boot, FileAgrees, Load
  <2>2. CASE Quit
    BY <2>2 DEF Quit, FileAgrees, Load
  <2>3. ASSUME NEW a \in Addrs, AddNode(a) \/ RemoveNode(a) PROVE FileAgrees'
    BY <2>3, ChangeAgrees DEF AddNode, RemoveNode, FileAgrees
  <2>4. CASE ApplyProfile
    BY <2>4, ChangeAgrees DEF ApplyProfile, FileAgrees
  <2>5. ASSUME NEW t \in Tabs, LoadSettings(t) PROVE FileAgrees'
    BY <2>5 DEF LoadSettings, FileAgrees, Load
  <2>6. ASSUME NEW t \in Tabs, PostConfig(t) PROVE FileAgrees'
    BY <2>6, ChangeAgrees DEF PostConfig, FileAgrees
  <2>7. CASE UNCHANGED vars
    BY <2>7 DEF vars, FileAgrees, Load
  <2> QED
    BY <2>1, <2>2, <2>3, <2>4, <2>5, <2>6, <2>7 DEF Next
<1> QED
  BY <1>1, <1>2, PTL DEF Spec

\* save_locked: unless the last save failed, the file holds what is in
\* memory, or memory is the file under this run's flags.
THEOREM FileIsCurrent == Spec => []DiskAgrees
<1>1. FileAgrees => DiskAgrees
  BY DEF FileAgrees, DiskAgrees
<1> QED
  BY <1>1, FileInvariance, PTL

\* Unreadable is no configuration.
Distinct == \A p, r, n, l : Unreadable # [port |-> p, role |-> r, name |-> n, nodes |-> l]

\* Flags change neither the nodes nor the name.
LEMMA OverrideSpares ==
  ASSUME NEW c, IsConfig(c), NEW f
  PROVE  Override(c, f).nodes = c.nodes /\ Override(c, f).name = c.name
  BY DEF IsConfig, Override

LEMMA BootRestores ==
  ASSUME Distinct, HoldConfigs, FileAgrees, NEW f \in Flags, Boot(f), ~failed
  PROVE  /\ mem'.nodes = mem.nodes /\ mem'.name = mem.name
         /\ f = NoFlags /\ flags = NoFlags => mem' = mem
<1>1. mem' = Override(Load, f) /\ IsConfig(Load) /\ IsConfig(mem)
  BY FormsAreConfigs DEF Boot, HoldConfigs, Load
<1>2. CASE disk = mem
  <2>1. mem # Unreadable
    BY DEF HoldConfigs, IsConfig, Distinct
  <2>2. Load = mem
    BY <1>2, <2>1 DEF Load
  <2>3. Override(mem, NoFlags) = mem
    BY DEF HoldConfigs, IsConfig, Override, NoFlags
  <2> QED
    BY <1>1, <2>2, <2>3, OverrideSpares
<1>3. CASE mem = Override(Load, flags)
  BY <1>1, <1>3, OverrideSpares
<1> QED
  BY <1>2, <1>3 DEF FileAgrees

\* main: after a save that worked a restart keeps the nodes and the name,
\* whatever its flags, and comes back as before when there are none.
THEOREM RestartsGoUnnoticed ==
  ASSUME Distinct
  PROVE  Spec => RestartRestores
<1>1. HoldConfigs /\ FileAgrees /\ [Next]_vars
        => [\A f \in Flags : Boot(f) /\ ~failed =>
               /\ mem'.nodes = mem.nodes /\ mem'.name = mem.name
               /\ f = NoFlags /\ flags = NoFlags => mem' = mem]_vars
  BY BootRestores
<1> QED
  BY <1>1, ConfigsAreHeld, FileInvariance, PTL DEF Spec, RestartRestores

-----------------------------------------------------------------------------
(* The registered nodes.                                                   *)

Foreign == ProfileNodes \cup WrittenNodes

\* What is wrong with a list is wrong with one that came from outside.
Known(l) ==
    /\ l \in Seq(Addrs)
    /\ \A i \in 1..Len(l) : NormalizeNodeAddr(l[i]) # l[i] =>
          \E k \in Foreign : l[i] \in Range(k)
    /\ \A i, j \in 1..Len(l) : i # j /\ l[i] = l[j] => \E k \in Foreign : Repeats(l[i], k)

KnownNodes ==
    /\ Known(mem.nodes)
    /\ disk = Unreadable \/ Known(disk.nodes)

LEMMA NormalizeIs ==
  ASSUME NEW a \in Addrs
  PROVE  /\ NormalizeNodeAddr(a) \in Addrs
         /\ NormalizeNodeAddr(NormalizeNodeAddr(a)) = NormalizeNodeAddr(a)
  BY DEF Addrs, NormalizeNodeAddr

LEMMA ForeignKnown == ASSUME NEW l \in Foreign PROVE Known(l)
<1>1. l \in Seq(Addrs)
  BY DEF Foreign
<1>2. \A i \in 1..Len(l) : l[i] \in Range(l)
  BY <1>1 DEF Range
<1>3. \A i, j \in 1..Len(l) : i # j /\ l[i] = l[j] => Repeats(l[i], l)
  BY <1>1 DEF Repeats
<1> QED
  BY <1>1, <1>2, <1>3 DEF Known

LEMMA NothingKnown == Known(<<>>)
  BY DEF Known

\* A new address goes to the end of the list.
LEMMA AppendKnown ==
  ASSUME NEW l, Known(l), NEW a \in Addrs, NormalizeNodeAddr(a) = a,
         \A i \in 1..Len(l) : l[i] # a
  PROVE  Known(Append(l, a))
<1> DEFINE m == Append(l, a)
<1>1. m \in Seq(Addrs) /\ Len(m) = Len(l) + 1 /\ m[Len(l) + 1] = a /\ Len(l) \in Nat
  BY DEF Known
<1>2. \A i \in 1..Len(l) : m[i] = l[i]
  BY DEF Known
<1> HIDE DEF m
<1>3. \A i \in 1..Len(m) : i = Len(l) + 1 \/ i \in 1..Len(l)
  BY <1>1
<1>4. Known(m)
  BY <1>1, <1>2, <1>3 DEF Known
<1> QED
  BY <1>4 DEF m

Without(l, a) == Retain(l, LAMBDA n : n # a)

LEMMA WithoutPicks ==
  ASSUME NEW l \in Seq(Addrs), NEW a
  PROVE  \E I, at : /\ \A i \in 1..Len(l) : i \in I <=> l[i] # a
                    /\ Without(l, a) \in Seq(Addrs)
                    /\ Selects(at, Without(l, a), l, I, Len(l))
<1> DEFINE I == {i \in DOMAIN l : l[i] # a}
<1>1. Without(l, a) = Picked(l, I)
  BY DEF Retain, Without
<1>2. \A i \in 1..Len(l) : i \in I <=> l[i] # a
  OBVIOUS
<1> HIDE DEF I
<1>3. Picked(l, I) \in Seq(Addrs) /\ \E at : Selects(at, Picked(l, I), l, I, Len(l))
  BY PickedSelects
<1> QED
  BY <1>1, <1>2, <1>3

\* Taking an address out leaves the rest as it was.
LEMMA WithoutKnown ==
  ASSUME NEW l, Known(l), NEW a
  PROVE  Known(Without(l, a))
<1> DEFINE m == Without(l, a)
<1>1. l \in Seq(Addrs)
  BY DEF Known
<1>2. PICK I, at : m \in Seq(Addrs) /\ Selects(at, m, l, I, Len(l))
  BY <1>1, WithoutPicks
<1> HIDE DEF m
<1>3. \A k \in 1..Len(m) : at[k] \in 1..Len(l) /\ m[k] = l[at[k]]
  BY <1>2 DEF Selects
<1>4. \A j, k \in 1..Len(m) : j # k => at[j] # at[k]
  BY <1>2, <1>3 DEF Selects
<1>5. Known(m)
  BY <1>2, <1>3, <1>4 DEF Known
<1> QED
  BY <1>5 DEF m

Has(l, a) == \E i \in DOMAIN l : l[i] = a

LEMMA WithoutElements ==
  ASSUME NEW l \in Seq(Addrs), NEW a, NEW b, b # a
  PROVE  Has(Without(l, a), b) <=> Has(l, b)
<1> DEFINE m == Without(l, a)
<1>1. PICK I, at : /\ \A i \in 1..Len(l) : i \in I <=> l[i] # a
                   /\ m \in Seq(Addrs)
                   /\ Selects(at, m, l, I, Len(l))
  BY WithoutPicks
<1> HIDE DEF m
<1>2. \A k \in 1..Len(m) : at[k] \in 1..Len(l) /\ m[k] = l[at[k]]
  BY <1>1 DEF Selects
<1>3. \A i \in 1..Len(l) : i \in I => \E k \in 1..Len(m) : at[k] = i
  BY <1>1, Zenon DEF Selects
<1>4. DOMAIN m = 1..Len(m) /\ DOMAIN l = 1..Len(l)
  BY <1>1
<1>5. ASSUME Has(m, b) PROVE Has(l, b)
  <2>1. PICK k \in 1..Len(m) : m[k] = b
    BY <1>4, <1>5 DEF Has
  <2>2. at[k] \in 1..Len(l) /\ l[at[k]] = b
    BY <1>2, <2>1
  <2> QED
    BY <1>4, <2>2 DEF Has
<1>6. ASSUME Has(l, b) PROVE Has(m, b)
  <2>1. PICK i \in 1..Len(l) : l[i] = b
    BY <1>4, <1>6 DEF Has
  <2>2. i \in I
    BY <1>1, <2>1
  <2>3. PICK k \in 1..Len(m) : at[k] = i
    BY <1>3, <2>1, <2>2
  <2>4. m[k] = b
    BY <1>2, <2>1, <2>3
  <2> QED
    BY <1>4, <2>3, <2>4 DEF Has
<1> QED
  BY <1>5, <1>6 DEF m

\* So does cutting the end off.
LEMMA FrontKnown ==
  ASSUME NEW l, Known(l), NEW k \in 0..Len(l)
  PROVE  Known(SubSeq(l, 1, k))
<1> DEFINE m == SubSeq(l, 1, k)
<1>1. l \in Seq(Addrs) /\ Len(l) \in Nat
  BY DEF Known
<1>2. m \in Seq(Addrs) /\ Len(m) = k /\ \A i \in 1..k : m[i] = l[i]
  BY <1>1
<1>3. 1..k \subseteq 1..Len(l)
  BY <1>1
<1> HIDE DEF m
<1>4. Known(m)
  BY <1>2, <1>3 DEF Known
<1> QED
  BY <1>4 DEF m

LEMMA ChangeKnown ==
  ASSUME NEW c, IsConfig(c), Known(c.nodes), KnownNodes, Change(c)
  PROVE  KnownNodes'
<1>1. ASSUME NEW d \in CutShort(c) PROVE Known(d.nodes)
  BY CutsAreConfigs, FrontKnown, NothingKnown
<1>2. mem' = c /\ (disk' = c \/ disk' = disk \/ disk' = Unreadable \/ disk' \in CutShort(c))
  BY DEF Change, Save
<1> QED
  BY <1>1, <1>2 DEF KnownNodes

LEMMA NodesOf ==
  ASSUME NEW c, IsConfig(c), NEW l PROVE [c EXCEPT !.nodes = l].nodes = l
  BY DEF IsConfig

\* What a saved page leaves of the nodes: all of them.
LEMMA PostedNodes ==
  ASSUME HoldConfigs, NEW t \in Tabs, PostConfig(t)
  PROVE  \E c : IsConfig(c) /\ c.nodes = mem.nodes /\ Change(c)
<1>1. PICK body \in SettingsBodies(t) :
        Change([body EXCEPT !.nodes = mem.nodes,
                            !.name = IF @ = Blank THEN mem.name ELSE @])
  BY DEF PostConfig
<1> DEFINE c == [body EXCEPT !.nodes = mem.nodes,
                             !.name = IF @ = Blank THEN mem.name ELSE @]
<1>2. IsConfig(c) /\ c.nodes = mem.nodes
  BY BodiesAreConfigs DEF IsConfig
<1> HIDE DEF c
<1>3. Change(c)
  BY <1>1 DEF c
<1> QED
  BY <1>2, <1>3

\* What add_node does to the list.
LEMMA AddedNodes ==
  ASSUME NEW a, AddNode(a)
  PROVE  \/ Change([mem EXCEPT !.nodes = mem.nodes])
         \/ /\ Change([mem EXCEPT !.nodes = Append(mem.nodes, NormalizeNodeAddr(a))])
            /\ \A i \in DOMAIN mem.nodes : mem.nodes[i] # NormalizeNodeAddr(a)
<1>1. CASE \E i \in DOMAIN mem.nodes : mem.nodes[i] = NormalizeNodeAddr(a)
  BY <1>1 DEF AddNode
<1>2. CASE ~ \E i \in DOMAIN mem.nodes : mem.nodes[i] = NormalizeNodeAddr(a)
  BY <1>2 DEF AddNode
<1> QED
  BY <1>1, <1>2

LEMMA BootNodes ==
  ASSUME HoldConfigs, NEW f \in Flags, Boot(f)
  PROVE  mem'.nodes = Load.nodes
<1>1. IsConfig(Load)
  BY FormsAreConfigs DEF HoldConfigs, Load
<1> QED
  BY <1>1, OverrideSpares DEF Boot

LEMMA NodesAreKnown == Spec => []KnownNodes
<1>1. Init => KnownNodes
  <2> SUFFICES ASSUME Init PROVE KnownNodes
    OBVIOUS
  <2>1. Known(Default.nodes)
    BY NothingKnown DEF Default
  <2>2. ASSUME NEW l \in WrittenNodes PROVE Known([Default EXCEPT !.nodes = l].nodes)
    BY FormsAreConfigs, NodesOf, ForeignKnown DEF Foreign
  <2>3. disk = Unreadable \/ Known(disk.nodes)
    BY <2>2 DEF Init
  <2> QED
    BY <2>1, <2>3 DEF Init, KnownNodes, Load
<1>2. HoldConfigs /\ KnownNodes /\ [Next]_vars => KnownNodes'
  <2> SUFFICES ASSUME HoldConfigs, KnownNodes, [Next]_vars PROVE KnownNodes'
    OBVIOUS
  <2>0. IsConfig(mem) /\ Known(mem.nodes) /\ mem.nodes \in Seq(Addrs)
    BY DEF HoldConfigs, KnownNodes, Known
  <2>1. ASSUME NEW f \in Flags, Boot(f) PROVE KnownNodes'
    <3>1. Known(Load.nodes)
      BY NothingKnown DEF KnownNodes, Load, Default
    <3> QED
      BY <2>1, <3>1, BootNodes DEF Boot, KnownNodes
  <2>2. CASE Quit
    BY <2>2 DEF Quit, KnownNodes
  <2>3. ASSUME NEW l, Known(l), Change([mem EXCEPT !.nodes = l]) PROVE KnownNodes'
    BY <2>0, <2>3, FormsAreConfigs, NodesOf, ChangeKnown
  <2>4. ASSUME NEW a \in Addrs, AddNode(a) PROVE KnownNodes'
    <3> DEFINE n == NormalizeNodeAddr(a)
    <3>1. CASE Change([mem EXCEPT !.nodes = mem.nodes])
      BY <2>0, <2>3, <3>1
    <3>2. CASE /\ Change([mem EXCEPT !.nodes = Append(mem.nodes, n)])
               /\ \A i \in DOMAIN mem.nodes : mem.nodes[i] # n
      <4>1. n \in Addrs /\ NormalizeNodeAddr(n) = n
        BY NormalizeIs
      <4> HIDE DEF n
      <4>2. Known(Append(mem.nodes, n))
        BY <2>0, <3>2, <4>1, AppendKnown
      <4> QED
        BY <2>3, <3>2, <4>2
    <3> QED
      BY <2>4, <3>1, <3>2, AddedNodes
  <2>5. ASSUME NEW a \in Addrs, RemoveNode(a) PROVE KnownNodes'
    <3> DEFINE l == Without(mem.nodes, NormalizeNodeAddr(a))
    <3>1. Change([mem EXCEPT !.nodes = l])
      BY <2>5 DEF RemoveNode, Without
    <3>2. Known(l)
      BY <2>0, WithoutKnown
    <3> HIDE DEF l
    <3> QED
      BY <2>3, <3>1, <3>2
  <2>6. CASE ApplyProfile
    BY <2>3, <2>6, ForeignKnown DEF ApplyProfile, Foreign
  <2>7. ASSUME NEW t \in Tabs, LoadSettings(t) PROVE KnownNodes'
    BY <2>7 DEF LoadSettings, KnownNodes
  <2>8. ASSUME NEW t \in Tabs, PostConfig(t) PROVE KnownNodes'
    BY <2>0, <2>8, PostedNodes, ChangeKnown
  <2>9. CASE UNCHANGED vars
    BY <2>9 DEF vars, KnownNodes
  <2> QED
    BY <2>1, <2>2, <2>4, <2>5, <2>6, <2>7, <2>8, <2>9 DEF Next
<1> QED
  BY <1>1, <1>2, ConfigsAreHeld, PTL DEF Spec

\* add_node, remove_node, apply_profile, every restart and every save that
\* fails: an address that remove_node cannot take out, or that is listed
\* twice, is so in a profile or in a file that a user has written.
THEOREM NodesStayManageable == Spec => []NodesAreManageable
<1>1. KnownNodes => NodesAreManageable
  <2> SUFFICES ASSUME KnownNodes, NEW a \in Addrs
               PROVE  /\ IsListed(a, mem) /\ NormalizeNodeAddr(a) # a =>
                            \E l \in Foreign : a \in Range(l)
                      /\ Repeats(a, mem.nodes) => \E l \in Foreign : Repeats(a, l)
    BY DEF NodesAreManageable, Foreign
  <2>1. Known(mem.nodes) /\ DOMAIN mem.nodes = 1..Len(mem.nodes)
    BY DEF KnownNodes, Known
  <2> QED
    BY <2>1 DEF Known, IsListed, Repeats
<1> QED
  BY <1>1, NodesAreKnown, PTL

LEMMA HasSame ==
  ASSUME NEW a, mem'.nodes = mem.nodes
  PROVE  IsListed(a, mem) <=> IsListed(a, mem)'
  BY DEF IsListed

LEMMA StepByRequest ==
  ASSUME Distinct, HoldConfigs, FileAgrees, KnownNodes, Next,
         ~ApplyProfile, ~(\E f \in Flags : Boot(f) /\ failed),
         NEW a \in Addrs, IsListed(a, mem) # IsListed(a, mem)'
  PROVE  \E b \in Addrs : NormalizeNodeAddr(b) = a /\ (AddNode(b) \/ RemoveNode(b))
<1>0. IsConfig(mem) /\ mem.nodes \in Seq(Addrs)
  BY DEF HoldConfigs, KnownNodes, Known
<1>1. mem'.nodes # mem.nodes
  BY HasSame DEF IsListed
<1>2. ASSUME NEW f \in Flags, Boot(f) PROVE FALSE
  BY <1>1, <1>2, BootRestores
<1>3. ~Quit /\ ~(\E t \in Tabs : LoadSettings(t))
  BY <1>1 DEF Quit, LoadSettings
<1>4. ASSUME NEW t \in Tabs, PostConfig(t) PROVE FALSE
  BY <1>1, <1>4, PostedNodes DEF Change
<1>5. ASSUME NEW b \in Addrs, AddNode(b) PROVE NormalizeNodeAddr(b) = a
  <2> DEFINE n == NormalizeNodeAddr(b)
  <2>1. mem'.nodes = Append(mem.nodes, n)
    <3>1. ASSUME NEW l, Change([mem EXCEPT !.nodes = l]) PROVE mem'.nodes = l
      BY <1>0, <3>1, NodesOf DEF Change
    <3> QED
      BY <1>1, <1>5, <3>1, AddedNodes
  <2> HIDE DEF n
  <2>2. ASSUME a # n PROVE IsListed(a, mem) <=> IsListed(a, mem)'
    <3> DEFINE m == Append(mem.nodes, n)
    <3>1. /\ Len(m) = Len(mem.nodes) + 1 /\ m[Len(mem.nodes) + 1] = n /\ Len(mem.nodes) \in Nat
          /\ DOMAIN m = 1..Len(m) /\ DOMAIN mem.nodes = 1..Len(mem.nodes)
          /\ \A i \in 1..Len(mem.nodes) : m[i] = mem.nodes[i]
      BY <1>0
    <3>2. mem'.nodes = m
      BY <2>1
    <3> HIDE DEF m
    <3> QED
      BY <2>2, <3>1, <3>2 DEF IsListed
  <2>3. IsListed(a, mem) \in BOOLEAN /\ IsListed(a, mem)' \in BOOLEAN
    BY DEF IsListed
  <2> QED
    BY <2>2, <2>3 DEF n
<1>6. ASSUME NEW b \in Addrs, RemoveNode(b) PROVE NormalizeNodeAddr(b) = a
  <2> DEFINE n == NormalizeNodeAddr(b)
  <2>1. mem'.nodes = Without(mem.nodes, n)
    BY <1>0, <1>6, NodesOf DEF RemoveNode, Change, Without
  <2> HIDE DEF n
  <2>2. ASSUME a # n PROVE IsListed(a, mem) <=> IsListed(a, mem)'
    <3>1. Has(Without(mem.nodes, n), a) <=> Has(mem.nodes, a)
      BY <1>0, <2>2, WithoutElements
    <3> QED
      BY <2>1, <3>1 DEF IsListed, Has
  <2>3. IsListed(a, mem) \in BOOLEAN /\ IsListed(a, mem)' \in BOOLEAN
    BY DEF IsListed
  <2> QED
    BY <2>2, <2>3 DEF n
<1> QED
  BY <1>2, <1>3, <1>4, <1>5, <1>6 DEF Next

\* post_config and the /nodes handlers: apart from applying a profile and
\* from coming back after a save that failed, a node enters or leaves the
\* list only by a request that names it.
THEOREM NodesChangeByRequest ==
  ASSUME Distinct
  PROVE  Spec => NodesOnlyByRequest
<1>1. HoldConfigs /\ FileAgrees /\ KnownNodes /\ [Next]_vars =>
        [~ApplyProfile /\ ~(\E f \in Flags : Boot(f) /\ failed) =>
          \A a \in Addrs : IsListed(a, mem) # IsListed(a, mem)' =>
             \E b \in Addrs : NormalizeNodeAddr(b) = a /\ (AddNode(b) \/ RemoveNode(b))]_vars
  BY StepByRequest
<1> QED
  BY <1>1, ConfigsAreHeld, FileInvariance, NodesAreKnown, PTL DEF Spec, NodesOnlyByRequest
=============================================================================
