------------------------------- MODULE Inputs -------------------------------
(***************************************************************************)
(* Every input, up to a bound, of the functions that keep no state: an     *)
(* argument vector, a profile name, a directory listing, a launch form or  *)
(* a cluster grows one token, character, file, field or node at a time,    *)
(* and a cluster may be asked for a plan.                                  *)
(***************************************************************************)
EXTENDS Suggest

Args   == INSTANCE CliArgs
Name   == INSTANCE Slugify
Choice == INSTANCE ModelChoice
Form   == INSTANCE Launch
Worker == INSTANCE WorkerStart

CONSTANTS
    MaxArgs, MaxName, MaxListing,    \* bounds for TLC
    Names,         \* what the nodes of a cluster are called, this one first
    SelfNodes,     \* what this node can report of itself
    RemoteNodes,   \* what a registered node can be
    Metas,         \* the models: total size, layers, mixture of experts or not
    Ctx            \* the context length asked for

ASSUME NamesAssumption ==
    Names \in Seq(STRING) /\ IsInjective(Names) /\ None \notin ToSet(Names)

ASSUME MetasAssumption == Metas \subseteq Models /\ Ctx \in Nat

\* What is usable of a unified GPU is part of the node's RAM: gather_devices
\* and sample each ask for the free RAM, but in the moment between them it
\* does not grow by the headroom.  This node has its own stats, and stats
\* come with an endpoint (suggest_handler, LocalStats::sample).
ASSUME NodesAssumption ==
    /\ SelfNodes \cup RemoteNodes \subseteq Nodes
    /\ \A n \in SelfNodes \cup RemoteNodes : UsableUnified(n) <= n.ram
    /\ \A n \in SelfNodes : Counted(n)
    /\ \A n \in RemoteNodes : Counted(n) => n.endpoint # None

\* A number is never blank, and never one of the words of the selector.
ASSUME NumeralsAssumption == Form!Numerals \cap {Form!Blank, Form!NoValue, "all"} = {}

VARIABLES args, name, listing, form,
          cluster,       \* this node, then the registered ones
          plan           \* what /suggest answers

inputs == <<args, name, listing, form, cluster>>
vars == <<inputs, plan>>

NoPlan == [fit |-> "none"]

Init ==
    /\ args = <<>> /\ name = <<>> /\ listing = <<>> /\ cluster = <<>>
    /\ form = Form!EmptyForm
    /\ plan = NoPlan

Empty ==
    [args |-> args = <<>>, name |-> name = <<>>, listing |-> listing = <<>>,
     form |-> form = Form!EmptyForm, cluster |-> cluster = <<>>]

\* One input grows, the others are empty.
Only(input) == plan = NoPlan /\ \A other \in DOMAIN Empty \ {input} : Empty[other]

AddArg ==
    /\ Only("args") /\ Len(args) < MaxArgs
    /\ \E t \in Args!Tokens : args' = Append(args, t)
    /\ UNCHANGED <<name, listing, form, cluster, plan>>

AddChar ==
    /\ Only("name") /\ Len(name) < MaxName
    /\ \E ch \in Name!Chars : name' = Append(name, ch)
    /\ UNCHANGED <<args, listing, form, cluster, plan>>

AddFile ==
    /\ Only("listing") /\ Len(listing) < MaxListing
    /\ \E f \in Choice!Files \ ToSet(listing) : listing' = Append(listing, f)
    /\ UNCHANGED <<args, name, form, cluster, plan>>

CatalogRefs == {"org/m:q4"}

\* A profile of a catalog model and one of a file.
Profiles ==
    {Form!ProfileBody([Form!EmptyForm EXCEPT !.hf = "org/m", !.moe = "all", !.opt["ngl"] = "8"]),
     Form!ProfileBody([Form!EmptyForm EXCEPT !.path = "q4.gguf", !.no_mmap = TRUE])}

\* The form: a model is typed, picked, or comes with a profile, and one
\* option of each kind is typed in; the others of its kind are treated by
\* the same definitions.
FillField ==
    /\ Only("form")
    /\ \/ \E m \in {"", "org/m:q4", "org/m", "q4.gguf"} : form' = Form!TypeHf(form, m)
       \/ \E m \in {"", "/m/q4.gguf", "/m", "m"} : form' = Form!TypePath(form, m)
       \/ \E m \in CatalogRefs : form' = Form!PickCatalog(form, m)
       \/ form' = Form!PrefillCacheDir(form, "/d")
       \/ \E p \in Profiles : form' = Form!FillFormFromProfile(form, p)
       \/ \E c \in {"all", "custom"} : form.moe = "" /\ form' = [form EXCEPT !.moe = c]
       \/ \E n \in {"7", "2.5"} : form.moe_n = "" /\ form' = [form EXCEPT !.moe_n = n]
       \/ form' = [form EXCEPT !.no_mmap = TRUE]
       \/ \E o \in {<<"ngl", "8">>, <<"ngl", "-1">>, <<"device", "x">>, <<"hf_cache_dir", "/c">>} :
             form.opt[o[1]] = "" /\ form' = [form EXCEPT !.opt[o[1]] = o[2]]
    /\ UNCHANGED <<args, name, listing, cluster, plan>>

Named(n, i) == [n EXCEPT !.name = Names[i]]

AddNode ==
    /\ Only("cluster") /\ Len(cluster) < Len(Names)
    /\ \E n \in IF cluster = <<>> THEN SelfNodes ELSE RemoteNodes :
          cluster' = Append(cluster, Named(n, Len(cluster) + 1))
    /\ UNCHANGED <<args, name, listing, form, plan>>

AskPlan ==
    /\ Only("cluster") /\ cluster # <<>>
    /\ \E m \in Metas : plan' = SuggestHandler(Head(cluster), Tail(cluster), m, Ctx)
    /\ UNCHANGED inputs

Next == AddArg \/ AddChar \/ AddFile \/ FillField \/ AddNode \/ AskPlan

Spec == Init /\ [][Next]_vars

-----------------------------------------------------------------------------
(* The places a launch looks for its model in.                             *)

Disks ==
    {[files |-> {"/m/q4.gguf"}, dirs |-> d] :
        d \in {[k \in {<<"", "/m">>} |-> <<"q4.gguf">>],
               [k \in {<<"", "/m">>, <<"/c", "org/m">>} |-> <<"q8.gguf", "q4.gguf">>],
               [k \in {<<"/c", "org/m">>, <<"/d", "org/m">>} |-> <<"q4-00001-of-00002.gguf">>]}}

\* A form with every field filled in, each with a value of its own.
FullForm ==
    [hf |-> "org/old", path |-> "/old.gguf", moe |-> "custom", moe_n |-> "3", no_mmap |-> TRUE,
     opt |-> [o \in Form!Nums \cup Form!Texts |-> IF o \in Form!Nums THEN "3" ELSE "old"]]

\* What a plan looks like to the page.
PlanAnswer ==
    [cpu_moe |-> IF plan.cpuMoeText = None THEN Form!NoValue ELSE plan.cpuMoeText,
     no_mmap |-> plan.noMmap,
     opt |-> [ngl          |-> ToString(plan.ngl),
              tensor_split |-> IF plan.split = <<>> THEN Form!NoValue ELSE ToString(plan.split),
              flash_attn   |-> "on"]]

Polls == PollNodes(Head(cluster), Tail(cluster))

IsPlanned == plan # NoPlan

-----------------------------------------------------------------------------
\* apply_cli_overrides: each setting is decided by the last pair that names
\* its flag, and a token that is a value never acts as a flag.  What follows
\* --role is its value, whatever it is, and means "worker" unless it is
\* "host".
LastPairDecides == Args!LastPairDecides(args)

\* worker_start_handler and main: a worker is not sent GPU layers that "its
\* rpc-server doesn't expose" (LocalStats::sample), nor does it hide a GPU.
ServesAdvertised == Worker!ServesAdvertised(args)

\* slugify: an id is the words of the name joined by single dashes.
SlugJoinsWords == Name!JoinsWords(name)

\* pick_gguf: the wanted quant, whole, and the same one in whatever order
\* the directory is read.
PickIsRight == \A q \in Choice!Quants \cup {Choice!NoQuant} : Choice!PickIsRight(listing, q)

\* launch_profile runs what the form the profile was saved from would run.
ProfileIsForm ==
    \A c \in {"/d", Form!NoValue}, d \in Disks : Form!ProfileIsForm(form, c, d)

\* fillFormFromProfile leaves nothing of the old form in the launch.
LoadForgetsForm ==
    \A c \in {"/d", Form!NoValue}, d \in Disks : Form!LoadForgetsForm(FullForm, form, c, d)

\* suggest_plan counts no memory twice.
PoolsWithinTotals == IsPlanned => PoolsWithin(Polls, plan)

\* suggest_plan: whatever is left to the host's CPU, sent to remote CPUs or
\* kept on the GPUs beside the experts fits there, up to the code's rounding.
SharesFit ==
    IsPlanned => RemainderFits(plan) /\ ShareBounded(plan) /\ FreeEnough(plan)

\* "CPU-only nodes must be the last --rpc entries for the split to align
\* with the right device" (ordered_rpc_endpoints).
SplitAligns == IsPlanned => Aligns(Polls, plan)

\* The same where the node that plans is the host it plans for, and the plan
\* knows all that llama.cpp will number.  A GPU this node hides
\* (advertise_gpu), or one of a driver that reports nonsense, is numbered
\* without an entry and shifts the ones behind it.
SplitAlignsOnHost == IsPlanned /\ HostIdx(Polls) = 1 /\ AllTold(Polls) => Aligns(Polls, plan)

\* version_warnings: no node is handed to llama-server unnoticed with
\* another version, "the #1 silent RPC failure".
EndpointsAreVersioned == IsPlanned => Versioned(Polls, plan)

\* A launch after btn-suggest is the plan, whatever the form held before.
PlanIsLaunched ==
    IsPlanned => \A before \in {Form!EmptyForm, FullForm} : Form!PlanIsLaunched(before, PlanAnswer)
=============================================================================
