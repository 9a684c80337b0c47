------------------------------- MODULE Launch -------------------------------
(***************************************************************************)
(* From the cockpit's launch form to the command line of llama-server:     *)
(* directly (btn-launch, host_launch), through a saved profile             *)
(* (btn-save-profile, launch_profile), or through a profile loaded back    *)
(* into the form (fillFormFromProfile).  Fields that are treated alike are *)
(* one function; a field holds a text, and the blank text is no value.     *)
(***************************************************************************)
LOCAL INSTANCE Naturals
LOCAL INSTANCE TLC
INSTANCE ModelChoice

Nums  == {"ngl", "ctx", "main_gpu", "threads", "threads_batch"}
Texts == {"tensor_split", "device", "hf_cache_dir", "flash_attn"}
CacheTypes == {"cache_type_k", "cache_type_v"}    \* no field of the form

Blank == ""
NoValue == "null"
Negative == "-1"                      \* what no u32 takes
Numerals == {ToString(n) : n \in 0..99}

Value(text) == IF text = Blank THEN NoValue ELSE text
Text(value) == IF value = NoValue THEN Blank ELSE value

\* What a model reference looks like: clearly a path, or a repository.
LooksLikePath(m) == m \in {"/m/q4.gguf", "/m", "q4.gguf"}
HfRef(m) ==
    CASE m = "org/m:q4" -> [repo |-> "org/m", quant |-> "q4"]
      [] OTHER          -> [repo |-> m, quant |-> NoQuant]

EmptyForm ==
    [hf |-> Blank, path |-> Blank, moe |-> Blank, moe_n |-> Blank, no_mmap |-> FALSE,
     opt |-> [o \in Nums \cup Texts |-> Blank]]

-----------------------------------------------------------------------------
(* The page.                                                               *)

\* Typing a model's path or its repository clears the other one.
TypePath(f, t) == [f EXCEPT !.path = t, !.hf = IF t = Blank THEN @ ELSE Blank]

TypeHf(f, t) == [f EXCEPT !.hf = t, !.path = IF t = Blank THEN @ ELSE Blank]

\* Picking a catalog model sets the field from the script, which fires no
\* input event: a path stays.
PickCatalog(f, ref) == [f EXCEPT !.hf = ref]

\* The page fills the cache directory in from /config when it has loaded.
PrefillCacheDir(f, configured) ==
    [f EXCEPT !.opt["hf_cache_dir"] = IF configured = NoValue \/ @ # Blank THEN @ ELSE configured]

FormCpuMoe(f) ==
    CASE f.moe = "all"                          -> "all"
      [] f.moe = "custom" /\ f.moe_n # Blank    -> f.moe_n
      [] OTHER                                  -> NoValue

Options(f) ==
    [o \in Nums \cup Texts \cup CacheTypes |->
        IF o \in CacheTypes THEN NoValue ELSE Value(f.opt[o])]

\* The body of POST /host/launch.
LaunchBody(f) ==
    [model_hf   |-> Value(f.hf),
     model_path |-> IF f.hf = Blank THEN Value(f.path) ELSE NoValue,
     cpu_moe |-> FormCpuMoe(f), no_mmap |-> f.no_mmap, opt |-> Options(f)]

CurrentModelRef(f) == IF f.hf # Blank THEN f.hf ELSE f.path

\* The body of POST /profiles, which is also the profile that is stored.
ProfileBody(f) ==
    [model |-> CurrentModelRef(f),
     cpu_moe |-> FormCpuMoe(f), no_mmap |-> f.no_mmap, opt |-> Options(f)]

\* Mutant: the repository field keeps what it held.
FillKeepingHf(f, m) ==
    IF LooksLikePath(m) THEN [f EXCEPT !.path = m] ELSE [f EXCEPT !.hf = m, !.path = Blank]

FillModel(f, m) ==
    IF LooksLikePath(m) THEN [f EXCEPT !.path = m, !.hf = Blank]
                        ELSE [f EXCEPT !.hf = m, !.path = Blank]

\* A number of CPU layers that the selector does not need stays behind.
FillCpuMoe(f, moe) ==
    CASE moe = "all" -> [f EXCEPT !.moe = "all"]
      [] moe \in Numerals -> [f EXCEPT !.moe = "custom", !.moe_n = moe]
      [] OTHER       -> [f EXCEPT !.moe = Blank]

\* The form f is overwritten with a profile.
FillFormFromProfile(f, p) ==
    [FillCpuMoe(FillModel(f, p.model), p.cpu_moe) EXCEPT
        !.no_mmap = p.no_mmap,
        !.opt = [o \in Nums \cup Texts |-> Text(p.opt[o])]]

\* Mutant: a plan can tick the box, not clear it.
FillTickingOnly(f, p) ==
    [FillCpuMoe(f, p.cpu_moe) EXCEPT
        !.no_mmap = @ \/ p.no_mmap,
        !.opt = [o \in DOMAIN @ |-> IF o \in DOMAIN p.opt /\ p.opt[o] # NoValue THEN p.opt[o] ELSE @[o]]]

\* btn-suggest writes a plan into the form f; what the plan has no value for
\* stays.
FillFormFromPlan(f, p) ==
    [FillCpuMoe(f, p.cpu_moe) EXCEPT
        !.no_mmap = p.no_mmap,
        !.opt = [o \in DOMAIN @ |-> IF o \in DOMAIN p.opt /\ p.opt[o] # NoValue THEN p.opt[o] ELSE @[o]]]

-----------------------------------------------------------------------------
(* The server.                                                             *)

\* A body with a number that is no u32 is turned away before any handler.
Accepted(body) == \A o \in Nums : body.opt[o] # Negative

\* Mutant: every profile's model is taken for a repository.
RequestForHf(p) ==
    [model_hf |-> Value(p.model), model_path |-> NoValue,
     cpu_moe |-> p.cpu_moe, no_mmap |-> p.no_mmap, opt |-> p.opt]

LaunchRequestFromProfile(p) ==
    [model_hf   |-> IF LooksLikePath(p.model) THEN NoValue ELSE Value(p.model),
     model_path |-> IF LooksLikePath(p.model) THEN p.model ELSE NoValue,
     cpu_moe |-> p.cpu_moe, no_mmap |-> p.no_mmap, opt |-> p.opt]

\* resolve_launch_model: what is cached is loaded, what is not is left to
\* llama-server to download.  The request's cache directory goes before the
\* configured one.
ResolveLaunchModel(req, configured, disk) ==
    LET cache  == IF req.opt["hf_cache_dir"] # NoValue THEN req.opt["hf_cache_dir"] ELSE configured
        cached == IF cache = NoValue THEN NoFile
                  ELSE ResolveHfInCache(cache, HfRef(req.model_hf), disk)
    IN  CASE req.model_hf # NoValue /\ cached # NoFile              -> Local(cached)
          [] req.model_hf # NoValue /\ cached = NoFile              -> Hf(req.model_hf)
          [] req.model_hf = NoValue /\ req.model_path # NoValue        -> ResolveModelPath(req.model_path, disk)
          [] req.model_hf = NoValue /\ req.model_path = NoValue        -> Refused

CpuMoe(req) ==
    CASE req.cpu_moe = "all" -> {<<"--cpu-moe", "">>}
      [] req.cpu_moe \in Numerals -> {<<"--n-cpu-moe", req.cpu_moe>>}
      [] OTHER               -> {}

\* build_launch_spec and llama_server_spec: the options as a set of switches.
\* The binary, the host, the port and the endpoints are not the form's.
LlamaServerSpec(req, model) ==
    {<<model.kind, model.ref>>}
    \cup {<<o, req.opt[o]>> : o \in {p \in DOMAIN req.opt \ {"hf_cache_dir"} : req.opt[p] # NoValue}}
    \cup CpuMoe(req)
    \cup IF req.no_mmap THEN {<<"--no-mmap", "">>} ELSE {}

HostLaunch(req, configured, disk) ==
    LET model == ResolveLaunchModel(req, configured, disk)
    IN  IF model = Refused THEN {} ELSE LlamaServerSpec(req, model)

LaunchProfile(p, configured, disk) ==
    HostLaunch(LaunchRequestFromProfile(p), configured, disk)

-----------------------------------------------------------------------------
\* The model reference is in the field its looks belong to.
Plain(f) == (f.hf # Blank /\ ~LooksLikePath(f.hf)) \/ (f.hf = Blank /\ LooksLikePath(f.path))

\* Launching a profile saved from the form runs llama-server just as
\* launching the form does; a form that cannot be saved cannot be launched.
ProfileIsForm(f, configured, disk) ==
    /\ Accepted(LaunchBody(f)) <=> Accepted(ProfileBody(f))
    /\ Plain(f) =>
         LaunchProfile(ProfileBody(f), configured, disk) = HostLaunch(LaunchBody(f), configured, disk)

\* Loading a profile that was saved from form f over whatever the form held
\* before, and launching, runs it just the same: nothing left behind in the
\* form counts.
LoadForgetsForm(before, f, configured, disk) ==
    Plain(f) =>
        HostLaunch(LaunchBody(FillFormFromProfile(before, ProfileBody(f))), configured, disk)
            = LaunchProfile(ProfileBody(f), configured, disk)

\* A launch that follows a suggestion runs llama-server as planned, whatever
\* the form held before: each of the plan's values is there, the experts
\* and --no-mmap are the plan's alone.
PlanIsLaunched(before, p) ==
    LET spec == LlamaServerSpec(LaunchBody(FillFormFromPlan(before, p)), Hf("org/m"))
        planned(s) == s[1] \in {"--cpu-moe", "--n-cpu-moe", "--no-mmap"}
                         \cup {o \in DOMAIN p.opt : p.opt[o] # NoValue}
    IN  {s \in spec : planned(s)}
            = CpuMoe(p) \cup (IF p.no_mmap THEN {<<"--no-mmap", "">>} ELSE {})
                  \cup {<<o, p.opt[o]>> : o \in {q \in DOMAIN p.opt : p.opt[q] # NoValue}}
=============================================================================
