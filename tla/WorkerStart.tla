----------------------------- MODULE WorkerStart -----------------------------
(***************************************************************************)
(* The two ways a worker's rpc-server is started: by main for --worker,    *)
(* and by the "Start worker" button (worker_start_handler), both with what *)
(* the configuration says after apply_cli_overrides.  Ports are left out.  *)
(***************************************************************************)
LOCAL INSTANCE Naturals
LOCAL INSTANCE Sequences
INSTANCE CliArgs

Unset == "none"

\* What airpcez.toml may say.
Files ==
    {[f \in FlagTokens \cup {"rpc_binary", "rpc_device"} |->
        CASE f = "--advertise-gpu" -> adv [] f = "rpc_binary" -> bin [] f = "rpc_device" -> dev
          [] OTHER -> Settings[f]] :
        adv \in {"true", "false"}, bin \in {Unset, "/b/rpc-server"}, dev \in {Unset, "CPU"}}

\* Every Apple Silicon Mac has a GPU; other machines have one or none.
Machines == {m \in [apple : BOOLEAN, gpu : BOOLEAN] : m.apple => m.gpu}

-----------------------------------------------------------------------------
WorkerMode(args) == \E i \in DOMAIN args : args[i] = "--worker"

\* main: the configuration this run starts with.
Boot(file, args) ==
    LET loaded == Overrides(file, args)
    IN  IF WorkerMode(args) THEN [loaded EXCEPT !["--role"] = "worker"] ELSE loaded

\* rpc_binary_path; a directory stands for the rpc-server in it.
RpcBinaryPath(c) ==
    CASE c["rpc_binary"] # Unset                              -> c["rpc_binary"]
      [] c["rpc_binary"] = Unset /\ c["--llama-dir"] # Unset  -> c["--llama-dir"]
      [] c["rpc_binary"] = Unset /\ c["--llama-dir"] = Unset  -> "rpc-server"

RpcDeviceFilter(c, machine) ==
    IF c["rpc_device"] # Unset THEN c["rpc_device"]
    ELSE IF c["--advertise-gpu"] = "false" THEN "CPU"
    ELSE IF machine.apple THEN "MTL0" ELSE Unset

RpcServerSpec(binary, device) == [program |-> binary, device |-> device]

Autostart(c, machine) == RpcServerSpec(RpcBinaryPath(c), RpcDeviceFilter(c, machine))

\* Mutant: a request without a device is started without one.
StartAsAsked(req, c, machine) == RpcServerSpec(req.binary, req.device)

WorkerStartHandler(req, c, machine) ==
    RpcServerSpec(req.binary, IF req.device # Unset THEN req.device ELSE RpcDeviceFilter(c, machine))

\* What rpc-server offers: the device it was given, else the GPU if it can.
Offers(spec, machine) ==
    IF spec.device = "CPU" \/ (spec.device = Unset /\ ~machine.gpu) THEN "cpu" ELSE "gpu"

\* What /stats makes of the machine (LocalStats::sample).
Advertises(c, machine) == IF c["--advertise-gpu"] = "true" /\ machine.gpu THEN "gpu" ELSE "cpu"

-----------------------------------------------------------------------------
\* Where nobody names a device, a worker started either way offers just the
\* kind of device its /stats advertises, whatever the file says and whatever
\* the command line makes of it.
ServesAdvertised(args) ==
    \A file \in Files, m \in Machines :
        LET c == Boot(file, args)
            button == WorkerStartHandler([binary |-> "rpc-server", device |-> Unset], c, m)
            started == {button} \cup (IF WorkerMode(args) THEN {Autostart(c, m)} ELSE {})
        IN  c["rpc_device"] = Unset => \A spec \in started : Offers(spec, m) = Advertises(c, m)
=============================================================================
