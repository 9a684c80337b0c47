------------------------------ MODULE Cockpit ------------------------------
(***************************************************************************)
(* One cockpit tab (airpcez/assets/index.html) driving the host's          *)
(* llama-server: the Launch and Stop buttons, the readiness polling, and   *)
(* the handlers behind them (host_launch, host_stop, host_health in        *)
(* server.rs).  The supervisor is the slot ProcessBackend promises.  Every *)
(* request is sent, handled and answered in a step of its own, so answers  *)
(* can come back late, out of order or not at all.                         *)
(***************************************************************************)
EXTENDS Naturals

CONSTANTS Children,    \* the llama-server processes
          Ports,       \* values of llama_port
          Calls,       \* bounds the clicks that wait for an answer
          Polls,       \* bounds the /host/health requests in flight
          Timers,      \* the intervals setInterval can hand out
          None

ASSUME CockpitAssumption == None \notin Timers /\ Ports # {}

VARIABLES status, procs, stopping,    \* the slot
          loaded,        \* the processes that have loaded their model
          at,            \* the port each process was given
          llama_port,    \* the configured port
          call,          \* each clicked request, on its way or answered
          profile,       \* whether it launches a profile
          portRead,      \* the port a launch request has read
          poll,          \* each health request
          text,          \* launch-result
          healthTimer,   \* the variable of that name
          intervals      \* the intervals that fire

slot == <<status, procs, stopping>>
host == <<loaded, at, llama_port>>
page == <<text, healthTimer, intervals>>
clicks == <<call, profile>>
vars == <<slot, host, clicks, portRead, poll, page>>

Slot == INSTANCE ProcessBackend

CallStages == {"idle", "launch", "polling", "launched", "refused", "stop", "stopped"}
PollStages == {"idle", "sent", "ready", "loading"}
Shown == {"", "launching", "launching profile", "loading", "ready", "stopping", "stopped", "error"}

TypeOK ==
    /\ Slot!TypeOK
    /\ loaded \subseteq Children
    /\ at \in [Children -> Ports]
    /\ llama_port \in Ports
    /\ call \in [Calls -> CallStages]
    /\ profile \in [Calls -> BOOLEAN]
    /\ portRead \in [Calls -> Ports]
    /\ poll \in [Polls -> PollStages]
    /\ text \in Shown
    /\ healthTimer \in Timers \cup {None}
    /\ intervals \subseteq Timers

Init ==
    /\ Slot!Init
    /\ loaded = {}
    /\ llama_port \in Ports
    /\ at = [c \in Children |-> llama_port]
    /\ call = [k \in Calls |-> "idle"]
    /\ profile = [k \in Calls |-> FALSE]
    /\ portRead = [k \in Calls |-> llama_port]
    /\ poll = [p \in Polls |-> "idle"]
    /\ text = ""
    /\ healthTimer = None
    /\ intervals = {}

-----------------------------------------------------------------------------
(* The page: clicks, answers and the interval.                             *)

\* stopHealthPolling.
StopHealthPolling ==
    /\ healthTimer' = None
    /\ intervals' = intervals \ {healthTimer}

\* A fetch of /host/health, as pollHealthOnce sends it.
Fetch(p) ==
    /\ poll[p] = "idle"
    /\ poll' = [poll EXCEPT ![p] = "sent"]

Done(k) ==
    /\ call' = [call EXCEPT ![k] = "idle"]
    /\ profile' = [profile EXCEPT ![k] = FALSE]

\* btn-launch, or the Launch button of a profile.
ClickLaunch(k) ==
    /\ call[k] = "idle"
    /\ call' = [call EXCEPT ![k] = "launch"]
    /\ \E p \in BOOLEAN :
          /\ profile' = [profile EXCEPT ![k] = p]
          /\ text' = IF p THEN "launching profile" ELSE "launching"
    /\ UNCHANGED <<slot, host, portRead, poll, healthTimer, intervals>>

\* Mutant: an interval that is already set is forgotten, not cleared.
StartAnother(t) ==
    /\ t \notin intervals
    /\ healthTimer' = t
    /\ intervals' = intervals \cup {t}

\* startHealthPolling, but for its first poll.
StartHealthPolling(t) ==
    /\ t \notin intervals
    /\ healthTimer' = t
    /\ intervals' = (intervals \ {healthTimer}) \cup {t}

\* A launch was accepted: poll until the model is loaded.
LaunchAnswer(k) ==
    /\ call[k] = "launched"
    /\ Done(k)
    /\ \E p \in Polls : Fetch(p)
    /\ \E t \in Timers : StartHealthPolling(t)
    /\ UNCHANGED <<slot, host, portRead, text>>

\* Mutant: a refusal is not shown.
CallRefusedSilently(k) ==
    /\ call[k] = "refused"
    /\ Done(k)
    /\ UNCHANGED <<slot, host, portRead, poll, page>>

\* A launch was refused.  Polling that an earlier launch started goes on.
CallRefused(k) ==
    /\ call[k] = "refused"
    /\ Done(k)
    /\ text' = "error"
    /\ UNCHANGED <<slot, host, portRead, poll, healthTimer, intervals>>

\* A request or its answer got lost.  For a profile's launch the list of
\* profiles tells, and launch-result stays as it is.
CallLost(k) ==
    /\ call[k] \in {"launch", "stop", "refused", "launched", "stopped"}
    /\ Done(k)
    /\ text' = IF profile[k] THEN text ELSE "error"
    /\ UNCHANGED <<slot, host, portRead, poll, healthTimer, intervals>>

ClickStop(k) ==
    /\ call[k] = "idle"
    /\ call' = [call EXCEPT ![k] = "stop"]
    /\ StopHealthPolling
    /\ text' = "stopping"
    /\ UNCHANGED <<slot, host, profile, portRead, poll>>

StopAnswer(k) ==
    /\ call[k] = "stopped"
    /\ Done(k)
    /\ text' = "stopped"
    /\ UNCHANGED <<slot, host, portRead, poll, healthTimer, intervals>>

\* The interval fires.
Tick(p) ==
    /\ intervals # {}
    /\ Fetch(p)
    /\ UNCHANGED <<slot, host, clicks, portRead, page>>

\* Mutant: the page shows an answer without awaiting it.
AnswerUnawaited(p) ==
    /\ poll[p] # "idle"
    /\ poll' = [poll EXCEPT ![p] = "idle"]
    /\ text' = poll[p]
    /\ IF poll[p] = "ready" THEN StopHealthPolling ELSE UNCHANGED <<healthTimer, intervals>>
    /\ UNCHANGED <<slot, host, clicks, portRead>>

\* Mutant: any answer ends the polling.
AnswerEndsPolling(p) ==
    /\ poll[p] \in {"ready", "loading"}
    /\ poll' = [poll EXCEPT ![p] = "idle"]
    /\ text' = poll[p]
    /\ StopHealthPolling
    /\ UNCHANGED <<slot, host, clicks, portRead>>

HealthAnswer(p) ==
    /\ poll[p] \in {"ready", "loading"}
    /\ poll' = [poll EXCEPT ![p] = "idle"]
    /\ text' = poll[p]
    /\ IF poll[p] = "ready" THEN StopHealthPolling ELSE UNCHANGED <<healthTimer, intervals>>
    /\ UNCHANGED <<slot, host, clicks, portRead>>

\* A fetch that fails changes nothing; the next tick tries again.
HealthLost(p) ==
    /\ poll[p] # "idle"
    /\ poll' = [poll EXCEPT ![p] = "idle"]
    /\ UNCHANGED <<slot, host, clicks, portRead, page>>

-----------------------------------------------------------------------------
(* The handlers.                                                           *)

\* host_launch copies the configuration and starts polling the nodes.  A
\* model that cannot be resolved is refused.
ReadConfig(k) ==
    /\ call[k] = "launch"
    /\ portRead' = [portRead EXCEPT ![k] = llama_port]
    /\ call' \in {[call EXCEPT ![k] = s] : s \in {"polling", "refused"}}
    /\ UNCHANGED <<slot, host, profile, poll, page>>

\* The nodes have answered: start, with the port read before.
StartServer(k) ==
    /\ call[k] = "polling"
    /\ call' = [call EXCEPT ![k] = "launched"]
    /\ \E c \in Children :
          /\ Slot!Start(c)
          /\ loaded' = loaded \ {c}
          /\ at' = [at EXCEPT ![c] = portRead[k]]
    /\ UNCHANGED <<llama_port, profile, portRead, poll, page>>

\* Something runs already, or the process cannot be spawned.
StartFails(k) ==
    /\ call[k] = "polling"
    /\ call' = [call EXCEPT ![k] = "refused"]
    /\ UNCHANGED <<slot, host, profile, portRead, poll, page>>

\* host_stop; the answer is the same when there is nothing to stop.
HostStop(k) ==
    /\ call[k] = "stop"
    /\ call' = [call EXCEPT ![k] = "stopped"]
    /\ IF status = "Running" /\ ~stopping THEN Slot!Stop ELSE UNCHANGED slot
    /\ UNCHANGED <<host, profile, portRead, poll, page>>

\* A process that answers /health with 200 on the configured port.
Healthy == \E c \in procs \cap loaded : at[c] = llama_port

\* host_health.
HostHealth(p) ==
    /\ poll[p] = "sent"
    /\ poll' = [poll EXCEPT ![p] = IF Healthy THEN "ready" ELSE "loading"]
    /\ UNCHANGED <<slot, host, clicks, portRead, page>>

-----------------------------------------------------------------------------
(* The rest of the host: the process loads its model, ends, its end is     *)
(* reported, and settings move the port.                                   *)

LoadModel ==
    /\ \E c \in procs \ loaded : loaded' = loaded \cup {c}
    /\ UNCHANGED <<slot, at, llama_port, clicks, portRead, poll, page>>

Die == Slot!Die /\ UNCHANGED <<host, clicks, portRead, poll, page>>

Report == Slot!Report /\ UNCHANGED <<host, clicks, portRead, poll, page>>

MovePort ==
    /\ llama_port' \in Ports \ {llama_port}
    /\ UNCHANGED <<slot, loaded, at, clicks, portRead, poll, page>>

Handle(k) ==
    ReadConfig(k) \/ StartServer(k) \/ StartFails(k) \/ HostStop(k)

Answer(k) == LaunchAnswer(k) \/ CallRefused(k) \/ CallLost(k) \/ StopAnswer(k)

Next ==
    \/ \E k \in Calls : ClickLaunch(k) \/ ClickStop(k) \/ Handle(k) \/ Answer(k)
    \/ \E p \in Polls : Tick(p) \/ HostHealth(p) \/ HealthAnswer(p) \/ HealthLost(p)
    \/ LoadModel \/ Die \/ Report \/ MovePort

\* Handlers run and answers arrive; a poll is not lost for ever; the slot
\* does what it promises.
Fairness ==
    /\ \A k \in Calls : WF_vars(Handle(k)) /\ WF_vars(Answer(k))
    /\ \A p \in Polls : WF_vars(Tick(p)) /\ SF_vars(HostHealth(p)) /\ SF_vars(HealthAnswer(p))
    /\ WF_vars(stopping /\ Die) /\ WF_vars(Report)

Spec == Init /\ [][Next]_vars

FairSpec == Spec /\ Fairness

-----------------------------------------------------------------------------
\* startHealthPolling and stopHealthPolling: there is never an interval
\* that no variable remembers and so nothing can clear.
NoStrayTimer == intervals = {healthTimer} \ {None}

\* A tab that polls shows a model that is loaded, and stays loaded, as ready
\* (host_health: "loading... -> ready"), unless Stop is clicked first.
LoadedIsShown ==
    Healthy /\ intervals # {} ~> (text \in {"ready", "stopping"} \/ ~Healthy)

\* btn-launch: "launching" is not the last word, whatever is refused or lost.
\* (It can be after a profile's launch, whose loss is told elsewhere.)
LaunchIsAnswered == text = "launching" ~> text # "launching"

\* The tab does not stay at "loading" when the model is loaded and nobody
\* has stopped it: while it shows that, something is on its way that can
\* still change it.
LoadingIsFollowedUp ==
    Healthy /\ ~stopping /\ text = "loading" =>
        \/ intervals # {}
        \/ \E p \in Polls : poll[p] # "idle"
        \/ \E k \in Calls : call[k] # "idle"
=============================================================================
