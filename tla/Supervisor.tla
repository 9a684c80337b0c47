----------------------------- MODULE Supervisor -----------------------------
(***************************************************************************)
(* TokioSupervisor (airpcez/src/supervisor.rs): the one process slot of an *)
(* airpcez instance, in which it runs rpc-server (worker) or llama-server  *)
(* (host).  HTTP handlers call start and stop from the threads of a        *)
(* multi-threaded runtime; every started child gets a monitor task.  An    *)
(* action is what one thread does between two points where another can     *)
(* run: a section under the mutex `inner`, or a step outside it.           *)
(*                                                                         *)
(* A child stands also for the oneshot channel made with it: its sender is *)
(* in kill_tx, or in the hands of the caller that made or took it; its     *)
(* receiver belongs to the child's monitor.  The log buffer, which start,  *)
(* stop and the monitors never read, is in SupervisorLogs.                 *)
(***************************************************************************)

CONSTANTS Starters,    \* threads that call start: /worker/start, /host/launch, /profiles/:id/launch
          Stoppers,    \* threads that call stop: /worker/stop, /host/stop
          Children,    \* the processes the system can create (a bound for TLC)
          None         \* Option::None

ASSUME SupervisorAssumption ==
    /\ Starters \cap Stoppers = {}
    /\ None \notin Children

VARIABLES
    status,    \* inner.status, without its exit code and message
    killTx,    \* inner.kill_tx: the child whose sender it holds
    proc,      \* the operating system's view of each child
    rx,        \* each child's channel: "open", "sent", "closed" (sender dropped)
    mon,       \* where each child's monitor task is
    pc,        \* where each caller is
    mine       \* the child (starter) or sender (stopper) a caller holds

vars == <<status, killTx, proc, rx, mon, pc, mine>>

Callers  == Starters \cup Stoppers
Statuses == {"Stopped", "Running", "Exited", "Crashed"}
Watching == {"select", "exited", "killing", "reaped"}   \* a monitor not yet done

TypeOK ==
    /\ status \in Statuses
    /\ killTx \in Children \cup {None}
    /\ proc \in [Children -> {"unborn", "live", "dead"}]
    /\ rx   \in [Children -> {"open", "sent", "closed"}]
    /\ mon  \in [Children -> Watching \cup {"none", "done"}]
    /\ pc   \in [Callers -> {"idle", "spawn", "publish", "send"}]
    /\ mine \in [Callers -> Children \cup {None}]

Init ==
    /\ status = "Stopped"
    /\ killTx = None
    /\ proc = [c \in Children |-> "unborn"]
    /\ rx   = [c \in Children |-> "open"]
    /\ mon  = [c \in Children |-> "none"]
    /\ pc   = [a \in Callers |-> "idle"]
    /\ mine = [a \in Callers |-> None]

\* The channels once the sender stored in kill_tx has been dropped.
Dropped == [c \in Children |-> IF c = killTx THEN "closed" ELSE rx[c]]

-----------------------------------------------------------------------------
(* start.  A start that finds Running returns an error and changes nothing. *)

\* Mutant: no guard.
StartUnguarded(s) ==
    /\ pc[s] = "idle"
    /\ pc' = [pc EXCEPT ![s] = "spawn"]
    /\ UNCHANGED <<status, killTx, proc, rx, mon, mine>>

\* Mutant: the guard asks for a stored sender, which a stop in progress has
\* already taken, instead of the status.
StartUnlessSender(s) == killTx = None /\ StartUnguarded(s)

\* The guard, in a lock section of its own.
StartCheck(s) ==
    /\ pc[s] = "idle"
    /\ status # "Running"
    /\ pc' = [pc EXCEPT ![s] = "spawn"]
    /\ UNCHANGED <<status, killTx, proc, rx, mon, mine>>

Spawn(s, c) ==
    /\ pc[s] = "spawn"
    /\ proc[c] = "unborn"
    /\ proc' = [proc EXCEPT ![c] = "live"]
    /\ mine' = [mine EXCEPT ![s] = c]
    /\ pc' = [pc EXCEPT ![s] = "publish"]
    /\ UNCHANGED <<status, killTx, rx, mon>>

\* Command::spawn fails and start returns its message.
SpawnFails(s) ==
    /\ pc[s] = "spawn"
    /\ pc' = [pc EXCEPT ![s] = "idle"]
    /\ UNCHANGED <<status, killTx, proc, rx, mon, mine>>

\* Mutant: the sender that is replaced is kept somewhere, not dropped.
PublishKeepingSender(s) ==
    /\ pc[s] = "publish"
    /\ status' = "Running"
    /\ killTx' = mine[s]
    /\ mon' = [mon EXCEPT ![mine[s]] = "select"]
    /\ mine' = [mine EXCEPT ![s] = None]
    /\ pc' = [pc EXCEPT ![s] = "idle"]
    /\ UNCHANGED <<proc, rx>>

\* The second lock section stores status and sender, dropping the sender it
\* replaces; the tasks are then spawned.  A monitor may start running at any
\* later time, so spawning it needs no step of its own.
Publish(s) ==
    /\ pc[s] = "publish"
    /\ status' = "Running"
    /\ rx' = Dropped
    /\ killTx' = mine[s]
    /\ mon' = [mon EXCEPT ![mine[s]] = "select"]
    /\ mine' = [mine EXCEPT ![s] = None]
    /\ pc' = [pc EXCEPT ![s] = "idle"]
    /\ UNCHANGED proc

-----------------------------------------------------------------------------
(* stop.  A stop that finds no sender returns false and changes nothing.   *)

\* Mutant: stop reports Stopped at once, before the child is gone.
StopAtOnce(p) ==
    /\ pc[p] = "idle"
    /\ killTx # None
    /\ status' = "Stopped"
    /\ mine' = [mine EXCEPT ![p] = killTx]
    /\ killTx' = None
    /\ pc' = [pc EXCEPT ![p] = "send"]
    /\ UNCHANGED <<proc, rx, mon>>

StopTake(p) ==
    /\ pc[p] = "idle"
    /\ killTx # None
    /\ mine' = [mine EXCEPT ![p] = killTx]
    /\ killTx' = None
    /\ pc' = [pc EXCEPT ![p] = "send"]
    /\ UNCHANGED <<status, proc, rx, mon>>

\* send on the taken sender, outside the lock; stop returns true.
StopSend(p) ==
    /\ pc[p] = "send"
    /\ rx' = [rx EXCEPT ![mine[p]] = "sent"]
    /\ mine' = [mine EXCEPT ![p] = None]
    /\ pc' = [pc EXCEPT ![p] = "idle"]
    /\ UNCHANGED <<status, killTx, proc, mon>>

-----------------------------------------------------------------------------
(* The child and its monitor.                                              *)

\* A child may exit at any time.
Exit(c) ==
    /\ proc[c] = "live"
    /\ proc' = [proc EXCEPT ![c] = "dead"]
    /\ UNCHANGED <<status, killTx, rx, mon, pc, mine>>

\* select! takes the branch child.wait().
ObserveExit(c) ==
    /\ mon[c] = "select"
    /\ proc[c] = "dead"
    /\ mon' = [mon EXCEPT ![c] = "exited"]
    /\ UNCHANGED <<status, killTx, proc, rx, pc, mine>>

\* Mutant: the branch leaves the sender behind.
RecordExitOnly(c) ==
    /\ mon[c] = "exited"
    /\ mon' = [mon EXCEPT ![c] = "done"]
    /\ status' \in {"Exited", "Crashed"}
    /\ UNCHANGED <<killTx, proc, rx, pc, mine>>

\* Mutant: the branch leaves the status as it was.
RecordExitSilently(c) ==
    /\ mon[c] = "exited"
    /\ mon' = [mon EXCEPT ![c] = "done"]
    /\ rx' = Dropped
    /\ killTx' = None
    /\ UNCHANGED <<status, proc, pc, mine>>

\* The lock section of that branch clears kill_tx, whoever's sender is in it.
RecordExit(c) ==
    /\ mon[c] = "exited"
    /\ mon' = [mon EXCEPT ![c] = "done"]
    /\ status' \in {"Exited", "Crashed"}
    /\ rx' = Dropped
    /\ killTx' = None
    /\ UNCHANGED <<proc, pc, mine>>

\* Mutant: the pattern is Ok(()), which a dropped sender does not match.
ObserveMessage(c) ==
    /\ mon[c] = "select"
    /\ rx[c] = "sent"
    /\ mon' = [mon EXCEPT ![c] = "killing"]
    /\ UNCHANGED <<status, killTx, proc, rx, pc, mine>>

\* select! takes the branch kill_rx, whose pattern accepts a message and a
\* dropped sender alike.
ObserveKill(c) ==
    /\ mon[c] = "select"
    /\ rx[c] \in {"sent", "closed"}
    /\ mon' = [mon EXCEPT ![c] = "killing"]
    /\ UNCHANGED <<status, killTx, proc, rx, pc, mine>>

\* Mutant: nothing kills the child and nothing waits for it.
ReapNothing(c) ==
    /\ mon[c] = "killing"
    /\ mon' = [mon EXCEPT ![c] = "reaped"]
    /\ UNCHANGED <<status, killTx, proc, rx, pc, mine>>

\* Mutant: the child is waited for but not killed.
ReapUnkilled(c) == proc[c] = "dead" /\ ReapNothing(c)

\* child.kill().await and child.wait().await: the child is gone after them.
KillAndReap(c) ==
    /\ mon[c] = "killing"
    /\ mon' = [mon EXCEPT ![c] = "reaped"]
    /\ proc' = [proc EXCEPT ![c] = "dead"]
    /\ UNCHANGED <<status, killTx, rx, pc, mine>>

\* Mutant: a status of its own, which start and the clients do not know.
RecordKilled(c) ==
    /\ mon[c] = "reaped"
    /\ mon' = [mon EXCEPT ![c] = "done"]
    /\ status' = "Killed"
    /\ rx' = Dropped
    /\ killTx' = None
    /\ UNCHANGED <<proc, pc, mine>>

RecordKill(c) ==
    /\ mon[c] = "reaped"
    /\ mon' = [mon EXCEPT ![c] = "done"]
    /\ status' = "Stopped"
    /\ rx' = Dropped
    /\ killTx' = None
    /\ UNCHANGED <<proc, pc, mine>>

-----------------------------------------------------------------------------
StarterStep(s) == SpawnFails(s) \/ Publish(s) \/ \E c \in Children : Spawn(s, c)
Monitor(c) ==
    ObserveExit(c) \/ RecordExit(c) \/ ObserveKill(c) \/ KillAndReap(c) \/ RecordKill(c)

Next ==
    \/ \E s \in Starters : StartCheck(s) \/ StarterStep(s)
    \/ \E p \in Stoppers : StopTake(p) \/ StopSend(p)
    \/ \E c \in Children : Exit(c) \/ Monitor(c)

Spec == Init /\ [][Next]_vars

\* The runtime polls every task that is ready, and a call that has begun
\* runs to its end.  Nobody has to call start or stop, and no child has to
\* exit by itself.
Fairness ==
    /\ \A s \in Starters : WF_vars(StarterStep(s))
    /\ \A p \in Stoppers : WF_vars(StopSend(p))
    /\ \A c \in Children : WF_vars(Monitor(c))

FairSpec == Spec /\ Fairness

-----------------------------------------------------------------------------
(* Properties that hold whatever the number of concurrent callers.         *)

Holds(a, at, c) == pc[a] = at /\ mine[a] = c

\* Someone can still end this child: its sender is stored, or a caller is
\* about to store it or to send on it, or its monitor has been told.
Reachable(c) ==
    \/ killTx = c
    \/ \E s \in Starters : Holds(s, "publish", c)
    \/ \E p \in Stoppers : Holds(p, "send", c)
    \/ rx[c] \in {"sent", "closed"} /\ mon[c] \in {"select", "killing"}

\* No leak: whatever starts and stops race, a child that is alive can be
\* ended through this supervisor (supervisor.rs: start, stop, monitor).
NoLeak == \A c \in Children : proc[c] = "live" => Reachable(c)

\* A stored sender belongs to a run that has not been reported over: the
\* status says Running and the child's monitor is still there to be told.
\* So a stop that finds a sender never tells a finished run to end while a
\* newer one keeps running.
StoredSenderIsCurrent ==
    killTx # None => /\ status = "Running"
                     /\ rx[killTx] = "open"
                     /\ mon[killTx] \in {"select", "exited"}

\* Running is never a dead end: some monitor is left that will change it.
\* Otherwise start would answer "already running" for ever.
RunningIsWatched ==
    status = "Running" => \E c \in Children : mon[c] \in Watching

\* When every call has returned and every monitor is waiting or done, at
\* most the child whose sender is stored is alive, and if the status is not
\* Running, none is.
Quiet ==
    /\ \A a \in Callers : pc[a] = "idle"
    /\ \A c \in Children : \/ mon[c] \in {"none", "done"}
                           \/ mon[c] = "select" /\ rx[c] = "open"

QuietIsTruthful ==
    Quiet => \A c \in Children :
                proc[c] = "live" => killTx = c /\ status = "Running"

\* A stop that took a sender ends that child (stop's `true`).
StopEndsChild ==
    \A p \in Stoppers, c \in Children : Holds(p, "send", c) ~> proc[c] = "dead"

\* A child whose sender was dropped without a word, by a racing start or by
\* another child's monitor, does not live on unattended.
DisplacedChildDies == \A c \in Children : rx[c] = "closed" ~> proc[c] # "live"

\* The death of a watched child makes the slot free again, if only for an
\* instant.
DeathIsReported ==
    \A c \in Children :
        proc[c] = "dead" /\ mon[c] \in Watching ~> status # "Running"

-----------------------------------------------------------------------------
(* Properties of a supervisor whose start has one caller at a time.        *)

Published == {c \in Children : mon[c] # "none"}
Alive     == {c \in Published : proc[c] = "live"}

\* The slot is a slot: a child that has been published is alive only while
\* the status says Running, and there is at most one.
OneChild ==
    /\ \A c, d \in Alive : c = d
    /\ status # "Running" => Alive = {}

\* "reject if a process is already running" (the comment on start's guard):
\* no start succeeds, that is publishes its child, while the status is
\* Running.
RejectWhileRunning ==
    [][\A s \in Starters : Publish(s) => status # "Running"]_vars

\* The supervisor implements the trait's promise.
Backend == INSTANCE ProcessBackend WITH
    procs    <- Alive,
    stopping <- status = "Running" /\ killTx = None

ImplementsBackend == Backend!Spec
=============================================================================
