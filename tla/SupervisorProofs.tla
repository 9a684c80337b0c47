-------------------------- MODULE SupervisorProofs --------------------------
(***************************************************************************)
(* Proofs about Supervisor, for any numbers of callers and children.       *)
(***************************************************************************)
EXTENDS Supervisor, TLAPS

-----------------------------------------------------------------------------
(* The inductive invariant.                                                *)

\* A caller is where its function can be, and holds something exactly there.
CallersInv ==
    /\ \A s \in Starters : /\ pc[s] \in {"idle", "spawn", "publish"}
                           /\ pc[s] = "publish" => mine[s] \in Children
    /\ \A p \in Stoppers : /\ pc[p] \in {"idle", "send"}
                           /\ pc[p] = "send" => mine[p] \in Children

\* A child between spawn and publication has one starter and no monitor.
HeldInv ==
    /\ \A s \in Starters, c \in Children :
          Holds(s, "publish", c) => /\ proc[c] # "unborn"
                                    /\ mon[c] = "none"
                                    /\ rx[c] = "open"
    /\ \A s, t \in Starters, c \in Children :
          Holds(s, "publish", c) /\ Holds(t, "publish", c) => s = t

\* A child not yet created has neither monitor nor used channel.
UnbornInv ==
    \A c \in Children : proc[c] = "unborn" => mon[c] = "none" /\ rx[c] = "open"

\* A sender in a stopper's hands was published and is no longer stored.
TakenInv ==
    \A p \in Stoppers, c \in Children :
        Holds(p, "send", c) => mon[c] # "none" /\ killTx # c

\* A monitor is past its select or its kill only when its child is gone.
ReapedInv ==
    \A c \in Children : mon[c] \in {"exited", "reaped", "done"} => proc[c] = "dead"

\* A monitor kills only when its channel resolved.
KillInv ==
    \A c \in Children : mon[c] \in {"killing", "reaped"} => rx[c] # "open"

SupInv ==
    /\ TypeOK
    /\ CallersInv
    /\ HeldInv
    /\ UnbornInv
    /\ TakenInv
    /\ ReapedInv
    /\ KillInv
    /\ StoredSenderIsCurrent
    /\ NoLeak
    /\ RunningIsWatched

-----------------------------------------------------------------------------
\* Nothing has been started in an initial state, so the invariant holds.
LEMMA InitInv == Init => SupInv
  BY SupervisorAssumption
  DEF Init, SupInv, TypeOK, CallersInv, HeldInv, UnbornInv, TakenInv, ReapedInv,
      KillInv, StoredSenderIsCurrent, NoLeak, RunningIsWatched, Holds, Reachable,
      Callers, Statuses, Watching

\* Every step of a caller, a child or a monitor keeps the types.
LEMMA TypeStep == TypeOK /\ CallersInv /\ [Next]_vars => TypeOK'
<1> SUFFICES ASSUME TypeOK, CallersInv, [Next]_vars PROVE TypeOK'
  OBVIOUS
<1> USE SupervisorAssumption DEF TypeOK, Callers, Statuses, Watching, Dropped
<1>1. ASSUME NEW s \in Starters, StartCheck(s) \/ StarterStep(s) PROVE TypeOK'
  BY <1>1 DEF CallersInv, StartCheck, StarterStep, Spawn, SpawnFails, Publish
<1>2. ASSUME NEW p \in Stoppers, StopTake(p) \/ StopSend(p) PROVE TypeOK'
  BY <1>2 DEF CallersInv, StopTake, StopSend
<1>3. ASSUME NEW c \in Children, Exit(c) \/ Monitor(c) PROVE TypeOK'
  BY <1>3 DEF Exit, Monitor, ObserveExit, RecordExit, ObserveKill, KillAndReap, RecordKill
<1>4. CASE UNCHANGED vars
  BY <1>4 DEF vars
<1> QED
  BY <1>1, <1>2, <1>3, <1>4 DEF Next

-----------------------------------------------------------------------------
(* Every kind of step keeps the rest of the invariant.                     *)

\* The invariant without its types, which TypeStep covers.
Rest == /\ CallersInv /\ HeldInv /\ UnbornInv /\ TakenInv /\ ReapedInv
        /\ KillInv /\ StoredSenderIsCurrent /\ NoLeak /\ RunningIsWatched

\* start: checking, spawning and publishing keep the invariant.
LEMMA StarterInv ==
  ASSUME SupInv, TypeOK', NEW s \in Starters, StartCheck(s) \/ StarterStep(s)
  PROVE  Rest'
<1> USE SupervisorAssumption
    DEF SupInv, Rest, TypeOK, Callers, CallersInv, HeldInv, UnbornInv, TakenInv, ReapedInv,
        KillInv, StoredSenderIsCurrent, NoLeak, RunningIsWatched, Holds, Reachable
<1>1. CASE StartCheck(s)
  BY <1>1 DEF StartCheck
<1>2. CASE SpawnFails(s)
  BY <1>2 DEF SpawnFails
<1>3. ASSUME NEW c \in Children, Spawn(s, c) PROVE Rest'
  BY <1>3 DEF Spawn
<1>4. CASE Publish(s)
  BY <1>4 DEF Publish, Dropped, Watching
<1> QED
  BY <1>1, <1>2, <1>3, <1>4 DEF StarterStep

\* stop: taking the sender and sending on it keep the invariant.
LEMMA StopperInv ==
  ASSUME SupInv, TypeOK', NEW p \in Stoppers, StopTake(p) \/ StopSend(p)
  PROVE  Rest'
<1> USE SupervisorAssumption
    DEF SupInv, Rest, TypeOK, Callers, CallersInv, HeldInv, UnbornInv, TakenInv, ReapedInv,
        KillInv, StoredSenderIsCurrent, NoLeak, RunningIsWatched, Holds, Reachable
<1>1. CASE StopTake(p)
  BY <1>1 DEF StopTake, Watching
<1>2. CASE StopSend(p)
  BY <1>2 DEF StopSend, Watching
<1> QED
  BY <1>1, <1>2

\* Children and monitors keep the invariant.
LEMMA MonitorInv ==
  ASSUME SupInv, TypeOK', NEW c \in Children, Exit(c) \/ Monitor(c)
  PROVE  Rest'
<1> USE SupervisorAssumption
    DEF SupInv, Rest, TypeOK, Callers, CallersInv, HeldInv, UnbornInv, TakenInv, ReapedInv,
        KillInv, StoredSenderIsCurrent, NoLeak, RunningIsWatched, Holds, Reachable, Watching
<1>1. CASE Exit(c)
  BY <1>1 DEF Exit
<1>2. CASE ObserveExit(c)
  BY <1>2 DEF ObserveExit
<1>3. CASE RecordExit(c)
  BY <1>3 DEF RecordExit, Dropped
<1>4. CASE ObserveKill(c)
  BY <1>4 DEF ObserveKill
<1>5. CASE KillAndReap(c)
  BY <1>5 DEF KillAndReap
<1>6. CASE RecordKill(c)
  BY <1>6 DEF RecordKill, Dropped
<1> QED
  BY <1>1, <1>2, <1>3, <1>4, <1>5, <1>6 DEF Monitor

\* The invariant is inductive.
LEMMA StepInv == SupInv /\ [Next]_vars => SupInv'
<1> SUFFICES ASSUME SupInv, [Next]_vars PROVE SupInv'
  OBVIOUS
<1>1. TypeOK'
  BY TypeStep DEF SupInv
<1>2. CASE Next
  BY <1>1, <1>2, StarterInv, StopperInv, MonitorInv DEF Next, SupInv, Rest
<1>3. CASE UNCHANGED vars
  BY <1>3 DEF SupInv, vars, TypeOK, CallersInv, HeldInv, UnbornInv, TakenInv, ReapedInv,
      KillInv, StoredSenderIsCurrent, NoLeak, RunningIsWatched, Holds, Reachable, Callers
<1> QED
  BY <1>2, <1>3

\* The invariant holds in every state of every behaviour.
THEOREM Invariance == Spec => []SupInv
  BY InitInv, StepInv, PTL DEF Spec

\* Type correctness.
THEOREM TypeCorrect == Spec => []TypeOK
<1>1. SupInv => TypeOK
  BY DEF SupInv
<1> QED
  BY Invariance, <1>1, PTL

\* However many starts and stops race, no child is leaked: a live one can be
\* ended through the supervisor.
THEOREM NoChildLeaks == Spec => []NoLeak
<1>1. SupInv => NoLeak
  BY DEF SupInv
<1> QED
  BY Invariance, <1>1, PTL

\* A stored sender always belongs to the run the status reports.
THEOREM StoredSenderSafe == Spec => []StoredSenderIsCurrent
<1>1. SupInv => StoredSenderIsCurrent
  BY DEF SupInv
<1> QED
  BY Invariance, <1>1, PTL

\* The status is never Running without a monitor left to change it, so the
\* supervisor never refuses every later start.
THEOREM NeverStuckRunning == Spec => []RunningIsWatched
<1>1. SupInv => RunningIsWatched
  BY DEF SupInv
<1> QED
  BY Invariance, <1>1, PTL

\* Whatever raced before, once the calls have returned and the monitors have
\* settled the status tells the truth about the children that are alive.
THEOREM QuietTruth == Spec => []QuietIsTruthful
<1>1. SupInv => QuietIsTruthful
  BY SupervisorAssumption
  DEF SupInv, QuietIsTruthful, Quiet, NoLeak, Reachable, Holds, Callers, StoredSenderIsCurrent
<1> QED
  BY Invariance, <1>1, PTL

-----------------------------------------------------------------------------
(* A supervisor whose start has one caller at a time.                      *)

\* While its only starter is past the guard, and whenever the status is not
\* Running, nothing is being watched; a published child that lives is
\* watched; and only one child is.
SlotInv ==
    /\ \A s \in Starters : pc[s] # "idle" => status # "Running"
    /\ status # "Running" => \A c \in Children : mon[c] \notin Watching
    /\ \A c, d \in Children : mon[c] \in Watching /\ mon[d] \in Watching => c = d

\* With one starter, every step keeps the slot invariant.
LEMMA SlotStep ==
  ASSUME \A s, t \in Starters : s = t
  PROVE  SupInv /\ SlotInv /\ [Next]_vars => SlotInv'
<1> SUFFICES ASSUME SupInv, SlotInv, [Next]_vars PROVE SlotInv'
  OBVIOUS
<1> USE SupervisorAssumption DEF SlotInv, SupInv, TypeOK, CallersInv, Callers
<1>1. ASSUME NEW s \in Starters, StartCheck(s) \/ SpawnFails(s) PROVE SlotInv'
  BY <1>1 DEF StartCheck, SpawnFails
<1>2. ASSUME NEW s \in Starters, NEW c \in Children, Spawn(s, c) PROVE SlotInv'
  BY <1>2 DEF Spawn
<1>3. ASSUME NEW s \in Starters, Publish(s) PROVE SlotInv'
  BY <1>3 DEF Publish
<1>4. ASSUME NEW p \in Stoppers, StopTake(p) \/ StopSend(p) PROVE SlotInv'
  BY <1>4 DEF StopTake, StopSend
<1>5. ASSUME NEW c \in Children, Exit(c) \/ ObserveExit(c) \/ ObserveKill(c) \/ KillAndReap(c)
      PROVE SlotInv'
  BY <1>5 DEF Exit, ObserveExit, ObserveKill, KillAndReap, Watching
<1>6. ASSUME NEW c \in Children, RecordExit(c) \/ RecordKill(c) PROVE SlotInv'
  BY <1>6 DEF RecordExit, RecordKill, Watching
<1>7. CASE UNCHANGED vars
  BY <1>7 DEF vars
<1> QED
  BY <1>1, <1>2, <1>3, <1>4, <1>5, <1>6, <1>7 DEF Next, StarterStep, Monitor

\* With one starter, the slot invariant holds throughout.
LEMMA SlotInvariance ==
  ASSUME \A s, t \in Starters : s = t
  PROVE  Spec => [](SupInv /\ SlotInv)
<1>1. Init => SlotInv
  BY DEF Init, SlotInv, Callers, Watching
<1> QED
  BY <1>1, InitInv, StepInv, SlotStep, PTL DEF Spec

\* With one starter, at most one published child is alive, and none when the
\* status is not Running.
THEOREM OneChildSafe ==
  ASSUME \A s, t \in Starters : s = t
  PROVE  Spec => []OneChild
<1>1. SupInv /\ SlotInv => OneChild
  BY DEF SupInv, SlotInv, OneChild, Alive, Published, TypeOK, ReapedInv, Watching
<1> QED
  BY SlotInvariance, <1>1, PTL

\* With one starter, no start publishes a child while the status is Running:
\* the guard does what its comment says.
THEOREM RejectSafe ==
  ASSUME \A s, t \in Starters : s = t
  PROVE  Spec => RejectWhileRunning
<1>1. SlotInv => \A s \in Starters : Publish(s) => status # "Running"
  BY DEF SlotInv, Publish
<1> QED
  BY SlotInvariance, <1>1, PTL DEF RejectWhileRunning

-----------------------------------------------------------------------------
(* The supervisor with one starter implements the trait's promise.         *)

\* With one starter, every step is a step of ProcessBackend or a stutter.
LEMMA BackendStep ==
  ASSUME \A s, t \in Starters : s = t
  PROVE  SupInv /\ SlotInv /\ SlotInv' /\ SupInv' /\ [Next]_vars
            => [Backend!Next]_(Backend!vars)
<1> SUFFICES ASSUME SupInv, SlotInv, SlotInv', SupInv', [Next]_vars
             PROVE  [Backend!Next]_(Backend!vars)
  OBVIOUS
<1> USE SupervisorAssumption DEF SupInv, SlotInv, TypeOK, CallersInv, Callers, Alive, Published
<1>1. ASSUME NEW s \in Starters, StartCheck(s) \/ SpawnFails(s)
      PROVE  UNCHANGED Backend!vars
  BY <1>1 DEF StartCheck, SpawnFails, Backend!vars
<1>2. ASSUME NEW s \in Starters, NEW c \in Children, Spawn(s, c)
      PROVE  UNCHANGED Backend!vars
  BY <1>2 DEF Spawn, UnbornInv, Backend!vars
<1>3. ASSUME NEW s \in Starters, Publish(s)
      PROVE  \E c \in Children : Backend!Start(c)
  <2>1. status # "Running" /\ status' = "Running" /\ mine[s] \in Children /\ killTx' # None
    BY <1>3 DEF Publish
  <2>2. Alive = {}
    BY <2>1 DEF ReapedInv, Watching
  <2>3. Alive' \in {{mine[s]}, {}}
    BY <1>3, <2>1, <2>2 DEF Publish
  <2> QED
    BY <2>1, <2>2, <2>3 DEF Backend!Start
<1>4. ASSUME NEW p \in Stoppers, StopTake(p) PROVE Backend!Stop
  BY <1>4 DEF StopTake, StoredSenderIsCurrent, Backend!Stop
<1>5. ASSUME NEW p \in Stoppers, StopSend(p) PROVE UNCHANGED Backend!vars
  BY <1>5 DEF StopSend, Backend!vars
<1>6. ASSUME NEW c \in Children, mon[c] \in Watching PROVE Alive \subseteq {c}
  BY <1>6 DEF ReapedInv, Watching
<1>7. ASSUME NEW c \in Children, Exit(c) \/ KillAndReap(c)
      PROVE  Backend!Die \/ UNCHANGED Backend!vars
  <2>1. UNCHANGED <<status, killTx>> /\ Published' = Published
    BY <1>7 DEF Exit, KillAndReap
  <2>2. proc' = [proc EXCEPT ![c] = "dead"]
    BY <1>7 DEF Exit, KillAndReap
  <2>3. Alive' = Alive \/ (Alive # {} /\ Alive' = {})
    BY <1>6, <2>1, <2>2 DEF ReapedInv, Watching
  <2> QED
    BY <2>1, <2>3 DEF Backend!Die, Backend!vars
<1>8. ASSUME NEW c \in Children, ObserveExit(c) \/ ObserveKill(c)
      PROVE  UNCHANGED Backend!vars
  BY <1>8 DEF ObserveExit, ObserveKill, Backend!vars
<1>9. ASSUME NEW c \in Children, RecordExit(c) \/ RecordKill(c) PROVE Backend!Report
  <2>1. mon[c] \in {"exited", "reaped"} /\ UNCHANGED proc
    BY <1>9 DEF RecordExit, RecordKill
  <2>2. status = "Running" /\ status' # "Running"
    BY <1>9, <2>1 DEF Watching, RecordExit, RecordKill
  <2>3. Alive = {} /\ Alive' = {}
    BY <1>6, <1>9, <2>1 DEF ReapedInv, Watching, RecordExit, RecordKill
  <2>4. mon[c] = "reaped" => killTx = None
    BY DEF StoredSenderIsCurrent, Watching
  <2> QED
    BY <1>9, <2>2, <2>3, <2>4 DEF RecordExit, RecordKill, Backend!Report
<1>10. CASE UNCHANGED vars
  BY <1>10 DEF vars, Backend!vars
<1>11. CASE Next
  <2>1. ASSUME NEW s \in Starters, StartCheck(s) \/ StarterStep(s)
        PROVE  [Backend!Next]_(Backend!vars)
    BY <1>1, <1>2, <1>3, <2>1 DEF StarterStep, Backend!Next
  <2>2. ASSUME NEW p \in Stoppers, StopTake(p) \/ StopSend(p)
        PROVE  [Backend!Next]_(Backend!vars)
    BY <1>4, <1>5, <2>2 DEF Backend!Next
  <2>3. ASSUME NEW c \in Children, Exit(c) \/ Monitor(c)
        PROVE  [Backend!Next]_(Backend!vars)
    BY <1>7, <1>8, <1>9, <2>3 DEF Monitor, Backend!Next
  <2> QED
    BY <1>11, <2>1, <2>2, <2>3 DEF Next
<1> QED
  BY <1>10, <1>11

\* With one starter, the supervisor's behaviours are, up to fairness, those
\* the trait promises.
THEOREM ImplementsBackendSafely ==
  ASSUME \A s, t \in Starters : s = t
  PROVE  Spec => Backend!Init /\ [][Backend!Next]_(Backend!vars)
<1>1. Init => Backend!Init
  BY DEF Init, Backend!Init, Alive, Published
<1> QED
  BY <1>1, SlotInvariance, BackendStep, PTL DEF Spec
=============================================================================
