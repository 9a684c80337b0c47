---------------------------- MODULE CockpitProofs ----------------------------
(***************************************************************************)
(* Theorems about the cockpit tab, for any number of processes, polls,     *)
(* intervals and ports: no interval is ever forgotten, however many clicks *)
(* wait for their answers at once, whatever those are and in whatever      *)
(* order they come.                                                        *)
(***************************************************************************)
EXTENDS Cockpit, TLAPS

TabInv == TypeOK /\ NoStrayTimer

-----------------------------------------------------------------------------
LEMMA TabInit == Init => TabInv
  BY DEF Init, TabInv, TypeOK, NoStrayTimer, CallStages, PollStages, Shown,
         Slot!Init, Slot!TypeOK, Slot!Statuses

\* What the slot may do keeps its types.
LEMMA SlotTypes ==
  ASSUME Slot!TypeOK, (\E c \in Children : Slot!Start(c)) \/ Slot!Stop \/ Slot!Die \/ Slot!Report \/ UNCHANGED slot
  PROVE  Slot!TypeOK'
<1>1. ASSUME NEW c \in Children, Slot!Start(c) PROVE Slot!TypeOK'
  BY <1>1 DEF Slot!Start, Slot!TypeOK, Slot!Statuses
<1>2. CASE Slot!Stop
  BY <1>2 DEF Slot!Stop, Slot!TypeOK, Slot!Statuses
<1>3. CASE Slot!Die
  BY <1>3 DEF Slot!Die, Slot!TypeOK, Slot!Statuses
<1>4. CASE Slot!Report
  BY <1>4 DEF Slot!Report, Slot!TypeOK, Slot!Statuses
<1>5. CASE UNCHANGED slot
  BY <1>5 DEF slot, Slot!TypeOK, Slot!Statuses
<1> QED
  BY <1>1, <1>2, <1>3, <1>4, <1>5

\* A click, what its handler does, and its answer.
LEMMA CallKeepsTab ==
  ASSUME TabInv, NEW k \in Calls, ClickLaunch(k) \/ ClickStop(k) \/ Handle(k) \/ Answer(k)
  PROVE  TabInv'
<1> USE CockpitAssumption DEF TabInv, TypeOK, NoStrayTimer, CallStages, Shown, host, page, clicks
<1>1. CASE ClickLaunch(k)
  BY <1>1, SlotTypes DEF ClickLaunch
<1>2. CASE ClickStop(k)
  BY <1>2, SlotTypes DEF ClickStop, StopHealthPolling
<1>3. CASE ReadConfig(k)
  BY <1>3, SlotTypes DEF ReadConfig
<1>4. CASE StartServer(k)
  <2>1. PICK c \in Children : Slot!Start(c) /\ loaded' = loaded \ {c} /\ at' = [at EXCEPT ![c] = portRead[k]]
    BY <1>4 DEF StartServer
  <2>2. Slot!TypeOK'
    BY <2>1, SlotTypes
  <2> QED
    BY <1>4, <2>1, <2>2 DEF StartServer
<1>5. CASE StartFails(k)
  BY <1>5, SlotTypes DEF StartFails
<1>6. CASE HostStop(k)
  <2>1. Slot!TypeOK'
    BY <1>6, SlotTypes DEF HostStop
  <2> QED
    BY <1>6, <2>1 DEF HostStop
<1>7. CASE LaunchAnswer(k)
  <2>1. PICK p \in Polls : Fetch(p)
    BY <1>7 DEF LaunchAnswer
  <2>2. PICK t \in Timers : StartHealthPolling(t)
    BY <1>7 DEF LaunchAnswer
  <2>3. healthTimer' \in Timers /\ intervals' = {healthTimer'}
    BY <2>2 DEF StartHealthPolling
  <2> QED
    BY <1>7, <2>1, <2>3, SlotTypes DEF LaunchAnswer, Done, Fetch, PollStages
<1>8. CASE CallRefused(k) \/ CallLost(k) \/ StopAnswer(k)
  BY <1>8, SlotTypes DEF CallRefused, CallLost, StopAnswer, Done
<1> QED
  BY <1>1, <1>2, <1>3, <1>4, <1>5, <1>6, <1>7, <1>8 DEF Handle, Answer

\* A health poll, what the host answers, and the arrival of the answer.
LEMMA PollKeepsTab ==
  ASSUME TabInv, NEW p \in Polls, Tick(p) \/ HostHealth(p) \/ HealthAnswer(p) \/ HealthLost(p)
  PROVE  TabInv'
<1> USE CockpitAssumption DEF TabInv, TypeOK, NoStrayTimer, PollStages, Shown, host, page, clicks
<1>1. CASE Tick(p)
  BY <1>1, SlotTypes DEF Tick, Fetch
<1>2. CASE HostHealth(p)
  BY <1>2, SlotTypes DEF HostHealth
<1>3. CASE HealthAnswer(p)
  BY <1>3, SlotTypes DEF HealthAnswer, StopHealthPolling
<1>4. CASE HealthLost(p)
  BY <1>4, SlotTypes DEF HealthLost
<1> QED
  BY <1>1, <1>2, <1>3, <1>4

LEMMA TabStep == TabInv /\ [Next]_vars => TabInv'
<1> SUFFICES ASSUME TabInv, [Next]_vars PROVE TabInv'
  OBVIOUS
<1>1. ASSUME NEW k \in Calls, ClickLaunch(k) \/ ClickStop(k) \/ Handle(k) \/ Answer(k) PROVE TabInv'
  BY <1>1, CallKeepsTab
<1>2. ASSUME NEW p \in Polls, Tick(p) \/ HostHealth(p) \/ HealthAnswer(p) \/ HealthLost(p) PROVE TabInv'
  BY <1>2, PollKeepsTab
<1>3. CASE LoadModel
  <2>1. PICK c \in procs \ loaded : loaded' = loaded \cup {c}
    BY <1>3 DEF LoadModel
  <2>2. loaded' \subseteq Children
    BY <2>1 DEF TabInv, TypeOK, Slot!TypeOK
  <2> QED
    BY <1>3, <2>2, SlotTypes DEF LoadModel, TabInv, TypeOK, NoStrayTimer, page, clicks
<1>6. CASE MovePort
  BY <1>6, SlotTypes DEF MovePort, TabInv, TypeOK, NoStrayTimer, page, clicks
<1>4. CASE Die \/ Report
  BY <1>4, SlotTypes DEF Die, Report, TabInv, TypeOK, NoStrayTimer, host, page, clicks
<1>5. CASE UNCHANGED vars
  BY <1>5, SlotTypes DEF vars, TabInv, TypeOK, NoStrayTimer, host, page, clicks
<1> QED
  BY <1>1, <1>2, <1>3, <1>4, <1>5, <1>6 DEF Next

LEMMA TabInvariance == Spec => []TabInv
  BY TabInit, TabStep, PTL DEF Spec

-----------------------------------------------------------------------------
\* The types of the tab's, the calls' and the slot's state hold.
THEOREM CockpitTypes == Spec => []TypeOK
  BY TabInvariance, PTL DEF TabInv

\* startHealthPolling and stopHealthPolling: whatever is clicked, answered,
\* refused or lost, the interval that fires is the one healthTimer holds.
THEOREM NoTimerIsLost == Spec => []NoStrayTimer
  BY TabInvariance, PTL DEF TabInv
=============================================================================
