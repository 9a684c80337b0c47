----------------------------- MODULE IpadProofs -----------------------------
(***************************************************************************)
(* Theorems about the iPad worker, for any number of appearances, threads  *)
(* and listeners: at most one RPC thread runs, and "running" is never left *)
(* over from a thread whose end has been noted.                            *)
(***************************************************************************)
EXTENDS IpadWorker, TLAPS

\* A thread whose end has not been taken note of.
Watched(t) == thread[t] \in {"started", "serving", "ended"}

\* While one thread is watched there is no other: the guard stays closed from
\* the start of a thread to the task that reports its end.
OneWatched == \A t, u \in Threads : Watched(t) /\ Watched(u) => t = u

IpadInv == TypeOK /\ RunningIsHonest /\ OneWatched

-----------------------------------------------------------------------------
LEMMA IpadInit == Init => IpadInv
  BY DEF Init, IpadInv, TypeOK, RunningIsHonest, OneWatched, Watched

\* RpcServer.start keeps the invariant's RPC part.
LEMMA StartRpcKeeps ==
  ASSUME IpadInv, StartRpc
  PROVE  /\ metal' \in BOOLEAN /\ isListening' \in BOOLEAN /\ rpcError' \in {"none", "metal"}
         /\ thread' \in [Threads -> {"unused", "started", "serving", "ended", "reported"}]
         /\ RunningIsHonest'
         /\ OneWatched'
<1>1. CASE isListening /\ UNCHANGED rpcVars
  BY <1>1 DEF rpcVars, IpadInv, TypeOK, RunningIsHonest, OneWatched, Watched
<1>2. CASE ~isListening /\ ~metal /\ rpcError' = "metal" /\ UNCHANGED <<metal, isListening, thread>>
  BY <1>2 DEF IpadInv, TypeOK, RunningIsHonest, OneWatched, Watched
<1>3. CASE ~isListening /\ metal /\ NewThread /\ isListening' = TRUE /\ rpcError' = "none" /\ UNCHANGED metal
  <2>1. PICK t \in Threads : thread[t] = "unused" /\ thread' = [thread EXCEPT ![t] = "started"]
    BY <1>3 DEF NewThread
  <2>2. \A u \in Threads : ~Watched(u)
    BY <1>3 DEF IpadInv, RunningIsHonest, Watched
  <2>3. Watched(t)' /\ \A u \in Threads \ {t} : ~Watched(u)'
    BY <2>1, <2>2 DEF IpadInv, TypeOK, Watched
  <2> QED
    BY <1>3, <2>1, <2>3 DEF IpadInv, TypeOK, RunningIsHonest, OneWatched, Watched
<1> QED
  BY <1>1, <1>2, <1>3 DEF StartRpc

\* StatsHTTPServer.start keeps its types.
LEMMA StartHttpKeeps ==
  ASSUME IpadInv, StartHttp
  PROVE  /\ listener' \in Listeners \cup {None} /\ httpError' \in BOOLEAN
         /\ socket' \in [Listeners -> {"unused", "setup", "ready", "gone"} \cup Errors]
         /\ word' \in [Listeners -> SUBSET Errors]
<1>1. ASSUME NEW l \in Listeners, NEW dropped \in {{}, {listener}},
             listener' = l,
             socket' = [k \in Listeners |->
                           IF k = l THEN "setup" ELSE IF k \in dropped THEN "gone" ELSE socket[k]],
             UNCHANGED <<word, httpError>>
      PROVE  /\ listener' \in Listeners \cup {None} /\ httpError' \in BOOLEAN
             /\ socket' \in [Listeners -> {"unused", "setup", "ready", "gone"} \cup Errors]
             /\ word' \in [Listeners -> SUBSET Errors]
  <2>1. listener' \in Listeners \cup {None} /\ word' \in [Listeners -> SUBSET Errors]
    BY <1>1 DEF IpadInv, TypeOK
  <2>2. httpError' \in BOOLEAN
    BY <1>1, Zenon DEF IpadInv, TypeOK
  <2>3. socket' \in [Listeners -> {"unused", "setup", "ready", "gone"} \cup Errors]
    BY <1>1 DEF IpadInv, TypeOK
  <2> QED
    BY <2>1, <2>2, <2>3
<1>2. CASE httpError' = TRUE /\ UNCHANGED <<listener, socket, word>>
  BY <1>2 DEF IpadInv, TypeOK
<1> QED
  BY <1>1, <1>2 DEF StartHttp

\* A step of one thread keeps the RPC part of the invariant.
LEMMA ThreadKeeps ==
  ASSUME IpadInv, NEW t \in Threads, Serve(t) \/ ServerEnds(t) \/ EndTask(t)
  PROVE  IpadInv'
<1>1. CASE Serve(t) \/ ServerEnds(t)
  <2>1. /\ thread' \in [Threads -> {"unused", "started", "serving", "ended", "reported"}]
        /\ \A u \in Threads : Watched(u)' <=> Watched(u)
    BY <1>1 DEF Serve, ServerEnds, IpadInv, TypeOK, Watched
  <2>2. UNCHANGED <<phase, metal, isListening, rpcError, listener, socket, word, httpError>>
    BY <1>1 DEF Serve, ServerEnds, httpVars
  <2> QED
    BY <2>1, <2>2 DEF IpadInv, TypeOK, RunningIsHonest, OneWatched, Watched
<1>2. CASE EndTask(t)
  <2>1. Watched(t) /\ \A u \in Threads \ {t} : ~Watched(u)
    BY <1>2 DEF EndTask, IpadInv, OneWatched, Watched
  <2>2. /\ thread' \in [Threads -> {"unused", "started", "serving", "ended", "reported"}]
        /\ \A u \in Threads : ~Watched(u)'
    BY <1>2, <2>1 DEF EndTask, IpadInv, TypeOK, Watched
  <2>3. ~isListening' /\ UNCHANGED <<phase, metal, rpcError, listener, socket, word, httpError>>
    BY <1>2 DEF EndTask, httpVars
  <2>4. RunningIsHonest'
    BY <2>2, <2>3 DEF RunningIsHonest, Watched
  <2> QED
    BY <1>2, <2>2, <2>3, <2>4 DEF EndTask, IpadInv, TypeOK, OneWatched, Watched
<1> QED
  BY <1>1, <1>2

LEMMA IpadStep == IpadInv /\ [Next]_vars => IpadInv'
<1> SUFFICES ASSUME IpadInv, [Next]_vars PROVE IpadInv'
  OBVIOUS
<1>1. CASE Open \/ AppearAgain
  <2>1. StartRpc /\ StartHttp /\ phase' \in {"off", "active", "suspended"}
    BY <1>1 DEF Open, AppearAgain
  <2> QED
    BY <2>1, StartRpcKeeps, StartHttpKeeps DEF IpadInv, TypeOK
<1>2. CASE Suspend \/ Resume
  BY <1>2 DEF Suspend, Resume, rpcVars, httpVars, IpadInv, TypeOK, RunningIsHonest, OneWatched, Watched
<1>3. CASE Quit
  BY <1>3 DEF Quit, IpadInv, TypeOK, RunningIsHonest, OneWatched, Watched
<1>4. ASSUME NEW t \in Threads, Serve(t) \/ ServerEnds(t) \/ EndTask(t) PROVE IpadInv'
  BY <1>4, ThreadKeeps
<1>5. ASSUME NEW l \in Listeners, Ready(l) \/ TroubleTask(l) \/ \E e \in Errors : Trouble(l, e)
      PROVE  IpadInv'
  <2>1. UNCHANGED <<phase, metal, isListening, rpcError, thread, listener>>
    BY <1>5 DEF Ready, TroubleTask, Trouble, rpcVars
  <2>2. /\ socket' \in [Listeners -> {"unused", "setup", "ready", "gone"} \cup Errors]
        /\ word' \in [Listeners -> SUBSET Errors]
        /\ httpError' \in BOOLEAN
    <3>1. CASE Ready(l)
      BY <3>1 DEF Ready, IpadInv, TypeOK
    <3>2. CASE TroubleTask(l)
      <4>1. PICK e \in word[l] : word' = [word EXCEPT ![l] = @ \ {e}]
        BY <3>2 DEF TroubleTask
      <4> QED
        BY <3>2, <4>1 DEF TroubleTask, IpadInv, TypeOK
    <3>3. ASSUME NEW e \in Errors, Trouble(l, e)
          PROVE  /\ socket' \in [Listeners -> {"unused", "setup", "ready", "gone"} \cup Errors]
                 /\ word' \in [Listeners -> SUBSET Errors]
                 /\ httpError' \in BOOLEAN
      <4>1. socket' \in [Listeners -> {"unused", "setup", "ready", "gone"} \cup Errors]
        BY <3>3 DEF Trouble, IpadInv, TypeOK
      <4>2. word' \in [Listeners -> SUBSET Errors]
        BY <3>3 DEF Trouble, IpadInv, TypeOK
      <4>3. httpError' \in BOOLEAN
        BY <3>3, Zenon DEF Trouble, IpadInv, TypeOK
      <4> QED
        BY <4>1, <4>2, <4>3
    <3> QED
      BY <1>5, <3>1, <3>2, <3>3
  <2> QED
    BY <2>1, <2>2 DEF IpadInv, TypeOK, RunningIsHonest, OneWatched, Watched
<1>6. CASE UNCHANGED vars
  BY <1>6 DEF vars, rpcVars, httpVars, IpadInv, TypeOK, RunningIsHonest, OneWatched, Watched
<1> QED
  BY <1>1, <1>2, <1>3, <1>4, <1>5, <1>6 DEF Next

LEMMA IpadInvariance == Spec => []IpadInv
  BY IpadInit, IpadStep, PTL DEF Spec

-----------------------------------------------------------------------------
\* The types of the iPad worker's state hold; in particular the error of
\* rpc_shim_start is never shown.
THEOREM IpadTypes == Spec => []TypeOK
  BY IpadInvariance, PTL DEF IpadInv

\* RpcServer.start never puts a second thread on the port.
THEOREM OneThreadOnly == Spec => []OneThread
<1>1. IpadInv => OneThread
  BY DEF IpadInv, OneWatched, OneThread, Watched
<1> QED
  BY <1>1, IpadInvariance, PTL

\* What /stats calls running is a thread whose end has not been noted.
THEOREM RunningHonest == Spec => []RunningIsHonest
  BY IpadInvariance, PTL DEF IpadInv
=============================================================================
