----------------------------- MODULE IpadWorker -----------------------------
(***************************************************************************)
(* The iPad worker app (ios/AirpcezWorker): the view that appears starts   *)
(* the RPC server, on a thread that serves until the server ends, and the  *)
(* listener for /stats.  The view can appear again in the same process.    *)
(* What ends a thread or a listener only sends word to the main queue;     *)
(* the page shows, and /stats answers, what has arrived there.             *)
(***************************************************************************)
CONSTANTS Threads,     \* the RPC threads of one run of the app
          Listeners,   \* the /stats listeners of one run, one per appearance
          None

ASSUME IpadAssumption == None \notin Listeners /\ Listeners # {}

VARIABLES phase,       \* the app: "off", "active" or "suspended"
          metal,       \* rpc_shim_is_metal_available
          isListening, rpcError,     \* of RpcServer; /stats says running iff isListening
          thread,      \* each RPC thread: unused, started, serving, its server
                       \* has ended, or its task has run on the main actor
          listener,    \* of StatsHTTPServer: the listener it holds
          socket,      \* each NWListener
          word,        \* what each listener has sent to the main queue
          httpError    \* lastError of StatsHTTPServer

rpcVars  == <<metal, isListening, rpcError, thread>>
httpVars == <<listener, socket, word, httpError>>
vars     == <<phase, rpcVars, httpVars>>

Errors == {"failed", "waiting"}

TypeOK ==
    /\ phase \in {"off", "active", "suspended"}
    /\ metal \in BOOLEAN /\ isListening \in BOOLEAN /\ httpError \in BOOLEAN
    /\ rpcError \in {"none", "metal"}
    /\ thread \in [Threads -> {"unused", "started", "serving", "ended", "reported"}]
    /\ listener \in Listeners \cup {None}
    /\ socket \in [Listeners -> {"unused", "setup", "ready", "gone"} \cup Errors]
    /\ word \in [Listeners -> SUBSET Errors]

Init ==
    /\ phase = "off" /\ metal \in BOOLEAN
    /\ isListening = FALSE /\ rpcError = "none"
    /\ thread = [t \in Threads |-> "unused"]
    /\ listener = None /\ httpError = FALSE
    /\ socket = [l \in Listeners |-> "unused"]
    /\ word = [l \in Listeners |-> {}]

-----------------------------------------------------------------------------
(* RpcServer.                                                              *)

NewThread == \E t \in Threads : thread[t] = "unused" /\ thread' = [thread EXCEPT ![t] = "started"]

\* Mutant: the flag is left to the thread.
StartRpcUnflagged ==
    \/ isListening /\ UNCHANGED rpcVars
    \/ ~isListening /\ ~metal /\ rpcError' = "metal" /\ UNCHANGED <<metal, isListening, thread>>
    \/ ~isListening /\ metal /\ NewThread /\ rpcError' = "none" /\ UNCHANGED <<metal, isListening>>

\* Mutant: the flag is set before Metal is looked for.
StartRpcFlagFirst ==
    \/ isListening /\ UNCHANGED rpcVars
    \/ /\ ~isListening
       /\ isListening' = TRUE
       /\ IF metal THEN NewThread /\ rpcError' = "none" ELSE rpcError' = "metal" /\ UNCHANGED thread
       /\ UNCHANGED metal

\* start: a thread, unless one is listening or there is no Metal.
StartRpc ==
    \/ isListening /\ UNCHANGED rpcVars
    \/ ~isListening /\ ~metal /\ rpcError' = "metal" /\ UNCHANGED <<metal, isListening, thread>>
    \/ ~isListening /\ metal /\ NewThread /\ isListening' = TRUE /\ rpcError' = "none" /\ UNCHANGED metal

\* ggml's server gets its port, unless another thread has it ...
Serve(t) ==
    /\ phase = "active"
    /\ thread[t] = "started"
    /\ \A u \in Threads : thread[u] # "serving"
    /\ thread' = [thread EXCEPT ![t] = "serving"]
    /\ UNCHANGED <<phase, metal, isListening, rpcError, httpVars>>

\* ... and some day returns; so does one that never got it.  rpc_shim_start
\* returns 0 then: 1 is for a device list that is empty, which it is not
\* when there is Metal.
ServerEnds(t) ==
    /\ phase = "active"
    /\ thread[t] \in {"started", "serving"}
    /\ thread' = [thread EXCEPT ![t] = "ended"]
    /\ UNCHANGED <<phase, metal, isListening, rpcError, httpVars>>

\* Mutant: the task looks at the code only.
EndTaskOnError(t) ==
    /\ phase = "active"
    /\ thread[t] = "ended"
    /\ thread' = [thread EXCEPT ![t] = "reported"]
    /\ UNCHANGED <<phase, metal, isListening, rpcError, httpVars>>

\* Mutant: every end is taken for an error.
EndTaskAsError(t) ==
    /\ phase = "active"
    /\ thread[t] = "ended"
    /\ thread' = [thread EXCEPT ![t] = "reported"]
    /\ isListening' = FALSE
    /\ rpcError' = "shim"
    /\ UNCHANGED <<phase, metal, httpVars>>

\* The thread's task on the main actor; the code it looks at is 0.
EndTask(t) ==
    /\ phase = "active"
    /\ thread[t] = "ended"
    /\ thread' = [thread EXCEPT ![t] = "reported"]
    /\ isListening' = FALSE
    /\ UNCHANGED <<phase, metal, rpcError, httpVars>>

-----------------------------------------------------------------------------
(* StatsHTTPServer.                                                        *)

\* start: the new listener replaces the one before without cancelling it,
\* which goes away or serves on.  If there is none to be had, the old one
\* is kept.
StartHttp ==
    \/ /\ \E l \in Listeners :
             /\ socket[l] = "unused"
             /\ listener' = l
             /\ \E dropped \in {{}, {listener}} :
                   socket' = [k \in Listeners |->
                                 IF k = l THEN "setup" ELSE IF k \in dropped THEN "gone" ELSE socket[k]]
       /\ UNCHANGED <<word, httpError>>
    \/ httpError' = TRUE /\ UNCHANGED <<listener, socket, word>>

Serving == {l \in Listeners : socket[l] = "ready"}

\* The listener gets the port ...
Ready(l) ==
    /\ phase = "active"
    /\ socket[l] \in {"setup", "waiting"}
    /\ Serving = {}
    /\ socket' = [socket EXCEPT ![l] = "ready"]
    /\ UNCHANGED <<phase, rpcVars, listener, word, httpError>>

\* Mutant: a listener that waits says nothing.
TroubleIfFailed(l, e) ==
    /\ phase = "active"
    /\ socket[l] \in {"setup", "waiting", "ready"} \ {e}
    /\ socket' = [socket EXCEPT ![l] = e]
    /\ word' = [word EXCEPT ![l] = IF e = "failed" THEN @ \cup {e} ELSE @]
    /\ UNCHANGED <<phase, rpcVars, listener, httpError>>

\* ... or not, or not yet, or no more: stateUpdateHandler sends word.
Trouble(l, e) ==
    /\ phase = "active"
    /\ socket[l] \in {"setup", "waiting", "ready"} \ {e}
    /\ socket' = [socket EXCEPT ![l] = e]
    /\ word' = [word EXCEPT ![l] = @ \cup {e}]
    /\ UNCHANGED <<phase, rpcVars, listener, httpError>>

\* The main queue: the last error stays.
TroubleTask(l) ==
    /\ phase = "active"
    /\ \E e \in word[l] : word' = [word EXCEPT ![l] = @ \ {e}]
    /\ httpError' = TRUE
    /\ UNCHANGED <<phase, rpcVars, listener, socket>>

-----------------------------------------------------------------------------
(* The app.                                                                *)

\* The user opens the app, and its view appears.
Open ==
    /\ phase = "off"
    /\ phase' = "active"
    /\ StartRpc
    /\ StartHttp

\* The view appears again, for a new scene.
AppearAgain ==
    /\ phase = "active"
    /\ StartRpc
    /\ StartHttp
    /\ UNCHANGED phase

\* iOS suspends the app, and wakes it.
Suspend == phase = "active" /\ phase' = "suspended" /\ UNCHANGED <<rpcVars, httpVars>>
Resume  == phase = "suspended" /\ phase' = "active" /\ UNCHANGED <<rpcVars, httpVars>>

\* Restart (exit(0)), a crash, or iOS taking the memory back.
Quit ==
    /\ phase # "off"
    /\ phase' = "off"
    /\ isListening' = FALSE /\ rpcError' = "none"
    /\ thread' = [t \in Threads |-> "unused"]
    /\ listener' = None /\ httpError' = FALSE
    /\ socket' = [l \in Listeners |-> "unused"]
    /\ word' = [l \in Listeners |-> {}]
    /\ UNCHANGED metal

Settle(l) == socket[l] = "setup" /\ (Ready(l) \/ \E e \in Errors : Trouble(l, e))

Next ==
    \/ Open \/ AppearAgain \/ Suspend \/ Resume \/ Quit
    \/ \E t \in Threads : Serve(t) \/ ServerEnds(t) \/ EndTask(t)
    \/ \E l \in Listeners : Ready(l) \/ TroubleTask(l) \/ \E e \in Errors : Trouble(l, e)

\* While the app is active the system settles every new listener and runs
\* what is queued on the main actor.
Fairness ==
    /\ \A t \in Threads : WF_vars(EndTask(t))
    /\ \A l \in Listeners : WF_vars(Settle(l)) /\ WF_vars(TroubleTask(l))

Spec == Init /\ [][Next]_vars

FairSpec == Spec /\ Fairness

-----------------------------------------------------------------------------
\* RpcServer.start: however often the view appears and the server ends, no
\* second thread is started on the port of one that still runs.
OneThread ==
    \A t, u \in Threads : {thread[t], thread[u]} \subseteq {"started", "serving"} => t = u

\* /stats says "running" exactly while a thread's end has not been taken
\* note of: a guard that is closed will be opened again.
RunningIsHonest == isListening <=> \E t \in Threads : thread[t] \in {"started", "serving", "ended"}

\* A server that has ended is not reported as running for ever.
EndIsReported ==
    \A t \in Threads : thread[t] = "ended" ~> (~isListening \/ phase # "active")

\* StatsHTTPServer: an app that stays active serves /stats or says that it
\* does not, also after a listener has been replaced or has failed.
ServedOrTold ==
    phase = "active" /\ Serving = {} ~> (Serving # {} \/ httpError \/ phase # "active")
=============================================================================
