--------------------------- MODULE ProcessBackend ---------------------------
(***************************************************************************)
(* What the trait ProcessBackend (airpcez-core/src/process.rs) promises    *)
(* its callers: there is one process slot.  A start takes the slot, a stop *)
(* asks for it back, and the slot is free again -- the status is no longer *)
(* Running -- only when the process is gone.  The status Stopped is        *)
(* reserved for a process that somebody asked to stop.                     *)
(***************************************************************************)

CONSTANT Children        \* the processes that can ever be started

VARIABLES status,        \* ProcStatus, without its exit code and message
          procs,         \* the processes alive in the slot
          stopping       \* a stop has been accepted and not yet served

vars == <<status, procs, stopping>>

Statuses == {"Stopped", "Running", "Exited", "Crashed"}

TypeOK ==
    /\ status \in Statuses
    /\ procs \subseteq Children
    /\ stopping \in BOOLEAN

Init ==
    /\ status = "Stopped"
    /\ procs = {}
    /\ stopping = FALSE

\* A start is accepted only when nothing is running.  The process may be
\* gone again before anybody sees it run.
Start(c) ==
    /\ status # "Running"
    /\ procs = {}
    /\ status' = "Running"
    /\ procs' \in {{c}, {}}
    /\ UNCHANGED stopping

\* A stop is accepted once per run.
Stop ==
    /\ status = "Running"
    /\ ~stopping
    /\ stopping' = TRUE
    /\ UNCHANGED <<status, procs>>

\* The process ends, by itself or because it was killed.
Die ==
    /\ procs # {}
    /\ procs' = {}
    /\ UNCHANGED <<status, stopping>>

\* The end is reported: as Stopped only if a stop was accepted.
Report ==
    /\ status = "Running"
    /\ procs = {}
    /\ status' \in {"Exited", "Crashed"} \cup (IF stopping THEN {"Stopped"} ELSE {})
    /\ stopping' = FALSE
    /\ UNCHANGED procs

Next == (\E c \in Children : Start(c)) \/ Stop \/ Die \/ Report

\* An accepted stop ends the process, and the end of a process is reported.
Fairness == WF_vars(stopping /\ Die) /\ WF_vars(Report)

Spec == Init /\ [][Next]_vars /\ Fairness
=============================================================================
