--------------------------- MODULE SupervisorLogs ---------------------------
(***************************************************************************)
(* The log buffer of TokioSupervisor: two reader tasks per started child,  *)
(* one on its standard output and one on its standard error, push lines    *)
(* into inner.logs under the mutex.  The buffer outlives the children, so  *)
(* the readers of a past child and of its successor can push at the same   *)
(* time.  A line is its stream and its number in that stream.              *)
(***************************************************************************)
EXTENDS Naturals, Sequences, FiniteSets, Functions, Filters

CONSTANTS Streams,    \* the output pipes of all the children ever started
          LogCap,     \* lines kept: 500
          MaxLines    \* a bound for TLC on the lines of one stream

ASSUME LogsAssumption ==
    /\ IsFiniteSet(Streams)
    /\ LogCap \in Nat \ {0}
    /\ MaxLines \in Nat

VARIABLES
    written,    \* lines the child has written into each pipe
    bad,        \* the first of them that is not UTF-8, 0 if none is
    open,       \* the child's end of the pipe: open until the child is gone
    taken,      \* lines the reader task has taken out
    reading,    \* the reader task is still in its loop
    logs        \* inner.logs

vars == <<written, bad, open, taken, reading, logs>>

Lines == Streams \X (Nat \ {0})

TypeOK ==
    /\ written \in [Streams -> 0..MaxLines]
    /\ bad     \in [Streams -> 0..MaxLines]
    /\ open    \in [Streams -> BOOLEAN]
    /\ taken   \in [Streams -> 0..MaxLines]
    /\ reading \in [Streams -> BOOLEAN]
    /\ logs    \in Seq(Lines)

Init ==
    /\ written = [s \in Streams |-> 0]
    /\ bad     = [s \in Streams |-> 0]
    /\ open    = [s \in Streams |-> TRUE]
    /\ taken   = [s \in Streams |-> 0]
    /\ reading = [s \in Streams |-> TRUE]
    /\ logs    = <<>>

\* Mutant: the room is made before the push, one line too late.
PopThenPush(buffer, line) ==
    Append(IF Len(buffer) > LogCap THEN Tail(buffer) ELSE buffer, line)

\* A push, and the removal of the oldest line when that makes too many.
Push(buffer, line) ==
    LET pushed == Append(buffer, line)
    IN  IF Len(pushed) > LogCap THEN Tail(pushed) ELSE pushed

\* The child writes a line; once the reader is gone, so is the pipe.
Write(s) ==
    /\ open[s] /\ reading[s]
    /\ written[s] < MaxLines
    /\ written' = [written EXCEPT ![s] = @ + 1]
    /\ bad' \in {bad, [bad EXCEPT ![s] = IF @ = 0 THEN written[s] + 1 ELSE @]}
    /\ UNCHANGED <<open, taken, reading, logs>>

\* The child exits or is killed.
Close(s) ==
    /\ open[s]
    /\ open' = [open EXCEPT ![s] = FALSE]
    /\ UNCHANGED <<written, bad, taken, reading, logs>>

\* next_line returns a line, which is pushed in one lock section.
ReadLine(s) ==
    /\ reading[s]
    /\ taken[s] < written[s]
    /\ taken[s] + 1 # bad[s]
    /\ taken' = [taken EXCEPT ![s] = @ + 1]
    /\ logs' = Push(logs, <<s, taken[s] + 1>>)
    /\ UNCHANGED <<written, bad, open, reading>>

\* next_line fails on a line that is not UTF-8: the reader leaves its loop,
\* and what the stream still holds is lost.
ReadFails(s) ==
    /\ reading[s]
    /\ taken[s] + 1 = bad[s]
    /\ reading' = [reading EXCEPT ![s] = FALSE]
    /\ UNCHANGED <<written, bad, open, taken, logs>>

\* Mutant: the reader ends with the child, whatever the pipe still holds.
ReadAborted(s) ==
    /\ reading[s]
    /\ ~open[s]
    /\ reading' = [reading EXCEPT ![s] = FALSE]
    /\ UNCHANGED <<written, bad, open, taken, logs>>

\* next_line returns None: the pipe is closed and empty.
ReadEnd(s) ==
    /\ reading[s]
    /\ ~open[s] /\ taken[s] = written[s]
    /\ reading' = [reading EXCEPT ![s] = FALSE]
    /\ UNCHANGED <<written, bad, open, taken, logs>>

Reader(s) == ReadLine(s) \/ ReadFails(s) \/ ReadEnd(s)

Next == \E s \in Streams : Write(s) \/ Close(s) \/ Reader(s)

\* A reader task whose pipe has something for it is polled.
Spec == Init /\ [][Next]_vars /\ \A s \in Streams : WF_vars(Reader(s))

-----------------------------------------------------------------------------
Of(s) == Retain(logs, LAMBDA line : line[1] = s)

Smaller(m, n) == IF m < n THEN m ELSE n

\* recent_logs is the tail of the output: of each stream it holds the last
\* lines taken from it, in order and without a gap, whatever the readers'
\* interleaving, and only lines beyond the capacity are ever dropped.
LogIsTail ==
    /\ \A s \in Streams :
          LET n == Len(Of(s))
          IN  Of(s) = [i \in 1..n |-> <<s, taken[s] - n + i>>]
    /\ Len(logs) = Smaller(LogCap, SumFunction(taken))

\* A child's last words are kept: once it is gone, the reader takes
\* everything it wrote, up to the first line that is not UTF-8.
LastWordsAreKept ==
    \A s \in Streams :
        ~open[s] ~> /\ ~reading[s]
                    /\ taken[s] = IF bad[s] = 0 THEN written[s] ELSE bad[s] - 1
=============================================================================
