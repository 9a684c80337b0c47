----------------------------- MODULE LogProofs ------------------------------
(***************************************************************************)
(* Proofs about the log buffer (SupervisorLogs), for any finite number of  *)
(* streams and any capacity.                                               *)
(***************************************************************************)
EXTENDS SupervisorLogs, DataLemmas

USE LogsAssumption

\* The lines of a stream are in order ...
InOrder(buffer) ==
    \A i, j \in 1..Len(buffer) :
        i < j /\ buffer[i][1] = buffer[j][1] => buffer[i][2] < buffer[j][2]

\* ... and behind each line are all the later ones that were taken.
Complete(buffer, n) ==
    \A i \in 1..Len(buffer) :
        /\ buffer[i][2] \in 1..n[buffer[i][1]]
        /\ \A k \in buffer[i][2]..n[buffer[i][1]] :
              \E j \in 1..Len(buffer) : buffer[j] = <<buffer[i][1], k>>

LogsInv ==
    /\ TypeOK
    /\ InOrder(logs)
    /\ Complete(logs, taken)
    /\ Len(logs) = Smaller(LogCap, SumFunction(taken))

-----------------------------------------------------------------------------
(* A push.                                                                 *)

LEMMA TailIs ==
  ASSUME NEW S, NEW q \in Seq(S), Len(q) > 0
  PROVE  /\ Tail(q) \in Seq(S) /\ Len(Tail(q)) = Len(q) - 1
         /\ \A i \in 1..Len(Tail(q)) : Tail(q)[i] = q[i + 1]
OBVIOUS

LEMMA TailInOrder ==
  ASSUME NEW q \in Seq(Lines), Len(q) > 0, InOrder(q) PROVE InOrder(Tail(q))
<1> DEFINE t == Tail(q)
<1>1. Len(t) = Len(q) - 1 /\ \A i \in 1..Len(t) : t[i] = q[i + 1]
  BY TailIs
<1> HIDE DEF t
<1>2. InOrder(t)
  BY <1>1 DEF InOrder
<1> QED
  BY <1>2 DEF t

\* The oldest line is not behind any other.
LEMMA TailComplete ==
  ASSUME NEW q \in Seq(Lines), Len(q) > 0, NEW n \in [Streams -> Nat], InOrder(q), Complete(q, n)
  PROVE  Complete(Tail(q), n)
<1> DEFINE t == Tail(q)
<1>1. Len(t) = Len(q) - 1 /\ Len(q) \in Nat /\ \A i \in 1..Len(t) : t[i] = q[i + 1]
  BY TailIs
<1> HIDE DEF t
<1>2. ASSUME NEW i \in 1..Len(t)
      PROVE  /\ t[i][2] \in 1..n[t[i][1]]
             /\ \A k \in t[i][2]..n[t[i][1]] : \E j \in 1..Len(t) : t[j] = <<t[i][1], k>>
  <2> DEFINE h == i + 1
  <2>1. h \in 1..Len(q) /\ 1 < h /\ t[i] = q[h] /\ q[h] \in Lines
    BY <1>1
  <2> HIDE DEF h
  <2>2. /\ q[h][2] \in 1..n[q[h][1]]
        /\ \A k \in q[h][2]..n[q[h][1]] : \E j \in 1..Len(q) : q[j] = <<q[h][1], k>>
    BY <2>1 DEF Complete
  <2>3. ASSUME NEW k \in q[h][2]..n[q[h][1]] PROVE \E j \in 1..Len(t) : t[j] = <<q[h][1], k>>
    <3>1. PICK j \in 1..Len(q) : q[j] = <<q[h][1], k>>
      BY <2>2
    <3>2. j # 1
      <4>1. ASSUME j = 1 PROVE FALSE
        <5>1. q[1][1] = q[h][1] /\ q[1][2] = k
          BY <3>1, <4>1
        <5>2. q[1][2] < q[h][2]
          BY <2>1, <5>1 DEF InOrder
        <5>3. q[h][2] \in Nat /\ n[q[h][1]] \in Nat
          BY <2>1 DEF Lines
        <5> QED
          BY <5>1, <5>2, <5>3
      <4> QED
        BY <4>1
    <3>3. j - 1 \in 1..Len(t) /\ t[j - 1] = q[j]
      BY <1>1, <3>2
    <3> QED
      BY <3>1, <3>3
  <2> QED
    BY <2>1, <2>2, <2>3
<1>3. Complete(t, n)
  BY <1>2 DEF Complete
<1> QED
  BY <1>3 DEF t

\* What the next line of a stream does when it is appended.
LEMMA AppendKeeps ==
  ASSUME NEW q \in Seq(Lines), NEW n \in [Streams -> Nat], NEW s \in Streams,
         InOrder(q), Complete(q, n)
  PROVE  LET p == Append(q, <<s, n[s] + 1>>)
         IN  InOrder(p) /\ Complete(p, [n EXCEPT ![s] = @ + 1])
<1> DEFINE p == Append(q, <<s, n[s] + 1>>)
           m == [n EXCEPT ![s] = @ + 1]
           l == Len(q)
<1>1. /\ l \in Nat /\ Len(p) = l + 1 /\ p[l + 1] = <<s, n[s] + 1>>
      /\ \A i \in 1..l : p[i] = q[i] /\ q[i] \in Lines
  OBVIOUS
<1>2. m[s] = n[s] + 1 /\ n[s] \in Nat /\ \A r \in Streams : r # s => m[r] = n[r]
  OBVIOUS
<1>3. \A i \in 1..l : q[i][1] \in Streams /\ q[i][2] \in Nat /\ n[q[i][1]] \in Nat /\ q[i][2] \in 1..n[q[i][1]]
  BY <1>1 DEF Complete, Lines
<1> HIDE DEF p, m
<1>4. ASSUME NEW i \in 1..(l + 1), NEW j \in 1..(l + 1), i < j, p[i][1] = p[j][1]
      PROVE  p[i][2] < p[j][2]
  <2>1. i \in 1..l /\ p[i] = q[i]
    BY <1>1, <1>4
  <2>2. CASE j \in 1..l
    BY <1>1, <1>4, <2>1, <2>2 DEF InOrder
  <2>3. CASE j = l + 1
    <3>1. q[i][1] = s /\ p[j][2] = n[s] + 1
      BY <1>1, <1>4, <2>1, <2>3
    <3> QED
      BY <1>2, <1>3, <2>1, <3>1
  <2> QED
    BY <1>1, <2>2, <2>3
<1>5. ASSUME NEW i \in 1..(l + 1)
      PROVE  /\ p[i][2] \in 1..m[p[i][1]]
             /\ \A k \in p[i][2]..m[p[i][1]] : \E j \in 1..(l + 1) : p[j] = <<p[i][1], k>>
  <2>1. l + 1 \in 1..(l + 1)
    BY <1>1
  <2>2. CASE i = l + 1
    <3>1. p[i][1] = s /\ p[i][2] = n[s] + 1
      BY <1>1, <2>2
    <3>2. ASSUME NEW k \in p[i][2]..m[p[i][1]] PROVE p[l + 1] = <<p[i][1], k>>
      BY <1>1, <1>2, <3>1
    <3> QED
      BY <1>2, <2>1, <3>1, <3>2
  <2>3. CASE i \in 1..l
    <3> DEFINE r == q[i][1]
    <3>1. p[i] = q[i] /\ r \in Streams /\ q[i][2] \in 1..n[r] /\ n[r] \in Nat /\ q[i][2] \in Nat
      BY <1>1, <1>3, <2>3
    <3>2. \A k \in q[i][2]..n[r] : \E j \in 1..l : q[j] = <<r, k>>
      BY <2>3 DEF Complete
    <3> HIDE DEF r
    <3>6. p[i][1] = r
      BY <3>1 DEF r
    <3>3. q[i][2] \in 1..m[r]
      BY <1>2, <3>1
    <3>4. ASSUME NEW k \in q[i][2]..m[r] PROVE \E j \in 1..(l + 1) : p[j] = <<r, k>>
      <4>1. CASE k \in q[i][2]..n[r]
        <5>1. PICK j \in 1..l : q[j] = <<r, k>>
          BY <3>2, <4>1
        <5>2. j \in 1..(l + 1) /\ p[j] = <<r, k>>
          BY <1>1, <5>1
        <5> QED
          BY <5>2
      <4>2. CASE k \notin q[i][2]..n[r]
        <5>1. r = s /\ k = n[s] + 1
          BY <1>2, <3>1, <4>2
        <5> QED
          BY <1>1, <2>1, <5>1
      <4> QED
        BY <4>1, <4>2
    <3> QED
      BY <3>1, <3>3, <3>4, <3>6
  <2>4. i = l + 1 \/ i \in 1..l
    BY <1>1
  <2> QED
    BY <2>2, <2>3, <2>4
<1>6. InOrder(p) /\ Complete(p, m)
  BY <1>1, <1>4, <1>5 DEF InOrder, Complete
<1> QED
  BY <1>6 DEF p, m

LEMMA PushKeeps ==
  ASSUME NEW q \in Seq(Lines), NEW n \in [Streams -> Nat], NEW s \in Streams,
         InOrder(q), Complete(q, n), Len(q) <= LogCap
  PROVE  LET p == Push(q, <<s, n[s] + 1>>)
         IN  /\ p \in Seq(Lines)
             /\ InOrder(p) /\ Complete(p, [n EXCEPT ![s] = @ + 1])
             /\ Len(p) = Smaller(LogCap, Len(q) + 1)
<1> DEFINE p == Append(q, <<s, n[s] + 1>>)
           m == [n EXCEPT ![s] = @ + 1]
<1>1. p \in Seq(Lines) /\ Len(p) = Len(q) + 1 /\ Len(q) \in Nat /\ m \in [Streams -> Nat]
  BY DEF Lines
<1>2. InOrder(p) /\ Complete(p, m)
  BY AppendKeeps
<1>3. Push(q, <<s, n[s] + 1>>) = IF Len(p) > LogCap THEN Tail(p) ELSE p
  BY DEF Push
<1> HIDE DEF p, m
<1>4. CASE Len(p) > LogCap
  <2>1. Tail(p) \in Seq(Lines) /\ Len(Tail(p)) = Len(p) - 1
    BY <1>1, <1>4, TailIs
  <2>2. InOrder(Tail(p)) /\ Complete(Tail(p), m)
    BY <1>1, <1>2, <1>4, TailInOrder, TailComplete
  <2>3. Len(Tail(p)) = Smaller(LogCap, Len(q) + 1)
    BY <1>1, <1>4, <2>1 DEF Smaller
  <2> QED
    BY <1>3, <1>4, <2>1, <2>2, <2>3 DEF m
<1>5. CASE ~ (Len(p) > LogCap)
  <2>1. Len(p) = Smaller(LogCap, Len(q) + 1)
    BY <1>1, <1>5 DEF Smaller
  <2> QED
    BY <1>1, <1>2, <1>3, <1>5, <2>1 DEF m
<1> QED
  BY <1>4, <1>5

-----------------------------------------------------------------------------
(* The invariant.                                                          *)

LEMMA LogsInit == Init => LogsInv
<1> SUFFICES ASSUME Init PROVE LogsInv
  OBVIOUS
<1>1. TypeOK /\ InOrder(logs) /\ Complete(logs, taken) /\ Len(logs) = 0
  BY DEF Init, TypeOK, InOrder, Complete
<1>2. SumFunction(taken) = 0
  BY ZeroSum DEF Init, SumFunction
<1> QED
  BY <1>1, <1>2 DEF LogsInv, Smaller

LEMMA LogsStep == LogsInv /\ [Next]_vars => LogsInv'
<1> SUFFICES ASSUME LogsInv, [Next]_vars PROVE LogsInv'
  OBVIOUS
<1>1. ASSUME NEW s \in Streams, Write(s) PROVE LogsInv'
  <2>1. UNCHANGED <<open, taken, reading, logs>>
    BY <1>1 DEF Write
  <2>2. /\ written \in [Streams -> 0..MaxLines] /\ bad \in [Streams -> 0..MaxLines]
        /\ written[s] + 1 \in 0..MaxLines
    BY <1>1 DEF Write, LogsInv, TypeOK
  <2>3. written' \in [Streams -> 0..MaxLines]
    BY <1>1, <2>2 DEF Write
  <2>4. bad' \in [Streams -> 0..MaxLines]
    <3>1. CASE bad' = bad
      BY <2>2, <3>1
    <3>2. CASE bad' = [bad EXCEPT ![s] = IF @ = 0 THEN written[s] + 1 ELSE @]
      BY <2>2, <3>2
    <3> QED
      BY <1>1, <3>1, <3>2 DEF Write
  <2> QED
    BY <2>1, <2>3, <2>4 DEF LogsInv, TypeOK
<1>2. ASSUME NEW s \in Streams, Close(s) PROVE LogsInv'
  BY <1>2 DEF Close, LogsInv, TypeOK
<1>3. ASSUME NEW s \in Streams, ReadLine(s) PROVE LogsInv'
  <2>1. /\ taken' = [taken EXCEPT ![s] = @ + 1] /\ logs' = Push(logs, <<s, taken[s] + 1>>)
        /\ UNCHANGED <<written, bad, open, reading>>
    BY <1>3 DEF ReadLine
  <2>2. taken \in [Streams -> Nat] /\ taken' \in [Streams -> 0..MaxLines]
    BY <1>3 DEF ReadLine, LogsInv, TypeOK
  <2>3. SumFunction(taken) \in Nat /\ SumFunction(taken') = SumFunction(taken) + 1
    <3>1. DOMAIN taken = Streams /\ DOMAIN taken' = Streams
      BY <2>2
    <3>2. SumFunctionOnSet(taken', Streams) = SumFunctionOnSet(taken, Streams) + 1
      BY <2>1, <2>2, SumCountsOn
    <3>3. SumFunctionOnSet(taken, Streams) \in Nat
      BY <2>2, SumType
    <3> QED
      BY <3>1, <3>2, <3>3 DEF SumFunction
  <2>4. Len(logs) <= LogCap
    BY <2>3 DEF LogsInv, Smaller
  <2>5. /\ logs' \in Seq(Lines) /\ InOrder(logs') /\ Complete(logs', taken')
        /\ Len(logs') = Smaller(LogCap, Len(logs) + 1)
    <3>1. logs \in Seq(Lines) /\ InOrder(logs) /\ Complete(logs, taken)
      BY DEF LogsInv, TypeOK
    <3> QED
      BY <2>1, <2>2, <2>4, <3>1, PushKeeps
  <2>6. Len(logs') = Smaller(LogCap, SumFunction(taken'))
    BY <2>3, <2>5 DEF LogsInv, Smaller
  <2> QED
    BY <2>1, <2>2, <2>5, <2>6 DEF LogsInv, TypeOK
<1>4. ASSUME NEW s \in Streams, ReadFails(s) \/ ReadEnd(s) PROVE LogsInv'
  BY <1>4 DEF ReadFails, ReadEnd, LogsInv, TypeOK
<1>5. CASE UNCHANGED vars
  BY <1>5 DEF vars, LogsInv, TypeOK
<1> QED
  BY <1>1, <1>2, <1>3, <1>4, <1>5 DEF Next, Reader

LEMMA LogsInvariance == Spec => []LogsInv
  BY LogsInit, LogsStep, PTL DEF Spec

\* Counts and pipes keep their types, and the buffer holds lines.
THEOREM LogTypes == Spec => []TypeOK
<1>1. LogsInv => TypeOK
  BY DEF LogsInv
<1> QED
  BY <1>1, LogsInvariance, PTL

-----------------------------------------------------------------------------
(* What the buffer holds of a stream.                                      *)

\* Numbers that grow, up to top and with every number behind the first,
\* are the last numbers up to top.
LEMMA LastNumbers ==
  ASSUME NEW m \in Nat, NEW top \in Nat, NEW num, \A k \in 1..m : num[k] \in 1..top,
         \A j, k \in 1..m : j < k => num[j] < num[k],
         \A k \in 1..m, v \in 1..top : num[k] <= v => \E j \in 1..m : num[j] = v
  PROVE  \A k \in 1..m : num[k] = top - m + k
<1> DEFINE N == {i \in Nat : i < m => num[m - i] = top - i}
<1>1. 0 \in N
  <2> SUFFICES ASSUME 0 < m PROVE num[m] = top
    OBVIOUS
  <2>1. num[m] \in 1..top /\ top \in 1..top
    OBVIOUS
  <2>2. PICK j \in 1..m : num[j] = top
    BY <2>1
  <2>3. j = m \/ num[j] < num[m]
    OBVIOUS
  <2> QED
    BY <2>1, <2>2, <2>3
<1>2. ASSUME NEW i \in Nat, i \in N PROVE i + 1 \in N
  <2> SUFFICES ASSUME i + 1 < m PROVE num[m - (i + 1)] = top - (i + 1)
    OBVIOUS
  <2> DEFINE a == m - (i + 1)
             b == m - i
  <2>1. a \in 1..m /\ b \in 1..m /\ a < b /\ b = a + 1
    OBVIOUS
  <2>2. num[b] = top - i
    BY <1>2
  <2> HIDE DEF a, b, N
  <2>3. num[a] \in 1..top /\ num[b] \in 1..top /\ num[a] < num[b]
    BY <2>1
  <2>4. top - (i + 1) \in 1..top /\ num[a] <= top - (i + 1)
    BY <2>2, <2>3
  <2>5. PICK j \in 1..m : num[j] = top - (i + 1)
    BY <2>1, <2>4
  <2>6. j < b
    <3>1. ~ (num[b] < num[j]) /\ num[b] # num[j]
      BY <2>2, <2>5
    <3>2. ~ (b < j) /\ b # j
      BY <2>1, <3>1
    <3> QED
      BY <2>1, <3>2
  <2>7. j = a \/ num[j] < num[a]
    BY <2>1, <2>6
  <2>8. num[a] = top - (i + 1)
    BY <2>3, <2>4, <2>5, <2>7
  <2> QED
    BY <2>8 DEF a
<1> HIDE DEF N
<1>3. \A i \in Nat : i \in N
  BY <1>1, <1>2, Induction
<1> SUFFICES ASSUME NEW k \in 1..m PROVE num[k] = top - m + k
  OBVIOUS
<1>4. m - k \in Nat /\ m - k < m /\ m - (m - k) = k
  OBVIOUS
<1>5. num[k] = top - (m - k)
  BY <1>3, <1>4 DEF N
<1> QED
  BY <1>5

LEMMA OfIsTail ==
  ASSUME LogsInv, NEW s \in Streams
  PROVE  Of(s) = [i \in 1..Len(Of(s)) |-> <<s, taken[s] - Len(Of(s)) + i>>]
<1> DEFINE I == {i \in DOMAIN logs : logs[i][1] = s}
           p == Picked(logs, I)
           top == taken[s]
           num == [k \in 1..Len(p) |-> p[k][2]]
<1>1. Of(s) = p
  BY DEF Of, Retain
<1>2. logs \in Seq(Lines) /\ top \in Nat
  BY DEF LogsInv, TypeOK
<1>3. \A i \in 1..Len(logs) : i \in I <=> logs[i][1] = s
  BY <1>2
<1> HIDE DEF I
<1>4. p \in Seq(Lines) /\ \E at : Selects(at, p, logs, I, Len(logs))
  BY <1>2, PickedSelects
<1>5. PICK at : Selects(at, p, logs, I, Len(logs))
  BY <1>4
<1> HIDE DEF p
<1>6. ASSUME NEW k \in 1..Len(p)
      PROVE  /\ at[k] \in 1..Len(logs) /\ p[k] = logs[at[k]] /\ p[k][1] = s
             /\ num[k] = p[k][2] /\ num[k] \in 1..top
  <2>1. at[k] \in 1..Len(logs) /\ p[k] = logs[at[k]] /\ at[k] \in I
    BY <1>5 DEF Selects
  <2>2. logs[at[k]][1] = s /\ logs[at[k]][2] \in 1..taken[logs[at[k]][1]]
    BY <1>3, <2>1 DEF LogsInv, Complete
  <2> QED
    BY <2>1, <2>2
<1> HIDE DEF num
<1>7. ASSUME NEW j \in 1..Len(p), NEW k \in 1..Len(p), j < k PROVE num[j] < num[k]
  <2>1. at[j] < at[k]
    BY <1>5, <1>7 DEF Selects
  <2>2. /\ at[j] \in 1..Len(logs) /\ p[j] = logs[at[j]] /\ p[j][1] = s /\ num[j] = p[j][2]
        /\ at[k] \in 1..Len(logs) /\ p[k] = logs[at[k]] /\ p[k][1] = s /\ num[k] = p[k][2]
    BY <1>6
  <2>3. logs[at[j]][2] < logs[at[k]][2]
    BY <2>1, <2>2 DEF LogsInv, InOrder
  <2> QED
    BY <2>2, <2>3
<1>8. ASSUME NEW k \in 1..Len(p), NEW v \in 1..top, num[k] <= v
      PROVE  \E j \in 1..Len(p) : num[j] = v
  <2>1. v \in logs[at[k]][2]..taken[logs[at[k]][1]] /\ logs[at[k]][1] = s /\ at[k] \in 1..Len(logs)
    BY <1>2, <1>6, <1>8
  <2>2. PICK i \in 1..Len(logs) : logs[i] = <<s, v>>
    BY <2>1 DEF LogsInv, Complete
  <2>3. i \in I
    BY <1>3, <2>2
  <2>4. PICK j \in 1..Len(p) : at[j] = i
    BY <1>5, <2>3 DEF Selects
  <2>5. p[j] = logs[at[j]] /\ num[j] = p[j][2]
    BY <1>6
  <2>6. num[j] = v
    BY <2>2, <2>4, <2>5
  <2> QED
    BY <2>6
<1>9. \A k \in 1..Len(p) : num[k] = top - Len(p) + k
  <2> DEFINE m == Len(p)
  <2>1. m \in Nat
    BY <1>4
  <2>2. \A k \in 1..m : num[k] \in 1..top
    BY <1>6
  <2> HIDE DEF top, m
  <2>3. \A j, k \in 1..m : j < k => num[j] < num[k]
    BY <1>7 DEF m
  <2>4. \A k \in 1..m, v \in 1..top : num[k] <= v => \E j \in 1..m : num[j] = v
    BY <1>8 DEF m
  <2>5. \A k \in 1..m : num[k] = top - m + k
    BY <1>2, <2>1, <2>2, <2>3, <2>4, LastNumbers
  <2> QED
    BY <2>5 DEF m
<1>10. \A k \in 1..Len(p) : p[k] = <<s, top - Len(p) + k>>
  <2>1. ASSUME NEW k \in 1..Len(p) PROVE p[k] = <<p[k][1], p[k][2]>>
    BY <1>4 DEF Lines
  <2> QED
    BY <1>6, <1>9, <2>1
<1>11. p = [i \in 1..Len(p) |-> <<s, top - Len(p) + i>>]
  <2>1. p = [i \in 1..Len(p) |-> p[i]]
    BY <1>4
  <2> QED
    BY <1>10, <2>1
<1> QED
  BY <1>1, <1>11

\* push_log: whatever the interleaving of the readers of past and present
\* children, the buffer holds of each stream the last lines taken from it,
\* in order and without a gap, and is full before a line is dropped.
THEOREM LogsAreTails == Spec => []LogIsTail
<1>1. LogsInv => LogIsTail
  BY OfIsTail DEF LogIsTail, LogsInv
<1> QED
  BY <1>1, LogsInvariance, PTL
=============================================================================
