---------------------------- MODULE ResearchProofs ----------------------------
(***************************************************************************)
(* What research promises: runs have all their results, the seeds of a     *)
(* vector environment one episode each, every day the model of its segment,*)
(* a policy that was trained is kept, an order that is split is dealt as   *)
(* the day order says, and a portfolio is paid for and stays bounded.      *)
(***************************************************************************)
EXTENDS Recording, FiniteEnv, Models, NestedExecution, TopkBacktest, SequenceTheorems,
        SetLemmas, TLAPS

-----------------------------------------------------------------------------
(* Recording: a finished run has all its results.                           *)

Calls == {"log", STOP_MARK}

RecordingShape ==
    /\ main \in {"on", "ending", "over", "exit"}
    /\ ending \in {"FINISHED", "FAILED"}
    /\ active \in Run \union {NoRun} /\ mlflow \in Run \union {NoRun}
    /\ status \in [Run -> {"new", "RUNNING", "FINISHED", "FAILED"}]
    /\ caller \in [Run -> {"none", "running", "stopped", "died"}]
    /\ calls \in [Run -> Seq(Calls)]
    /\ logged \in [Run -> Nat] /\ applied \in [Run -> Nat]

\* A caller that has stopped has emptied its queue, and all calls have reached the store.
Settled(r) == calls[r] = <<>> /\ applied[r] = logged[r]

\* The first n calls of the queue are logging calls, and what is missing in the store.
Pending(r, n) ==
    /\ \A i \in 1..n : calls[r][i] = "log"
    /\ applied[r] + n = logged[r]

\* The run that MLflow has active: its queue holds logging calls, and a STOP_MARK
\* behind them once the main thread waits.
Open(r) ==
    \/ main = "on" /\ caller[r] = "running" /\ Pending(r, Len(calls[r]))
    \/ /\ main = "ending" /\ caller[r] = "running"
       /\ calls[r] # <<>> /\ calls[r][Len(calls[r])] = STOP_MARK
       /\ Pending(r, Len(calls[r]) - 1)
    \/ main = "ending" /\ caller[r] = "stopped" /\ Settled(r)

\* A run that nobody has open has not begun, or its caller has stopped.
Closed(r) ==
    \/ status[r] = "new" /\ caller[r] = "none" /\ Settled(r)
    \/ status[r] \in {"FINISHED", "FAILED"} /\ caller[r] = "stopped" /\ Settled(r)

\* Without mishaps there is one open run at most, the active one.
Orderly ==
    /\ active = mlflow
    /\ main = "ending" => active # NoRun
    /\ main \in {"over", "exit"} => active = NoRun
    /\ \A r \in Run : IF r = mlflow THEN status[r] = "RUNNING" /\ Open(r) ELSE Closed(r)

RecordingInv == RecordingShape /\ (mishaps = {} => Orderly)

-----------------------------------------------------------------------------

LEMMA ShapeInit == RecordingInit => RecordingShape
BY RecordingAssumption, EmptySeq DEF RecordingInit, RecordingShape, Calls

LEMMA QueueGrows ==
    ASSUME NEW q \in Seq(Calls), NEW c \in Calls
    PROVE  /\ Append(q, c) \in Seq(Calls)
           /\ Append(q, c) # <<>>
           /\ Len(Append(q, c)) = Len(q) + 1
           /\ Append(q, c)[Len(q) + 1] = c
           /\ \A i \in 1..Len(q) : Append(q, c)[i] = q[i]
BY AppendProperties DEF Calls

LEMMA QueueShrinks ==
    ASSUME NEW q \in Seq(Calls), q # <<>>
    PROVE  /\ Tail(q) \in Seq(Calls)
           /\ Len(q) \in Nat \ {0}
           /\ Len(Tail(q)) = Len(q) - 1
           /\ Head(q) = q[1]
           /\ \A i \in 1..Len(q) - 1 : Tail(q)[i] = q[i + 1]
<1>1. Len(q) \in Nat \ {0}
  BY LenProperties, EmptySeq
<1>2. Tail(q) \in Seq(Calls) /\ Len(Tail(q)) = Len(q) - 1
  BY <1>1, HeadTailProperties
<1>3. \A i \in 1..Len(q) - 1 : Tail(q)[i] = q[i + 1]
  BY <1>1, <1>2, HeadTailProperties
<1> QED
  BY <1>1, <1>2, <1>3

\* A queue of one call is empty when it is taken.
LEMMA QueueEmpties ==
    ASSUME NEW q \in Seq(Calls), Len(q) = 0
    PROVE  q = <<>>
BY EmptySeq, Zenon

LEMMA ShapeStep ==
    ASSUME RecordingShape, [RecordingNext]_recordingVars
    PROVE  RecordingShape'
<1> USE DEF RecordingShape
<1>1. ASSUME NEW r \in Run, StartExp(r) PROVE RecordingShape'
  BY <1>1 DEF StartExp
<1>2. CASE LogCall
  <2>1. active \in Run
    BY <1>2 DEF LogCall
  <2>2. Append(calls[active], "log") \in Seq(Calls)
    BY <2>1, QueueGrows DEF Calls
  <2> QED
    BY <1>2, <2>1, <2>2 DEF LogCall
<1>3. ASSUME NEW s \in {"FINISHED", "FAILED"}, EndExp(s) PROVE RecordingShape'
  <2>1. active \in Run
    BY <1>3 DEF EndExp
  <2>2. Append(calls[active], STOP_MARK) \in Seq(Calls)
    BY <2>1, QueueGrows DEF Calls
  <2> QED
    BY <1>3, <2>1, <2>2 DEF EndExp
<1>4. CASE Waited
  BY <1>4 DEF Waited, EndRun
<1>5. CASE MainEnds
  BY <1>5 DEF MainEnds
<1>6. CASE Atexit
  BY <1>6 DEF Atexit, EndRun
<1>7. ASSUME NEW r \in Run, NEW raises \in BOOLEAN, CallerTakes(r, raises) PROVE RecordingShape'
  <2>1. Tail(calls[r]) \in Seq(Calls)
    BY <1>7, QueueShrinks DEF CallerTakes
  <2>2. calls' \in [Run -> Seq(Calls)]
    BY <1>7, <2>1 DEF CallerTakes
  <2>3. caller' \in [Run -> {"none", "running", "stopped", "died"}] /\ applied' \in [Run -> Nat]
    <3>1. CASE Head(calls[r]) = STOP_MARK
      BY <1>7, <3>1 DEF CallerTakes, STOP_MARK
    <3>2. CASE Head(calls[r]) # STOP_MARK /\ Head(calls[r]) = "log" /\ raises
      BY <1>7, <3>2 DEF CallerTakes
    <3>3. CASE Head(calls[r]) # STOP_MARK /\ ~(Head(calls[r]) = "log" /\ raises)
      <4>1. caller' = caller /\ applied' = [applied EXCEPT ![r] = applied[r] + 1]
        BY <1>7, <3>3 DEF CallerTakes
      <4> QED
        BY <4>1
    <3> QED
      BY <3>1, <3>2, <3>3
  <2> QED
    BY <1>7, <2>2, <2>3 DEF CallerTakes
<1>8. ASSUME NEW r \in Run, CallerLeaves(r) PROVE RecordingShape'
  BY <1>8 DEF CallerLeaves
<1>9. CASE UNCHANGED recordingVars
  BY <1>9 DEF recordingVars
<1> QED
  BY <1>1, <1>2, <1>3, <1>4, <1>5, <1>6, <1>7, <1>8, <1>9 DEF RecordingNext, CallerStep

-----------------------------------------------------------------------------

\* What a mishap was stays one.
LEMMA MishapsStay ==
    ASSUME [RecordingNext]_recordingVars, mishaps' = {}
    PROVE  mishaps = {}
<1>1. mishaps \subseteq mishaps'
  BY DEF RecordingNext, recordingVars, StartExp, LogCall, EndExp, Waited, MainEnds, Atexit,
         CallerStep, CallerTakes, CallerLeaves
<1> QED
  BY <1>1

\* Where a caller takes from, a run is open.
LEMMA RunningIsOpen ==
    ASSUME RecordingShape, Orderly, NEW r \in Run, caller[r] = "running"
    PROVE  r = mlflow /\ main \in {"on", "ending"}
BY DEF Orderly, Closed, Open

LEMMA OrderlyStep ==
    ASSUME RecordingShape, RecordingShape', mishaps' = {}, Orderly, [RecordingNext]_recordingVars
    PROVE  Orderly'
<1> USE RecordingAssumption
<1>1. ASSUME NEW r \in Run, StartExp(r) PROVE Orderly'
  <2>1. mlflow = NoRun /\ active' = r /\ mlflow' = r /\ main = "on" /\ status[r] = "new"
    BY <1>1 DEF StartExp
  <2>2. UNCHANGED <<main, calls, logged, applied>>
    BY <1>1 DEF StartExp
  <2>3. status' = [status EXCEPT ![r] = "RUNNING"] /\ caller' = [caller EXCEPT ![r] = "running"]
    BY <1>1, <2>1 DEF StartExp
  <2>4. Settled(r) /\ Len(calls[r]) = 0
    <3>1. r # mlflow
      BY <2>1
    <3>2. Settled(r)
      BY <2>1, <3>1 DEF Orderly, Closed
    <3> QED
      BY <3>2, EmptySeq, Zenon DEF Settled
  <2>5. Open(r)' /\ status'[r] = "RUNNING"
    <3>1. Pending(r, Len(calls[r]))'
      BY <2>2, <2>4 DEF Pending, Settled, RecordingShape
    <3> QED
      BY <2>1, <2>2, <2>3, <3>1 DEF Open, RecordingShape
  <2>6. ASSUME NEW q \in Run, q # r PROVE Closed(q)'
    <3>1. Closed(q)
      BY <2>1 DEF Orderly
    <3> QED
      BY <2>2, <2>3, <2>6, <3>1 DEF Closed, Settled, RecordingShape
  <2> QED
    BY <2>1, <2>2, <2>5, <2>6 DEF Orderly
<1>2. CASE LogCall
  <2>1. active = mlflow /\ mlflow \in Run /\ main = "on"
    BY <1>2 DEF LogCall, Orderly, RecordingShape
  <2>2. /\ UNCHANGED <<main, active, mlflow, status, caller, applied>>
        /\ calls' = [calls EXCEPT ![mlflow] = Append(calls[mlflow], "log")]
        /\ logged' = [logged EXCEPT ![mlflow] = logged[mlflow] + 1]
    BY <1>2, <2>1 DEF LogCall
  <2>3. calls[mlflow] \in Seq(Calls) /\ Len(calls[mlflow]) \in Nat
    BY <2>1, LenProperties DEF RecordingShape
  <2>4. caller[mlflow] = "running" /\ Pending(mlflow, Len(calls[mlflow])) /\ status[mlflow] = "RUNNING"
    BY <2>1 DEF Orderly, Open
  <2>5. Pending(mlflow, Len(calls[mlflow]))'
    <3>1. calls'[mlflow] = Append(calls[mlflow], "log") /\ logged'[mlflow] = logged[mlflow] + 1
      BY <2>1, <2>2 DEF RecordingShape
    <3>2. \A i \in 1..Len(calls[mlflow]) + 1 : calls'[mlflow][i] = "log"
      BY <2>3, <2>4, <3>1, QueueGrows DEF Pending, Calls
    <3>3. Len(calls'[mlflow]) = Len(calls[mlflow]) + 1
      BY <2>3, <3>1, QueueGrows DEF Calls
    <3>4. applied[mlflow] + Len(calls[mlflow]) + 1 = logged'[mlflow]
      BY <2>1, <2>3, <2>4, <3>1 DEF Pending, RecordingShape
    <3> QED
      BY <2>1, <2>2, <2>3, <3>2, <3>3, <3>4 DEF Pending, RecordingShape
  <2>6. Open(mlflow)'
    BY <2>1, <2>2, <2>4, <2>5 DEF Open
  <2>7. ASSUME NEW q \in Run, q # mlflow PROVE Closed(q)'
    <3>1. Closed(q)
      BY <2>7 DEF Orderly
    <3> QED
      BY <2>1, <2>2, <2>7, <3>1 DEF Closed, Settled, RecordingShape
  <2> QED
    BY <2>1, <2>2, <2>4, <2>6, <2>7 DEF Orderly
<1>3. ASSUME NEW s \in {"FINISHED", "FAILED"}, EndExp(s) PROVE Orderly'
  <2>1. active = mlflow /\ mlflow \in Run /\ main = "on" /\ main' = "ending" /\ active # NoRun
    BY <1>3 DEF EndExp, Orderly, RecordingShape
  <2>2. caller[mlflow] = "running" /\ Pending(mlflow, Len(calls[mlflow])) /\ status[mlflow] = "RUNNING"
    BY <2>1 DEF Orderly, Open
  <2>3. /\ UNCHANGED <<active, mlflow, status, caller, logged, applied>>
        /\ calls' = [calls EXCEPT ![mlflow] = Append(calls[mlflow], STOP_MARK)]
    BY <1>3, <2>1, <2>2 DEF EndExp
  <2>4. calls[mlflow] \in Seq(Calls) /\ Len(calls[mlflow]) \in Nat
    BY <2>1, LenProperties DEF RecordingShape
  <2>5. /\ calls'[mlflow] = Append(calls[mlflow], STOP_MARK)
        /\ calls'[mlflow] # <<>>
        /\ Len(calls'[mlflow]) = Len(calls[mlflow]) + 1
        /\ calls'[mlflow][Len(calls[mlflow]) + 1] = STOP_MARK
        /\ \A i \in 1..Len(calls[mlflow]) : calls'[mlflow][i] = calls[mlflow][i]
    <3>1. calls'[mlflow] = Append(calls[mlflow], STOP_MARK)
      BY <2>1, <2>3 DEF RecordingShape
    <3> QED
      BY <2>4, <3>1, QueueGrows DEF Calls
  <2>6. Pending(mlflow, Len(calls[mlflow]) - 1)'
    BY <2>2, <2>3, <2>4, <2>5 DEF Pending
  <2>7. Open(mlflow)'
    BY <2>1, <2>2, <2>3, <2>5, <2>6 DEF Open
  <2>8. ASSUME NEW q \in Run, q # mlflow PROVE Closed(q)'
    <3>1. Closed(q)
      BY <2>8 DEF Orderly
    <3> QED
      BY <2>1, <2>3, <2>8, <3>1 DEF Closed, Settled, RecordingShape
  <2> QED
    BY <2>1, <2>2, <2>3, <2>7, <2>8 DEF Orderly
<1>4. CASE Waited
  <2>1. active = mlflow /\ mlflow \in Run /\ main' = "on" /\ mlflow' = NoRun /\ active' = NoRun
    BY <1>4 DEF Waited, EndRun, Orderly, RecordingShape
  <2>2. caller[mlflow] = "stopped" /\ Settled(mlflow)
    BY <1>4, <2>1 DEF Waited, Orderly, Open
  <2>3. ASSUME NEW q \in Run PROVE Closed(q)'
    <3>1. CASE q = mlflow
      BY <1>4, <2>2, <3>1 DEF Waited, EndRun, Closed, Settled, RecordingShape
    <3>2. CASE q # mlflow
      <4>1. Closed(q)
        BY <3>2 DEF Orderly
      <4> QED
        BY <1>4, <3>2, <4>1 DEF Waited, EndRun, Closed, Settled
    <3> QED
      BY <3>1, <3>2
  <2> QED
    BY <2>1, <2>3 DEF Orderly
<1>5. CASE MainEnds
  <2>1. active = NoRun /\ mlflow = NoRun /\ main' = "over"
    BY <1>5 DEF MainEnds, Orderly
  <2>2. UNCHANGED <<active, mlflow, status, caller, calls, logged, applied>>
    BY <1>5 DEF MainEnds
  <2>3. ASSUME NEW q \in Run PROVE q # mlflow' /\ Closed(q)'
    BY <2>1, <2>2 DEF Orderly, Closed, Settled
  <2> QED
    BY <2>1, <2>2, <2>3 DEF Orderly
<1>6. CASE Atexit
  BY <1>6 DEF Atexit, Orderly, Closed, Settled, RecordingShape
<1>7. ASSUME NEW r \in Run, NEW raises \in BOOLEAN, CallerTakes(r, raises) PROVE Orderly'
  <2>1. r = mlflow /\ main \in {"on", "ending"} /\ caller[r] = "running" /\ calls[r] # <<>>
    BY <1>7, RunningIsOpen DEF CallerTakes
  <2>2. /\ UNCHANGED <<main, active, mlflow, status, logged>>
        /\ calls' = [calls EXCEPT ![r] = Tail(calls[r])]
    BY <1>7 DEF CallerTakes
  <2>3. /\ Tail(calls[r]) \in Seq(Calls)
        /\ Len(calls[r]) \in Nat \ {0}
        /\ Len(Tail(calls[r])) = Len(calls[r]) - 1
        /\ Head(calls[r]) = calls[r][1]
        /\ \A i \in 1..Len(calls[r]) - 1 : Tail(calls[r])[i] = calls[r][i + 1]
    BY <2>1, QueueShrinks DEF RecordingShape
  <2>4. calls'[r] = Tail(calls[r])
    BY <2>2 DEF RecordingShape
  <2>5. Open(r)'
    <3>1. CASE Head(calls[r]) = STOP_MARK
      <4>1. caller' = [caller EXCEPT ![r] = "stopped"] /\ applied' = applied
        BY <1>7, <3>1 DEF CallerTakes
      <4>2. main = "ending" /\ Pending(r, Len(calls[r]) - 1)
        BY <2>1, <2>3, <3>1 DEF Orderly, Open, Pending, STOP_MARK
      <4>3. Len(calls[r]) = 1
        <5>1. calls[r][1] # "log"
          BY <2>3, <3>1 DEF STOP_MARK
        <5>2. 1 \notin 1..Len(calls[r]) - 1
          BY <4>2, <5>1 DEF Pending
        <5> DEFINE n == Len(calls[r])
        <5>3. n \in Nat \ {0} /\ 1 \notin 1..n - 1
          BY <2>3, <5>2
        <5> HIDE DEF n
        <5>4. n = 1
          BY <5>3
        <5> QED
          BY <5>4 DEF n
      <4>4. calls'[r] = <<>>
        <5>1. Len(Tail(calls[r])) = 0
          BY <2>3, <4>3
        <5> QED
          BY <2>3, <2>4, <5>1, QueueEmpties
      <4>5. applied[r] = logged[r]
        BY <4>2, <4>3 DEF Pending, RecordingShape
      <4> QED
        BY <2>2, <4>1, <4>2, <4>4, <4>5 DEF Open, Settled, RecordingShape
    <3>2. CASE Head(calls[r]) # STOP_MARK
      <4>1. Head(calls[r]) = "log"
        BY <2>3, <3>2 DEF RecordingShape, Calls
      <4>2. ~raises
        BY <1>7, <4>1, <3>2 DEF CallerTakes
      <4>3. caller' = caller /\ applied' = [applied EXCEPT ![r] = applied[r] + 1]
        BY <1>7, <4>1, <4>2, <3>2 DEF CallerTakes, STOP_MARK
      <4>4. applied'[r] = applied[r] + 1
        BY <4>3 DEF RecordingShape
      <4>5. CASE main = "on"
        <5>1. Pending(r, Len(calls[r]))
          BY <2>1, <4>5 DEF Orderly, Open
        <5>2. Pending(r, Len(calls[r]))'
          <6>1. \A i \in 1..Len(calls[r]) - 1 : calls'[r][i] = "log"
            BY <2>3, <2>4, <5>1 DEF Pending
          <6>2. applied'[r] + (Len(calls[r]) - 1) = logged'[r]
            BY <2>2, <2>3, <4>4, <5>1 DEF Pending, RecordingShape
          <6> QED
            BY <2>3, <2>4, <6>1, <6>2 DEF Pending
        <5> QED
          BY <2>1, <2>2, <4>3, <4>5, <5>2 DEF Open
      <4>6. CASE main = "ending"
        <5>1. calls[r][Len(calls[r])] = STOP_MARK /\ Pending(r, Len(calls[r]) - 1)
          BY <2>1, <4>6 DEF Orderly, Open
        <5>2. Len(calls[r]) # 1
          BY <2>3, <3>2, <5>1
        <5>3. Len(calls'[r]) = Len(calls[r]) - 1 /\ calls'[r] # <<>>
          <6>1. Len(Tail(calls[r])) # 0
            BY <2>3, <5>2
          <6>2. Tail(calls[r]) # <<>>
            BY <6>1, EmptySeq, Zenon
          <6> QED
            BY <2>3, <2>4, <6>2
        <5>4. calls'[r][Len(calls'[r])] = STOP_MARK
          BY <2>3, <2>4, <5>1, <5>2, <5>3
        <5>5. Pending(r, Len(calls[r]) - 1)'
          <6>1. \A i \in 1..Len(calls[r]) - 2 : calls'[r][i] = "log"
            BY <2>3, <2>4, <5>1 DEF Pending
          <6>2. applied'[r] + (Len(calls[r]) - 2) = logged'[r]
            <7>1. applied[r] + (Len(calls[r]) - 1) = logged[r]
              BY <5>1 DEF Pending
            <7>2. applied[r] \in Nat /\ Len(calls[r]) \in Nat
              BY <2>3 DEF RecordingShape
            <7>3. logged' = logged
              BY <2>2
            <7> DEFINE n == Len(calls[r])
            <7> HIDE DEF n
            <7>4. applied[r] + (n - 1) = logged[r] /\ n \in Nat
              BY <7>1, <7>2 DEF n
            <7>5. applied'[r] + (n - 2) = logged'[r]
              BY <4>4, <7>2, <7>3, <7>4
            <7> QED
              BY <7>5 DEF n
          <6>3. Len(calls'[r]) - 1 = Len(calls[r]) - 2
            BY <2>3, <2>4
          <6>4. \A i \in 1..Len(calls'[r]) - 1 : calls'[r][i] = "log"
            BY <6>1, <6>3
          <6> QED
            BY <6>2, <6>3, <6>4 DEF Pending
        <5> QED
          BY <2>1, <2>2, <4>3, <4>6, <5>3, <5>4, <5>5 DEF Open
      <4> QED
        BY <2>1, <4>5, <4>6
    <3> QED
      BY <3>1, <3>2
  <2>6. ASSUME NEW q \in Run, q # r PROVE Closed(q)'
    <3>1. Closed(q)
      BY <2>1, <2>6 DEF Orderly
    <3>2. calls'[q] = calls[q] /\ caller'[q] = caller[q] /\ applied'[q] = applied[q]
      BY <1>7, <2>6 DEF CallerTakes, RecordingShape
    <3> QED
      BY <2>2, <3>1, <3>2 DEF Closed, Settled
  <2>7. status[r] = "RUNNING"
    BY <2>1 DEF Orderly
  <2> QED
    BY <2>1, <2>2, <2>5, <2>6, <2>7 DEF Orderly
<1>8. ASSUME NEW r \in Run, CallerLeaves(r) PROVE Orderly'
  BY <1>8, RunningIsOpen DEF CallerLeaves
<1>9. CASE UNCHANGED recordingVars
  BY <1>9 DEF recordingVars, Orderly, Open, Closed, Pending, Settled
<1> QED
  BY <1>1, <1>2, <1>3, <1>4, <1>5, <1>6, <1>7, <1>8, <1>9 DEF RecordingNext, CallerStep

-----------------------------------------------------------------------------

\* As long as no call has raised, no run was started beside another and none was left
\* open, a finished run has all its results: end_exp ends a run only when its
\* AsyncCaller has worked off the queue.
THEOREM FinishedMeansComplete == RecordingSpec => []LogsComplete
<1>1. RecordingInit => RecordingInv
  <2> SUFFICES ASSUME RecordingInit PROVE RecordingInv
    OBVIOUS
  <2>1. \A r \in Run : r # mlflow /\ Closed(r)
    BY RecordingAssumption DEF RecordingInit, Closed, Settled
  <2> QED
    BY <2>1, ShapeInit DEF RecordingInv, RecordingInit, Orderly
<1>2. RecordingInv /\ [RecordingNext]_recordingVars => RecordingInv'
  BY ShapeStep, MishapsStay, OrderlyStep DEF RecordingInv
<1>3. RecordingInv => LogsComplete
  BY DEF RecordingInv, LogsComplete, Orderly, Closed, Settled
<1> QED
  BY <1>1, <1>2, <1>3, PTL DEF RecordingSpec

-----------------------------------------------------------------------------
(* FiniteEnv: each seed of the dataset has one episode.                     *)

FiniteShape ==
    /\ produced \in Nat /\ produced <= NumSeeds
    /\ buffer \in Seq(Nat) /\ pipe \in Seq(Nat) /\ finished \in Seq(Nat)
    /\ done \in BOOLEAN /\ failed \in BOOLEAN /\ crossed \in BOOLEAN
    /\ env \in [Env -> {"get", "empty", "has", "exhausted"}]
    /\ seed \in [Env -> Nat]
    /\ point \in {"reset", "step", "over"}
    /\ waits \subseteq Env /\ alive \subseteq Env

\* Seeds that have left the queue.
SeedsTaken == produced - (Len(pipe) + Len(buffer))

\* The queue holds the seeds put and not taken, in their order.
SeedsInOrder ==
         /\ SeedsTaken \in Nat
         /\ \A i \in 1..Len(pipe) : pipe[i] = SeedsTaken + i
         /\ \A i \in 1..Len(buffer) : buffer[i] = SeedsTaken + Len(pipe) + i

Plays(e, s) == env[e] = "has" /\ seed[e] = s
Finished(s) == \E i \in DOMAIN finished : finished[i] = s

\* A seed that was taken is played or finished, once.
OneEach ==
    /\ IsInjective(finished)
    /\ \A s \in Nat : s \in 1..SeedsTaken <=> (Finished(s) \/ \E e \in Env : Plays(e, s))
    /\ \A e \in Env : \A s \in Nat : Plays(e, s) =>
          ~Finished(s) /\ \A f \in Env : Plays(f, s) => f = e

\* Only environments in a reset are without a seed and not exhausted.
Cycle ==
    /\ waits \subseteq alive
    /\ point # "reset" => waits = {}
    /\ point = "over" => alive = {}
    /\ \A e \in Env \ alive : env[e] = "exhausted"
    /\ \A e \in alive \ waits : env[e] = "has"

\* An environment gives up when the producer has ended, and unless one has missed
\* a seed on its way, with the queue empty.
Exhaustion ==
    /\ failed <=> done /\ produced < NumSeeds
    /\ \A e \in Env : env[e] = "exhausted" =>
          done /\ (~crossed => pipe = <<>> /\ buffer = <<>>)

FiniteInv == FiniteShape /\ SeedsInOrder /\ OneEach /\ Cycle /\ Exhaustion

-----------------------------------------------------------------------------
(* Sequences.                                                              *)

LEMMA EmptyQueue == <<>> \in Seq(Nat) /\ Len(<<>>) = 0 /\ DOMAIN <<>> = {}
<1>1. <<>> \in Seq(Nat) /\ Len(<<>>) = 0
  BY EmptySeq
<1>2. DOMAIN <<>> = 1..0
  BY <1>1, LenProperties, Zenon
<1>3. 1..0 = {}
  OBVIOUS
<1> QED
  BY <1>1, <1>2, <1>3

LEMMA QueueAppended ==
    ASSUME NEW q \in Seq(Nat), NEW x \in Nat
    PROVE  /\ Append(q, x) \in Seq(Nat)
           /\ Len(q) \in Nat
           /\ Len(Append(q, x)) = Len(q) + 1
           /\ DOMAIN q = 1..Len(q)
           /\ DOMAIN Append(q, x) = 1..Len(q) + 1
           /\ Append(q, x)[Len(q) + 1] = x
           /\ \A i \in 1..Len(q) : Append(q, x)[i] = q[i]
<1>1. /\ Append(q, x) \in Seq(Nat) /\ Len(Append(q, x)) = Len(q) + 1
      /\ Append(q, x)[Len(q) + 1] = x
      /\ \A i \in 1..Len(q) : Append(q, x)[i] = q[i]
  BY AppendProperties
<1>2. Len(q) \in Nat /\ DOMAIN q = 1..Len(q)
  BY LenProperties
<1>3. DOMAIN Append(q, x) = 1..Len(Append(q, x))
  BY <1>1, LenProperties
<1> QED
  BY <1>1, <1>2, <1>3

LEMMA Headed ==
    ASSUME NEW q \in Seq(Nat), q # <<>>
    PROVE  /\ Head(q) \in Nat /\ Tail(q) \in Seq(Nat)
           /\ Len(q) \in Nat \ {0}
           /\ Len(Tail(q)) = Len(q) - 1
           /\ Head(q) = q[1]
           /\ \A i \in 1..Len(q) - 1 : Tail(q)[i] = q[i + 1]
<1>1. Len(q) \in Nat /\ Len(q) # 0
  BY LenProperties, EmptySeq
<1>2. Tail(q) \in Seq(Nat) /\ Len(Tail(q)) = Len(q) - 1 /\ Head(q) = q[1] /\ Head(q) \in Nat
  BY <1>1, HeadTailProperties
<1>3. \A i \in 1..Len(q) - 1 : Tail(q)[i] = q[i + 1]
  BY <1>1, <1>2, HeadTailProperties
<1> QED
  BY <1>1, <1>2, <1>3

\* A seed behind those that are finished.
LEMMA OneMore ==
    ASSUME NEW q \in Seq(Nat), NEW x \in Nat, IsInjective(q), \A i \in DOMAIN q : q[i] # x
    PROVE  /\ Append(q, x) \in Seq(Nat)
           /\ IsInjective(Append(q, x))
           /\ \A s \in Nat : (\E i \in DOMAIN Append(q, x) : Append(q, x)[i] = s)
                               <=> (s = x \/ \E i \in DOMAIN q : q[i] = s)
<1> DEFINE r == Append(q, x)
           n == Len(q)
<1>1. /\ n \in Nat /\ DOMAIN q = 1..n /\ DOMAIN r = 1..n + 1 /\ r \in Seq(Nat)
      /\ r[n + 1] = x /\ \A i \in 1..n : r[i] = q[i]
  BY QueueAppended
<1> HIDE DEF r, n
<1>2. \A i \in DOMAIN r : i = n + 1 \/ i \in DOMAIN q
  BY <1>1
<1>3. n + 1 \in DOMAIN r /\ \A i \in DOMAIN q : i \in DOMAIN r
  BY <1>1
<1>4. IsInjective(r)
  <2> SUFFICES ASSUME NEW i \in DOMAIN r, NEW j \in DOMAIN r, r[i] = r[j] PROVE i = j
    BY DEF IsInjective
  <2>1. CASE i = n + 1 /\ j = n + 1
    BY <2>1
  <2>2. CASE i = n + 1 /\ j \in DOMAIN q
    BY <1>1, <2>2
  <2>3. CASE i \in DOMAIN q /\ j = n + 1
    BY <1>1, <2>3
  <2>4. CASE i \in DOMAIN q /\ j \in DOMAIN q
    BY <1>1, <2>4 DEF IsInjective
  <2> QED
    BY <1>2, <2>1, <2>2, <2>3, <2>4
<1>5. \A s \in Nat : (\E i \in DOMAIN r : r[i] = s) <=> (s = x \/ \E i \in DOMAIN q : q[i] = s)
  BY <1>1, <1>2, <1>3
<1> QED
  BY <1>1, <1>4, <1>5 DEF r

-----------------------------------------------------------------------------

LEMMA InitInv == FiniteInit => FiniteInv
<1> SUFFICES ASSUME FiniteInit PROVE FiniteInv
  OBVIOUS
<1>1. FiniteShape
  <2>1. buffer \in Seq(Nat) /\ pipe \in Seq(Nat) /\ finished \in Seq(Nat)
    BY EmptyQueue DEF FiniteInit
  <2>2. produced \in Nat /\ produced <= NumSeeds
    BY FiniteEnvAssumption DEF FiniteInit
  <2>3. done \in BOOLEAN /\ failed \in BOOLEAN /\ crossed \in BOOLEAN
    BY DEF FiniteInit
  <2>4. /\ env \in [Env -> {"get", "empty", "has", "exhausted"}] /\ seed \in [Env -> Nat]
        /\ point \in {"reset", "step", "over"} /\ waits \subseteq Env /\ alive \subseteq Env
    BY DEF FiniteInit
  <2> QED
    BY <2>1, <2>2, <2>3, <2>4 DEF FiniteShape
<1>2. Len(pipe) = 0 /\ Len(buffer) = 0 /\ SeedsTaken = 0
  <2>1. Len(pipe) = 0 /\ Len(buffer) = 0 /\ produced = 0
    BY EmptyQueue DEF FiniteInit
  <2> QED
    BY <2>1 DEF SeedsTaken
<1>3. SeedsInOrder
  BY <1>2 DEF SeedsInOrder
<1>4. \A e \in Env : \A s \in Nat : ~Plays(e, s)
  BY DEF FiniteInit, Plays
<1>5. \A s \in Nat : ~Finished(s)
  BY EmptyQueue DEF FiniteInit, Finished
<1>6. IsInjective(finished)
  BY EmptyQueue DEF FiniteInit, IsInjective
<1>7. \A s \in Nat : s \notin 1..SeedsTaken
  BY <1>2
<1>8. OneEach
  BY <1>4, <1>5, <1>6, <1>7 DEF OneEach
<1>9. Cycle /\ Exhaustion
  BY DEF FiniteInit, Cycle, Exhaustion
<1> QED
  BY <1>1, <1>3, <1>8, <1>9 DEF FiniteInv

\* The seeds that are out, and who has them, are as they were.
LEMMA OneEachStays ==
    ASSUME OneEach, SeedsTaken' = SeedsTaken, finished' = finished,
           \A e \in Env : \A s \in Nat : Plays(e, s)' <=> Plays(e, s)
    PROVE  OneEach'
BY DEF OneEach, Finished

\* The seeds of the environments in W are finished.
LEMMA OneEachFinishes ==
    ASSUME OneEach, SeedsTaken' = SeedsTaken, NEW W \in SUBSET Env,
           IsInjective(finished'),
           \A s \in Nat : Finished(s)' <=> (Finished(s) \/ \E e \in W : Plays(e, s)),
           \A e \in Env : \A s \in Nat : Plays(e, s)' <=> (e \notin W /\ Plays(e, s))
    PROVE  OneEach'
BY DEF OneEach

-----------------------------------------------------------------------------
(* The queue.                                                              *)

LEMMA ProduceKeeps == ASSUME FiniteInv, Produce PROVE FiniteInv'
<1> USE DEF FiniteInv
<1>1. /\ produced' = produced + 1 /\ produced < NumSeeds /\ ~done
      /\ buffer' = Append(buffer, produced + 1)
      /\ UNCHANGED <<pipe, done, failed, env, seed, point, waits, alive, finished, crossed>>
  BY DEF Produce, vectorVars
<1>2. produced \in Nat /\ pipe \in Seq(Nat) /\ buffer \in Seq(Nat) /\ Len(pipe) \in Nat
  BY LenProperties DEF FiniteShape
<1>3. /\ buffer' \in Seq(Nat) /\ Len(buffer) \in Nat /\ Len(buffer') = Len(buffer) + 1
      /\ buffer'[Len(buffer) + 1] = produced + 1
      /\ \A i \in 1..Len(buffer) : buffer'[i] = buffer[i]
  BY <1>1, <1>2, QueueAppended
<1>4. SeedsTaken' = SeedsTaken
  BY <1>1, <1>2, <1>3 DEF SeedsTaken
<1>5. FiniteShape'
  BY <1>1, <1>2, <1>3, FiniteEnvAssumption DEF FiniteShape
<1>6. SeedsInOrder'
  <2>1. \A i \in 1..Len(buffer') : buffer'[i] = SeedsTaken + Len(pipe) + i
    <3> SUFFICES ASSUME NEW i \in 1..Len(buffer') PROVE buffer'[i] = SeedsTaken + Len(pipe) + i
      OBVIOUS
    <3>1. CASE i \in 1..Len(buffer)
      BY <1>3, <3>1 DEF SeedsInOrder
    <3>2. CASE i = Len(buffer) + 1
      <4>1. SeedsTaken + Len(pipe) + i = produced + 1
        BY <1>2, <1>3, <3>2 DEF SeedsTaken
      <4> QED
        BY <1>3, <3>2, <4>1
    <3> QED
      BY <1>3, <3>1, <3>2
  <2> QED
    BY <1>1, <1>4, <2>1 DEF SeedsInOrder
<1>7. OneEach'
  BY <1>1, <1>4, OneEachStays DEF Plays
<1>8. Cycle'
  BY <1>1 DEF Cycle
<1>9. Exhaustion'
  BY <1>1 DEF Exhaustion
<1> QED
  BY <1>5, <1>6, <1>7, <1>8, <1>9

LEMMA ProducerEndsKeeps == ASSUME FiniteInv, ProducerEnds PROVE FiniteInv'
<1> USE DEF FiniteInv
<1>1. /\ ~done /\ done' = TRUE /\ failed' = (produced < NumSeeds)
      /\ UNCHANGED <<produced, buffer, pipe, env, seed, point, waits, alive, finished, crossed>>
  BY DEF ProducerEnds, vectorVars
<1>2. SeedsTaken' = SeedsTaken
  BY <1>1 DEF SeedsTaken
<1>3. failed' \in BOOLEAN
  BY <1>1
<1>4. FiniteShape'
  BY <1>1, <1>3 DEF FiniteShape
<1>5. SeedsInOrder'
  BY <1>1, <1>2 DEF SeedsInOrder
<1>6. OneEach'
  BY <1>1, <1>2, OneEachStays DEF Plays
<1>7. Cycle'
  BY <1>1 DEF Cycle
<1>8. Exhaustion'
  <2>1. failed' <=> done' /\ produced' < NumSeeds
    BY <1>1
  <2> QED
    BY <1>1, <2>1 DEF Exhaustion
<1> QED
  BY <1>4, <1>5, <1>6, <1>7, <1>8

LEMMA FeedKeeps == ASSUME FiniteInv, Feed PROVE FiniteInv'
<1> USE DEF FiniteInv
<1>1. /\ buffer # <<>> /\ pipe' = Append(pipe, Head(buffer)) /\ buffer' = Tail(buffer)
      /\ UNCHANGED <<produced, done, failed, env, seed, point, waits, alive, finished, crossed>>
  BY DEF Feed, vectorVars
<1>2. produced \in Nat /\ pipe \in Seq(Nat) /\ buffer \in Seq(Nat)
  BY DEF FiniteShape
<1>3. /\ Head(buffer) \in Nat /\ buffer' \in Seq(Nat) /\ Len(buffer) \in Nat \ {0}
      /\ Len(buffer') = Len(buffer) - 1 /\ Head(buffer) = buffer[1]
      /\ \A i \in 1..Len(buffer) - 1 : buffer'[i] = buffer[i + 1]
  BY <1>1, <1>2, Headed
<1>4. /\ pipe' \in Seq(Nat) /\ Len(pipe) \in Nat /\ Len(pipe') = Len(pipe) + 1
      /\ pipe'[Len(pipe) + 1] = Head(buffer)
      /\ \A i \in 1..Len(pipe) : pipe'[i] = pipe[i]
  BY <1>1, <1>2, <1>3, QueueAppended
<1>5. SeedsTaken' = SeedsTaken
  BY <1>1, <1>2, <1>3, <1>4 DEF SeedsTaken
<1>6. FiniteShape'
  BY <1>1, <1>3, <1>4 DEF FiniteShape
<1>7. SeedsInOrder'
  <2>1. SeedsTaken \in Nat /\ buffer[1] = SeedsTaken + Len(pipe) + 1
    BY <1>3 DEF SeedsInOrder
  <2>2. \A i \in 1..Len(pipe') : pipe'[i] = SeedsTaken + i
    <3> SUFFICES ASSUME NEW i \in 1..Len(pipe') PROVE pipe'[i] = SeedsTaken + i
      OBVIOUS
    <3>1. CASE i \in 1..Len(pipe)
      BY <1>4, <3>1 DEF SeedsInOrder
    <3>2. CASE i = Len(pipe) + 1
      BY <1>3, <1>4, <2>1, <3>2
    <3> QED
      BY <1>4, <3>1, <3>2
  <2>3. \A i \in 1..Len(buffer') : buffer'[i] = SeedsTaken + Len(pipe') + i
    BY <1>3, <1>4, <2>1 DEF SeedsInOrder
  <2> QED
    BY <1>5, <2>1, <2>2, <2>3 DEF SeedsInOrder
<1>8. OneEach'
  BY <1>1, <1>5, OneEachStays DEF Plays
<1>9. Cycle'
  BY <1>1 DEF Cycle
<1>10. Exhaustion'
  BY <1>1 DEF Exhaustion
<1> QED
  BY <1>6, <1>7, <1>8, <1>9, <1>10

\* The one that takes a seed is the only one that has it: it is beyond all taken before.
LEMMA TakeSeedKeeps == ASSUME FiniteInv, NEW e \in Env, TakeSeed(e) PROVE FiniteInv'
<1> USE DEF FiniteInv
<1>1. /\ env[e] = "get" /\ pipe # <<>>
      /\ seed' = [seed EXCEPT ![e] = Head(pipe)] /\ pipe' = Tail(pipe)
      /\ env' = [env EXCEPT ![e] = "has"]
      /\ UNCHANGED <<produced, buffer, done, failed, point, waits, alive, finished, crossed>>
  BY DEF TakeSeed, producerVars, vectorVars
<1>2. produced \in Nat /\ pipe \in Seq(Nat) /\ buffer \in Seq(Nat) /\ Len(buffer) \in Nat
  BY LenProperties DEF FiniteShape
<1>3. /\ Head(pipe) \in Nat /\ pipe' \in Seq(Nat) /\ Len(pipe) \in Nat \ {0}
      /\ Len(pipe') = Len(pipe) - 1 /\ Head(pipe) = pipe[1]
      /\ \A i \in 1..Len(pipe) - 1 : pipe'[i] = pipe[i + 1]
  BY <1>1, <1>2, Headed
<1>4. SeedsTaken \in Nat /\ SeedsTaken' = SeedsTaken + 1 /\ Head(pipe) = SeedsTaken + 1
  BY <1>1, <1>2, <1>3 DEF SeedsTaken, SeedsInOrder
<1>5. FiniteShape'
  BY <1>1, <1>3 DEF FiniteShape
<1>6. SeedsInOrder'
  <2>1. \A i \in 1..Len(pipe') : pipe'[i] = SeedsTaken' + i
    BY <1>3, <1>4 DEF SeedsInOrder
  <2>2. \A i \in 1..Len(buffer) : buffer[i] = SeedsTaken' + Len(pipe') + i
    BY <1>2, <1>3, <1>4 DEF SeedsInOrder
  <2> QED
    BY <1>1, <1>4, <2>1, <2>2 DEF SeedsInOrder
<1>7. OneEach'
  <2>1. \A s \in Nat : Finished(s)' <=> Finished(s)
    BY <1>1 DEF Finished
  <2>2. \A f \in Env : \A s \in Nat :
          Plays(f, s)' <=> IF f = e THEN s = SeedsTaken + 1 ELSE Plays(f, s)
    BY <1>1, <1>4 DEF Plays, FiniteShape
  <2>3. \A s \in Nat : ~Plays(e, s)
    BY <1>1 DEF Plays
  <2>4. SeedsTaken + 1 \in Nat /\ SeedsTaken + 1 \notin 1..SeedsTaken
    BY <1>4
  <2>5. ~Finished(SeedsTaken + 1) /\ \A f \in Env : ~Plays(f, SeedsTaken + 1)
    BY <2>4 DEF OneEach
  <2>6. \A s \in Nat : s \in 1..SeedsTaken' <=> (s \in 1..SeedsTaken \/ s = SeedsTaken + 1)
    BY <1>4
  <2>7. \A s \in Nat : s \in 1..SeedsTaken' <=> (Finished(s)' \/ \E f \in Env : Plays(f, s)')
    BY <2>1, <2>2, <2>3, <2>4, <2>6 DEF OneEach
  <2>8. \A f \in Env : \A s \in Nat : Plays(f, s)' =>
          ~Finished(s)' /\ \A g \in Env : Plays(g, s)' => g = f
    BY <2>1, <2>2, <2>5 DEF OneEach
  <2>9. IsInjective(finished')
    BY <1>1 DEF OneEach
  <2> QED
    BY <2>7, <2>8, <2>9 DEF OneEach
<1>8. Cycle'
  BY <1>1 DEF Cycle, FiniteShape
<1>9. Exhaustion'
  <2>1. ASSUME NEW f \in Env, env'[f] = "exhausted", ~crossed PROVE FALSE
    BY <1>1, <2>1 DEF Exhaustion, FiniteShape
  <2> QED
    BY <1>1, <2>1 DEF Exhaustion, FiniteShape
<1> QED
  BY <1>5, <1>6, <1>7, <1>8, <1>9

LEMMA FindNothingKeeps == ASSUME FiniteInv, NEW e \in Env, FindNothing(e) PROVE FiniteInv'
<1> USE DEF FiniteInv
<1>1. /\ env[e] = "get" /\ env' = [env EXCEPT ![e] = "empty"]
      /\ UNCHANGED <<produced, buffer, done, failed, pipe, seed, point, waits, alive, finished, crossed>>
  BY DEF FindNothing, producerVars, vectorVars
<1>2. SeedsTaken' = SeedsTaken
  BY <1>1 DEF SeedsTaken
<1>3. FiniteShape'
  BY <1>1 DEF FiniteShape
<1>4. SeedsInOrder'
  BY <1>1, <1>2 DEF SeedsInOrder
<1>5. \A f \in Env : \A s \in Nat : Plays(f, s)' <=> Plays(f, s)
  BY <1>1 DEF Plays, FiniteShape
<1>6. OneEach'
  BY <1>1, <1>2, <1>5, OneEachStays
<1>7. Cycle' /\ Exhaustion'
  BY <1>1 DEF Cycle, Exhaustion, FiniteShape
<1> QED
  BY <1>3, <1>4, <1>6, <1>7

LEMMA GiveUpKeeps == ASSUME FiniteInv, NEW e \in Env, GiveUp(e) PROVE FiniteInv'
<1> USE DEF FiniteInv
<1>1. /\ env[e] = "empty" /\ env' = [env EXCEPT ![e] = IF done THEN "exhausted" ELSE "get"]
      /\ crossed' = (crossed \/ (done /\ (buffer # <<>> \/ pipe # <<>>)))
      /\ UNCHANGED <<produced, buffer, done, failed, pipe, seed, point, waits, alive, finished>>
  BY DEF GiveUp, GivesUp, producerVars, vectorVars
<1>2. SeedsTaken' = SeedsTaken
  BY <1>1 DEF SeedsTaken
<1>3. FiniteShape'
  <2>1. crossed' \in BOOLEAN
    BY <1>1
  <2> QED
    BY <1>1, <2>1 DEF FiniteShape
<1>4. SeedsInOrder'
  BY <1>1, <1>2 DEF SeedsInOrder
<1>5. \A f \in Env : \A s \in Nat : Plays(f, s)' <=> Plays(f, s)
  BY <1>1 DEF Plays, FiniteShape
<1>6. OneEach'
  BY <1>1, <1>2, <1>5, OneEachStays
<1>7. Cycle'
  BY <1>1 DEF Cycle, FiniteShape
<1>8. Exhaustion'
  <2>1. ASSUME NEW f \in Env, env'[f] = "exhausted"
        PROVE  done' /\ (~crossed' => pipe' = <<>> /\ buffer' = <<>>)
    <3>1. CASE f = e
      BY <1>1, <2>1, <3>1 DEF FiniteShape
    <3>2. CASE f # e
      BY <1>1, <2>1, <3>2 DEF FiniteShape, Exhaustion
    <3> QED
      BY <3>1, <3>2
  <2>2. failed' <=> done' /\ produced' < NumSeeds
    BY <1>1 DEF Exhaustion
  <2> QED
    BY <2>1, <2>2 DEF Exhaustion
<1> QED
  BY <1>3, <1>4, <1>6, <1>7, <1>8

-----------------------------------------------------------------------------
(* The vector environment.                                                 *)

LEMMA ResetReturnsKeeps == ASSUME FiniteInv, ResetReturns PROVE FiniteInv'
<1> USE DEF FiniteInv
<1>1. /\ point = "reset" /\ \A e \in waits : env[e] \in {"has", "exhausted"}
      /\ alive' = alive \ {e \in waits : env[e] = "exhausted"}
      /\ point' = IF alive' = {} THEN "over" ELSE "step"
      /\ waits' = {}
      /\ UNCHANGED <<produced, buffer, done, failed, pipe, env, seed, finished, crossed>>
  BY DEF ResetReturns, StillAlive, producerVars
<1>2. SeedsTaken' = SeedsTaken
  BY <1>1 DEF SeedsTaken
<1>3. FiniteShape'
  BY <1>1 DEF FiniteShape
<1>4. SeedsInOrder'
  BY <1>1, <1>2 DEF SeedsInOrder
<1>5. OneEach'
  BY <1>1, <1>2, OneEachStays DEF Plays
<1>6. Cycle'
  BY <1>1 DEF Cycle, FiniteShape
<1>7. Exhaustion'
  BY <1>1 DEF Exhaustion
<1> QED
  BY <1>3, <1>4, <1>5, <1>6, <1>7

LEMMA EpisodeEndsKeeps == ASSUME FiniteInv, NEW e \in Env, EpisodeEnds(e) PROVE FiniteInv'
<1> USE DEF FiniteInv
<1>1. /\ point = "step" /\ e \in alive /\ point' = "reset" /\ waits' = {e}
      /\ finished' = Append(finished, seed[e])
      /\ seed' = [seed EXCEPT ![e] = 0] /\ env' = [env EXCEPT ![e] = "get"]
      /\ UNCHANGED <<produced, buffer, done, failed, pipe, alive, crossed>>
  BY DEF EpisodeEnds, producerVars
<1>2. SeedsTaken' = SeedsTaken
  BY <1>1 DEF SeedsTaken
<1>3. env[e] = "has" /\ Plays(e, seed[e]) /\ seed[e] \in Nat
  BY <1>1 DEF Cycle, Plays, FiniteShape
<1>4. IsInjective(finished) /\ \A i \in DOMAIN finished : finished[i] # seed[e]
  BY <1>3 DEF OneEach, Finished
<1>5. /\ finished' \in Seq(Nat) /\ IsInjective(finished')
      /\ \A s \in Nat : Finished(s)' <=> (s = seed[e] \/ Finished(s))
  <2> DEFINE more == Append(finished, seed[e])
  <2>1. finished \in Seq(Nat)
    BY DEF FiniteShape
  <2>2. /\ more \in Seq(Nat) /\ IsInjective(more)
        /\ \A s \in Nat : (\E i \in DOMAIN more : more[i] = s)
                            <=> (s = seed[e] \/ \E i \in DOMAIN finished : finished[i] = s)
    BY <1>3, <1>4, <2>1, OneMore
  <2> HIDE DEF more
  <2>3. finished' = more
    BY <1>1 DEF more
  <2> QED
    BY <2>2, <2>3 DEF Finished
<1>6. FiniteShape'
  BY <1>1, <1>5 DEF FiniteShape
<1>7. SeedsInOrder'
  BY <1>1, <1>2 DEF SeedsInOrder
<1>8. OneEach'
  <2>1. \A s \in Nat : Finished(s)' <=> (Finished(s) \/ \E f \in {e} : Plays(f, s))
    BY <1>3, <1>5 DEF Plays
  <2>2. \A f \in Env : \A s \in Nat : Plays(f, s)' <=> (f \notin {e} /\ Plays(f, s))
    BY <1>1 DEF Plays, FiniteShape
  <2> QED
    BY <1>2, <1>5, <2>1, <2>2, OneEachFinishes
<1>9. Cycle'
  BY <1>1 DEF Cycle, FiniteShape
<1>10. Exhaustion'
  BY <1>1 DEF Exhaustion, FiniteShape
<1> QED
  BY <1>6, <1>7, <1>8, <1>9, <1>10

LEMMA EpisodesEndKeeps ==
    ASSUME FiniteInv, NEW e \in Env, NEW f \in Env, EpisodesEnd(e, f)
    PROVE  FiniteInv'
<1> USE DEF FiniteInv
<1>1. /\ point = "step" /\ e \in alive /\ f \in alive /\ e # f
      /\ point' = "reset" /\ waits' = {e, f}
      /\ finished' = Append(Append(finished, seed[e]), seed[f])
      /\ seed' = [seed EXCEPT ![e] = 0, ![f] = 0]
      /\ env' = [env EXCEPT ![e] = "get", ![f] = "get"]
      /\ UNCHANGED <<produced, buffer, done, failed, pipe, alive, crossed>>
  BY DEF EpisodesEnd, producerVars
<1>2. SeedsTaken' = SeedsTaken
  BY <1>1 DEF SeedsTaken
<1>3. /\ Plays(e, seed[e]) /\ seed[e] \in Nat
      /\ Plays(f, seed[f]) /\ seed[f] \in Nat
  BY <1>1 DEF Cycle, Plays, FiniteShape
<1>4. seed[e] # seed[f]
  BY <1>1, <1>3 DEF OneEach
<1>5. /\ IsInjective(finished)
      /\ \A i \in DOMAIN finished : finished[i] # seed[e] /\ finished[i] # seed[f]
  BY <1>3 DEF OneEach, Finished
<1> DEFINE more == Append(finished, seed[e])
<1>6. /\ more \in Seq(Nat) /\ IsInjective(more)
      /\ \A s \in Nat : (\E i \in DOMAIN more : more[i] = s)
                          <=> (s = seed[e] \/ \E i \in DOMAIN finished : finished[i] = s)
  BY <1>3, <1>5, OneMore DEF FiniteShape
<1> HIDE DEF more
<1>7. \A i \in DOMAIN more : more[i] # seed[f]
  BY <1>3, <1>4, <1>5, <1>6
<1>8. /\ Append(more, seed[f]) \in Seq(Nat) /\ IsInjective(Append(more, seed[f]))
      /\ \A s \in Nat : (\E i \in DOMAIN Append(more, seed[f]) : Append(more, seed[f])[i] = s)
                          <=> (s = seed[f] \/ \E i \in DOMAIN more : more[i] = s)
  BY <1>3, <1>6, <1>7, OneMore
<1>9. finished' = Append(more, seed[f])
  BY <1>1 DEF more
<1>10. /\ finished' \in Seq(Nat) /\ IsInjective(finished')
       /\ \A s \in Nat : Finished(s)' <=> (s = seed[f] \/ s = seed[e] \/ Finished(s))
  BY <1>6, <1>8, <1>9 DEF Finished
<1>11. FiniteShape'
  BY <1>1, <1>10 DEF FiniteShape
<1>12. SeedsInOrder'
  BY <1>1, <1>2 DEF SeedsInOrder
<1>13. OneEach'
  <2>1. \A s \in Nat : Finished(s)' <=> (Finished(s) \/ \E g \in {e, f} : Plays(g, s))
    BY <1>3, <1>10 DEF Plays
  <2>2. \A g \in Env : \A s \in Nat : Plays(g, s)' <=> (g \notin {e, f} /\ Plays(g, s))
    BY <1>1 DEF Plays, FiniteShape
  <2> QED
    BY <1>2, <1>10, <2>1, <2>2, OneEachFinishes
<1>14. Cycle'
  BY <1>1 DEF Cycle, FiniteShape
<1>15. Exhaustion'
  BY <1>1 DEF Exhaustion, FiniteShape
<1> QED
  BY <1>11, <1>12, <1>13, <1>14, <1>15

-----------------------------------------------------------------------------

LEMMA FiniteNextKeeps == FiniteInv /\ [FiniteNext]_finiteVars => FiniteInv'
<1> SUFFICES ASSUME FiniteInv, [FiniteNext]_finiteVars PROVE FiniteInv'
  OBVIOUS
<1>1. CASE UNCHANGED finiteVars
  BY <1>1 DEF finiteVars, producerVars, vectorVars, FiniteInv, FiniteShape, SeedsInOrder, SeedsTaken,
              OneEach, Plays, Finished, Cycle, Exhaustion
<1> QED
  BY <1>1, ProduceKeeps, ProducerEndsKeeps, FeedKeeps, TakeSeedKeeps, FindNothingKeeps,
     GiveUpKeeps, ResetReturnsKeeps, EpisodeEndsKeeps, EpisodesEndKeeps DEF FiniteNext

LEMMA SeedsHold == FiniteInv => SeedsOnce
<1> SUFFICES ASSUME FiniteInv, point = "over", ~crossed
             PROVE  Range(finished) = IF failed THEN 1..produced ELSE Seeds
  BY DEF FiniteInv, OneEach, SeedsOnce
<1>1. PICK e \in Env : TRUE
  BY FiniteEnvAssumption
<1>2. \A f \in Env : env[f] = "exhausted"
  BY DEF FiniteInv, Cycle
<1>3. done /\ pipe = <<>> /\ buffer = <<>>
  BY <1>1, <1>2 DEF FiniteInv, Exhaustion
<1>4. produced \in Nat /\ SeedsTaken = produced
  <2>1. Len(pipe) = 0 /\ Len(buffer) = 0
    BY <1>3, EmptyQueue
  <2> QED
    BY <2>1 DEF FiniteInv, FiniteShape, SeedsTaken
<1>5. \A s \in Nat : s \in 1..produced <=> Finished(s)
  BY <1>2, <1>4 DEF FiniteInv, OneEach, Plays
<1>6. \A i \in DOMAIN finished : finished[i] \in Nat
  BY ElementOfSeq, LenProperties DEF FiniteInv, FiniteShape
<1>7. Range(finished) = 1..produced
  BY <1>5, <1>6 DEF Range, Finished
<1>8. ~failed => produced = NumSeeds
  BY <1>3, FiniteEnvAssumption DEF FiniteInv, FiniteShape, Exhaustion
<1> QED
  BY <1>7, <1>8 DEF Seeds

\* Every seed the producer has put is consumed by exactly one environment, unless a get
\* timed out with a seed on its way: the queue hands the seeds out in their order, and an
\* environment gives up only when it is empty for good.
THEOREM SeedsArePlayedOnce == FiniteSpec => []SeedsOnce
BY InitInv, FiniteNextKeeps, SeedsHold, PTL DEF FiniteSpec

-----------------------------------------------------------------------------
(* OnlineRolling: the signals of a day are of the model of its segment.     *)

OnlineShape ==
    /\ day \in Nat \ {0} /\ served \in Nat /\ served <= day
    /\ stage \in {"new", "idle", "trained", "offline", "online", "updated"}
    /\ first \in BOOLEAN /\ broken \in BOOLEAN /\ missed \in BOOLEAN

LatestRecorder == Len(recorders)
Preds(i) == recorders[i].preds
CurrentSegment == SegmentOf(day)

\* One recorder for each segment that has begun; the last one may wait for the routine.
OneModelEach ==
    /\ recorders \in Seq([segment : Nat, preds : SUBSET Nat, online : BOOLEAN])
    /\ \A i \in 1..LatestRecorder : recorders[i].segment = i - 1
    /\ stage = "new" => LatestRecorder = 0 /\ served = 0
    /\ stage # "new" => LatestRecorder \in {CurrentSegment, CurrentSegment + 1} /\ LatestRecorder # 0
    /\ stage \notin {"new", "idle"} => LatestRecorder = CurrentSegment + 1

\* A recorder predicts the days from the first one of its segment to some later one, and
\* all days of a segment that is over.
RecorderPredictions ==
            \A i \in 1..LatestRecorder :
                /\ Start(i - 1) \in Preds(i)
                /\ \A c \in Preds(i) : Start(i - 1) <= c /\ c <= day
                /\ \A c \in Preds(i) : \A b \in Start(i - 1)..c : b \in Preds(i)
                /\ i - 1 < CurrentSegment => \A c \in 1..day : SegmentOf(c) = i - 1 => c \in Preds(i)

\* The last recorder is online, or about to be.
LastOnline ==
    /\ stage \in {"idle", "online", "updated"} => recorders[LatestRecorder].online
    /\ stage \in {"trained", "offline"} => LatestRecorder \in trained
    /\ stage \in {"online", "updated"} => ~first

\* What a routine has served has its recorder.
ServedDays ==
    /\ served > 0 => SegmentOf(served) + 1 <= LatestRecorder /\ served \in Preds(SegmentOf(served) + 1)
    /\ stage = "updated" => day \in Preds(LatestRecorder)
    /\ signals = {[day |-> c, segment |-> SegmentOf(c)] : c \in 1..served}

InStep == ~broken /\ ~missed
OnlineInv == InStep => OneModelEach /\ RecorderPredictions /\ LastOnline /\ ServedDays


-----------------------------------------------------------------------------
\* A segment holds the days from its start to the start of the next one.
LEMMA SegmentBegins ==
    ASSUME NEW d \in Nat \ {0}
    PROVE  /\ SegmentOf(d) \in Nat
           /\ \A k \in Nat : Start(k) <= d <=> k <= SegmentOf(d)
<1>1. Step \in Nat \ {0} /\ d - 1 \in Nat
  BY OnlineAssumption DEF OnlineAssumption
<1>2. /\ SegmentOf(d) \in Nat
      /\ Step * SegmentOf(d) <= d - 1 /\ d - 1 < Step * SegmentOf(d) + Step
  BY <1>1 DEF SegmentOf
<1>3. \A k \in Nat : k <= SegmentOf(d) <=> k * Step <= d - 1
  <2> DEFINE q == SegmentOf(d)
  <2> HIDE DEF q
  <2>1. \A k \in Nat : k <= q <=> k * Step <= d - 1
    BY <1>1, <1>2 DEF q
  <2> QED BY <2>1 DEF q
<1>4. \A k \in Nat : k * Step \in Nat
  BY <1>1
<1>5. \A k \in Nat : Start(k) <= d <=> k * Step <= d - 1
  BY <1>1, <1>4 DEF Start
<1> QED BY <1>2, <1>3, <1>5

LEMMA StartType ==
    ASSUME NEW k \in Nat
    PROVE  Start(k) \in Nat \ {0} /\ SegmentOf(Start(k)) = k
<1>1. Start(k) \in Nat \ {0} /\ Start(k + 1) = Start(k) + Step
  BY OnlineAssumption DEF OnlineAssumption, Start
<1>2. k + 1 \in Nat /\ ~(Start(k + 1) <= Start(k))
  BY <1>1, OnlineAssumption DEF OnlineAssumption
<1> QED BY <1>1, <1>2, SegmentBegins

LEMMA SegmentsFollow ==
    ASSUME NEW c \in Nat \ {0}, NEW d \in Nat \ {0}, c <= d
    PROVE  /\ SegmentOf(c) <= SegmentOf(d)
           /\ SegmentOf(d + 1) \in {SegmentOf(d), SegmentOf(d) + 1}
<1>1. SegmentOf(c) \in Nat /\ SegmentOf(d) \in Nat /\ SegmentOf(d + 1) \in Nat
  BY SegmentBegins
<1>2. \A k \in Nat : Start(k) \in Nat /\ Start(k + 1) >= Start(k) + 1
  BY OnlineAssumption DEF OnlineAssumption, Start
<1>3. Start(SegmentOf(c)) <= c /\ Start(SegmentOf(d)) <= d
  BY <1>1, SegmentBegins
<1>4. SegmentOf(c) <= SegmentOf(d) /\ SegmentOf(d) <= SegmentOf(d + 1)
  BY <1>1, <1>2, <1>3, SegmentBegins, SMTT(30)
<1>5. SegmentOf(d + 1) <= SegmentOf(d) + 1
  <2> SUFFICES ASSUME SegmentOf(d + 1) > SegmentOf(d) + 1 PROVE FALSE
    BY <1>1
  <2> DEFINE k == SegmentOf(d) + 1
  <2>1. k \in Nat /\ k + 1 <= SegmentOf(d + 1)
    BY <1>1
  <2>2. Start(k + 1) <= d + 1
    BY <2>1, SegmentBegins
  <2>3. Start(k) <= d
    BY <1>2, <2>1, <2>2
  <2> QED BY <1>1, <2>1, <2>3, SegmentBegins
<1> QED BY <1>1, <1>4, <1>5

LEMMA RecorderIs ==
    ASSUME OneModelEach, NEW i \in 1..LatestRecorder
    PROVE  /\ Preds(i) \subseteq Nat /\ recorders[i].online \in BOOLEAN
           /\ recorders[i].segment = i - 1
<1> DEFINE R == [segment : Nat, preds : SUBSET Nat, online : BOOLEAN]
<1>1. recorders[i] \in R
  <2>1. recorders \in Seq(R)
    BY DEF OneModelEach
  <2> HIDE DEF R
  <2> QED BY <2>1, ElementOfSeq DEF LatestRecorder
<1> QED BY <1>1 DEF OneModelEach, Preds

-----------------------------------------------------------------------------
LEMMA OnlineInits == OnlineInit => OnlineShape /\ OnlineInv
<1> SUFFICES ASSUME OnlineInit PROVE OnlineShape /\ OnlineInv
  OBVIOUS
<1> USE DEF OnlineInit
<1>1. day \in Nat \ {0}
  BY OnlineAssumption DEF OnlineAssumption
<1>2. OnlineShape
  <2>1. first \in BOOLEAN /\ broken \in BOOLEAN /\ missed \in BOOLEAN
    OBVIOUS
  <2>2. served \in Nat /\ served <= day /\ stage = "new"
    BY <1>1
  <2> QED BY <1>1, <2>1, <2>2 DEF OnlineShape
<1>3. OneModelEach /\ RecorderPredictions /\ LastOnline
  BY DEF OneModelEach, RecorderPredictions, LastOnline, LatestRecorder
<1>4. ServedDays
  BY DEF ServedDays
<1> QED BY <1>2, <1>3, <1>4 DEF OnlineInv

LEMMA OnlineShapeStep ==
    ASSUME OnlineShape, [OnlineNext]_onlineVars
    PROVE  OnlineShape'
<1> USE DEF OnlineShape, recordersVars
<1>1. CASE NewTradingDay
  BY <1>1 DEF NewTradingDay
<1>2. CASE FirstTrain
  BY <1>2 DEF FirstTrain, Train
<1>3. CASE Routine
  BY <1>3 DEF Routine, Train
<1>4. CASE TagOffline \/ TagOnline \/ UpdatePredictions
  BY <1>4 DEF TagOffline, TagOnline, UpdatePredictions
<1>6. CASE PrepareSignals
  BY <1>6 DEF PrepareSignals
<1>7. CASE RunFails
  BY <1>7 DEF RunFails
<1>5. CASE UNCHANGED onlineVars
  BY <1>5 DEF onlineVars
<1> QED BY <1>1, <1>2, <1>3, <1>4, <1>5, <1>6, <1>7 DEF OnlineNext

-----------------------------------------------------------------------------
(* A day ends.                                                             *)

LEMMA DayStep ==
    ASSUME OnlineShape, InStep, OneModelEach, RecorderPredictions, LastOnline, ServedDays, NewTradingDay, InStep'
    PROVE  OneModelEach' /\ RecorderPredictions' /\ LastOnline' /\ ServedDays'
<1> USE DEF OnlineShape, LatestRecorder, Preds
<1>1. /\ stage = "idle" /\ day' = day + 1
      /\ UNCHANGED <<stage, first, recorders, trained, signals, served>>
  BY DEF NewTradingDay, recordersVars
<1>2. CurrentSegment \in Nat /\ CurrentSegment' \in {CurrentSegment, CurrentSegment + 1} /\ CurrentSegment' = SegmentOf(day + 1)
  BY <1>1, SegmentBegins, SegmentsFollow DEF CurrentSegment
<1>3. CurrentSegment' # CurrentSegment => served = day
  BY <1>1, <1>2 DEF NewTradingDay, InStep, UpToDate, CurrentSegment
<1>4. CurrentSegment' # CurrentSegment => LatestRecorder = CurrentSegment + 1 /\ day \in Preds(LatestRecorder)
  BY <1>2, <1>3 DEF ServedDays, OneModelEach, CurrentSegment
<1>5. OneModelEach'
  BY <1>1, <1>2, <1>4 DEF OneModelEach
<1>6. RecorderPredictions'
  <2> SUFFICES ASSUME NEW i \in 1..LatestRecorder
               PROVE  /\ Start(i - 1) \in Preds(i)
                      /\ \A c \in Preds(i) : Start(i - 1) <= c /\ c <= day + 1
                      /\ \A c \in Preds(i) : \A b \in Start(i - 1)..c : b \in Preds(i)
                      /\ i - 1 < CurrentSegment' => \A c \in 1..(day + 1) : SegmentOf(c) = i - 1 => c \in Preds(i)
    BY <1>1 DEF RecorderPredictions
  <2>1. Preds(i) \subseteq Nat
    BY RecorderIs
  <2>2. \A c \in Preds(i) : c <= day + 1
    BY <2>1 DEF RecorderPredictions
  <2>3. ASSUME i - 1 < CurrentSegment', NEW c \in 1..(day + 1), SegmentOf(c) = i - 1
        PROVE  c \in Preds(i)
    <3>1. c # day + 1
      BY <1>2, <2>3
    <3>2. CASE i - 1 < CurrentSegment
      BY <2>3, <3>1, <3>2 DEF RecorderPredictions
    <3>3. CASE ~(i - 1 < CurrentSegment)
      <4>1. CurrentSegment' # CurrentSegment /\ i = CurrentSegment + 1
        BY <1>2, <2>3, <3>3
      <4>2. day \in Preds(i)
        BY <1>4, <4>1
      <4>3. Start(i - 1) <= c
        BY <2>3, <4>1, SegmentBegins, <1>2
      <4>4. Start(i - 1) \in Nat
        BY <4>1, <1>2, StartType
      <4>5. c \in Start(i - 1)..day
        BY <3>1, <4>3, <4>4
      <4> QED BY <4>2, <4>5 DEF RecorderPredictions
    <3> QED BY <3>2, <3>3
  <2> QED BY <2>2, <2>3 DEF RecorderPredictions
<1>7. LastOnline' /\ ServedDays'
  BY <1>1 DEF LastOnline, ServedDays
<1> QED BY <1>5, <1>6, <1>7

-----------------------------------------------------------------------------
(* Training.                                                               *)

\* A new recorder has all the days of its segment so far.
LEMMA RecorderPredicts ==
    ASSUME OnlineShape, NEW k \in Nat, k <= CurrentSegment
    PROVE  /\ Recorder(k) \in [segment : Nat, preds : SUBSET Nat, online : BOOLEAN]
           /\ Recorder(k).segment = k
           /\ Start(k) \in Recorder(k).preds
           /\ \A c \in Recorder(k).preds : Start(k) <= c /\ c <= day
           /\ \A c \in Recorder(k).preds : \A b \in Start(k)..c : b \in Recorder(k).preds
           /\ \A c \in 1..day : SegmentOf(c) = k => c \in Recorder(k).preds
<1> DEFINE P == {d \in 1..day : SegmentOf(d) = k}
<1>1. Recorder(k) = [segment |-> k, preds |-> P, online |-> FALSE]
  BY DEF Recorder
<1>2. day \in Nat \ {0} /\ CurrentSegment \in Nat
  BY SegmentBegins DEF OnlineShape, CurrentSegment
<1>3. Start(k) \in Nat \ {0} /\ SegmentOf(Start(k)) = k /\ Start(k) <= day
  BY <1>2, StartType, SegmentBegins DEF CurrentSegment
<1>4. P \in SUBSET Nat /\ Start(k) \in P /\ \A c \in P : Start(k) <= c /\ c <= day
  BY <1>2, <1>3, SegmentBegins
<1>5. ASSUME NEW c \in P, NEW b \in Start(k)..c
      PROVE  b \in P
  <2>1. b \in 1..day /\ c \in Nat \ {0} /\ SegmentOf(c) = k /\ Start(k) <= b /\ b <= c
    BY <1>2, <1>3, <1>5
  <2>2. k <= SegmentOf(b) /\ SegmentOf(b) <= k /\ SegmentOf(b) \in Nat
    BY <2>1, SegmentBegins, SegmentsFollow
  <2> QED BY <2>1, <2>2
<1>6. \A c \in 1..day : SegmentOf(c) = k => c \in P
  OBVIOUS
<1>7. [segment |-> k, preds |-> P, online |-> FALSE]
         \in [segment : Nat, preds : SUBSET Nat, online : BOOLEAN]
  <2> HIDE DEF P
  <2> QED BY <1>4
<1>8. Recorder(k).segment = k /\ Recorder(k).preds = P
  <2> HIDE DEF P
  <2> QED BY <1>1
<1> HIDE DEF P
<1> QED BY <1>1, <1>3, <1>4, <1>5, <1>6, <1>7, <1>8

\* Trained are the segments that follow the last one, up to that of the day.
LEMMA TrainStep ==
    ASSUME OnlineShape, InStep, OneModelEach, RecorderPredictions, LastOnline, ServedDays, InStep',
           Train(LatestRecorder, CurrentSegment), LatestRecorder <= CurrentSegment + 1,
           stage \in {"new", "idle"}, stage = "new" => first', stage = "idle" => ~first',
           UNCHANGED <<day, signals, served>>
    PROVE  OneModelEach' /\ RecorderPredictions' /\ LastOnline' /\ ServedDays'
<1> DEFINE R == [segment : Nat, preds : SUBSET Nat, online : BOOLEAN]
           t == CurrentSegment + 1
           New(n) == [i \in 1..n |-> Recorder(LatestRecorder + i - 1)]
<1>1. LatestRecorder \in Nat /\ CurrentSegment \in Nat /\ t \in Nat /\ CurrentSegment' = CurrentSegment
  BY SegmentBegins, LenProperties DEF OneModelEach, LatestRecorder, CurrentSegment, OnlineShape
<1>2. PICK n \in 0..(t - LatestRecorder) :
         /\ recorders' = recorders \o New(n)
         /\ IF n = t - LatestRecorder
            THEN /\ trained' = (LatestRecorder + 1)..(LatestRecorder + n)
                 /\ stage' = IF n = 0 THEN "online" ELSE "trained"
            ELSE /\ broken' = (broken \/ n > 0)
                 /\ trained' = {} /\ stage' = IF first' THEN "new" ELSE "idle"
  BY DEF Train, LatestRecorder
<1>3. ASSUME NEW i \in 1..n PROVE LatestRecorder + i - 1 \in Nat /\ LatestRecorder + i - 1 <= CurrentSegment /\ Recorder(LatestRecorder + i - 1) \in R
  <2>1. LatestRecorder + i - 1 \in Nat /\ LatestRecorder + i - 1 <= CurrentSegment
    BY <1>1, <1>3
  <2> QED BY <2>1, RecorderPredicts
<1>4. New(n) \in Seq(R) /\ Len(New(n)) = n /\ \A i \in 1..n : New(n)[i] = Recorder(LatestRecorder + i - 1)
  <2> HIDE DEF R
  <2>1. New(n) \in [1..n -> R] /\ n \in Nat
    BY <1>1, <1>3
  <2>2. New(n) \in Seq(R)
    BY <2>1
  <2> QED BY <2>1, <2>2, LenProperties
<1>5. /\ recorders' \in Seq(R) /\ LatestRecorder' = LatestRecorder + n /\ n \in Nat
      /\ \A i \in 1..LatestRecorder : recorders'[i] = recorders[i]
      /\ \A i \in (LatestRecorder + 1)..(LatestRecorder + n) : recorders'[i] = Recorder(i - 1)
  <2>1. recorders \in Seq(R)
    BY DEF OneModelEach
  <2> HIDE DEF R, New
  <2>2. /\ recorders' \in Seq(R) /\ Len(recorders') = LatestRecorder + n
        /\ \A i \in 1..(LatestRecorder + n) : recorders'[i] =
              IF i <= LatestRecorder THEN recorders[i] ELSE New(n)[i - LatestRecorder]
    BY <1>2, <1>4, <2>1, ConcatProperties DEF LatestRecorder
  <2>3. \A i \in (LatestRecorder + 1)..(LatestRecorder + n) :
           /\ i - LatestRecorder \in 1..n /\ ~(i <= LatestRecorder) /\ i \in 1..(LatestRecorder + n)
           /\ LatestRecorder + (i - LatestRecorder) - 1 = i - 1
    BY <1>1
  <2>4. \A i \in 1..LatestRecorder : i \in 1..(LatestRecorder + n) /\ i <= LatestRecorder
    BY <1>1
  <2> QED BY <1>1, <1>4, <2>2, <2>3, <2>4 DEF LatestRecorder
<1> HIDE DEF New
<1>6. RecorderPredictions'
  <2>1. ASSUME NEW i \in 1..LatestRecorder'
        PROVE  /\ Start(i - 1) \in Preds(i)'
               /\ \A c \in Preds(i)' : Start(i - 1) <= c /\ c <= day
               /\ \A c \in Preds(i)' : \A b \in Start(i - 1)..c : b \in Preds(i)'
               /\ i - 1 < CurrentSegment => \A c \in 1..day : SegmentOf(c) = i - 1 => c \in Preds(i)'
    <3>1. CASE i \in 1..LatestRecorder
      <4>1. Preds(i)' = Preds(i)
        BY <1>5, <3>1 DEF Preds
      <4> QED BY <3>1, <4>1 DEF RecorderPredictions
    <3>2. CASE i \in (LatestRecorder + 1)..(LatestRecorder + n)
      <4>1. Preds(i)' = Recorder(i - 1).preds /\ i - 1 \in Nat /\ i - 1 <= CurrentSegment
        BY <1>1, <1>5, <3>2, SMTT(30) DEF Preds
      <4> QED BY <4>1, RecorderPredicts
    <3>3. i \in 1..LatestRecorder \/ i \in (LatestRecorder + 1)..(LatestRecorder + n)
      BY <1>1, <1>5, <2>1
    <3> QED BY <3>1, <3>2, <3>3
  <2> QED BY <1>1, <2>1 DEF RecorderPredictions
<1>7. \A i \in 1..LatestRecorder' : recorders'[i].segment = i - 1
  <2> TAKE i \in 1..LatestRecorder'
  <2>1. CASE i \in 1..LatestRecorder
    BY <1>5, <2>1 DEF OneModelEach
  <2>2. CASE i \in (LatestRecorder + 1)..(LatestRecorder + n)
    <3>1. i - 1 \in Nat /\ i - 1 <= CurrentSegment
      BY <1>1, <2>2
    <3> QED BY <1>5, <2>2, <3>1, RecorderPredicts
  <2> QED BY <1>1, <1>5, <2>1, <2>2
<1>8. CASE n = t - LatestRecorder
  <2>1. LatestRecorder' = CurrentSegment + 1 /\ stage' \in {"online", "trained"} /\ (stage' = "online" => n = 0)
    BY <1>1, <1>2, <1>5, <1>8
  <2>2. stage' = "online" => stage = "idle" /\ LatestRecorder' = LatestRecorder /\ ~first' /\ recorders'[LatestRecorder].online
    <3>1. n = 0 => LatestRecorder # 0
      BY <1>1, <1>8
    <3>2. n = 0 => stage = "idle" /\ LatestRecorder \in 1..LatestRecorder
      BY <3>1, <1>1 DEF OneModelEach
    <3>3. n = 0 => recorders[LatestRecorder].online
      BY <3>2 DEF LastOnline
    <3>4. n = 0 => LatestRecorder' = LatestRecorder /\ recorders'[LatestRecorder] = recorders[LatestRecorder]
      BY <1>5, <3>2
    <3> QED BY <1>1, <2>1, <3>2, <3>3, <3>4
  <2>3. stage' = "trained" => LatestRecorder' \in trained'
    BY <1>1, <1>2, <1>5, <1>8
  <2>4. OneModelEach'
    BY <1>1, <1>5, <1>7, <2>1 DEF OneModelEach
  <2>5. LastOnline'
    BY <2>1, <2>2, <2>3 DEF LastOnline
  <2>6. ServedDays'
    <3>1. served > 0 => SegmentOf(served) + 1 \in 1..LatestRecorder
      BY SegmentBegins DEF ServedDays, OnlineShape
    <3>2. served > 0 => Preds(SegmentOf(served) + 1)' = Preds(SegmentOf(served) + 1)
      BY <1>5, <3>1 DEF Preds
    <3> QED BY <1>1, <1>5, <2>1, <3>1, <3>2 DEF ServedDays
  <2> QED BY <1>6, <2>4, <2>5, <2>6
<1>9. CASE n # t - LatestRecorder
  <2>1. n = 0 /\ LatestRecorder' = LatestRecorder
    <3>1. broken' = (broken \/ n > 0) /\ ~broken'
      BY <1>2, <1>9 DEF InStep
    <3>2. ~(n > 0)
      BY <3>1
    <3> QED BY <1>1, <1>5, <3>2
  <2>4. stage' = stage
    BY <1>2, <1>9
  <2>2. OneModelEach'
    BY <1>1, <1>5, <1>7, <2>1, <2>4 DEF OneModelEach
  <2>3. LastOnline' /\ ServedDays'
    <3>1. served > 0 => SegmentOf(served) + 1 \in 1..LatestRecorder
      BY SegmentBegins DEF ServedDays, OnlineShape
    <3>2. served > 0 => Preds(SegmentOf(served) + 1)' = Preds(SegmentOf(served) + 1)
      BY <1>5, <3>1 DEF Preds
    <3>3. stage = "idle" => LatestRecorder \in 1..LatestRecorder
      BY <1>1 DEF OneModelEach
    <3> QED BY <1>1, <1>5, <2>1, <2>4, <3>1, <3>2, <3>3 DEF ServedDays, LastOnline
  <2> QED BY <1>6, <2>2, <2>3
<1> QED BY <1>8, <1>9

LEMMA TrainsAsUsual ==
    ASSUME OnlineShape, InStep, OneModelEach, RecorderPredictions, LastOnline, ServedDays, InStep',
           FirstTrain \/ Routine
    PROVE  OneModelEach' /\ RecorderPredictions' /\ LastOnline' /\ ServedDays'
<1>1. LatestRecorder \in Nat /\ CurrentSegment \in Nat
  BY SegmentBegins, LenProperties DEF OneModelEach, LatestRecorder, CurrentSegment, OnlineShape
<1>2. CASE FirstTrain
  <2>1. LatestRecorder = 0
    BY <1>2 DEF OneModelEach, FirstTrain
  <2>2. Train(LatestRecorder, CurrentSegment)
    BY <1>2, <2>1 DEF FirstTrain, CurrentSegment
  <2> QED BY <1>1, <1>2, <2>1, <2>2, TrainStep DEF FirstTrain
<1>3. CASE Routine
  <2>1. stage = "idle" /\ LatestRecorder \in 1..LatestRecorder /\ LatestRecorder <= CurrentSegment + 1 /\ LatestRecorder \in Online
    <3>1. stage = "idle"
      BY <1>3 DEF Routine
    <3>2. LatestRecorder \in 1..LatestRecorder /\ LatestRecorder <= CurrentSegment + 1
      BY <1>1, <3>1 DEF OneModelEach
    <3> QED BY <3>1, <3>2 DEF LastOnline, Online, OneModelEach, LatestRecorder
  <2>2. Max({recorders[i].segment : i \in Online}) = LatestRecorder - 1
    <3> DEFINE D == {recorders[i].segment : i \in Online}
    <3>1. \A i \in Online : i \in 1..LatestRecorder /\ recorders[i].segment = i - 1
      BY DEF Online, OneModelEach, LatestRecorder
    <3>2. LatestRecorder - 1 \in D /\ D \in SUBSET Nat /\ \A d \in D : d <= LatestRecorder - 1
      BY <1>1, <2>1, <3>1
    <3> HIDE DEF D
    <3> QED BY <3>2, MaxIs DEF D
  <2>3. Train(LatestRecorder, CurrentSegment)
    <3>1. Train(Max({recorders[i].segment : i \in Online}) + 1, CurrentSegment)
      BY <1>3, <2>1 DEF Routine, CurrentSegment
    <3>2. LatestRecorder - 1 + 1 = LatestRecorder
      BY <1>1
    <3> QED BY <2>2, <3>1, <3>2
  <2> QED BY <1>1, <1>3, <2>1, <2>3, TrainStep DEF Routine
<1> QED BY <1>2, <1>3

-----------------------------------------------------------------------------
(* The tags, the predictions and the signals.                              *)

\* A step that changes nothing but the tags.
LEMMA TagStep ==
    ASSUME OnlineShape, OneModelEach, RecorderPredictions, ServedDays,
           NEW tag \in [1..LatestRecorder -> BOOLEAN],
           recorders' = [i \in DOMAIN recorders |-> [recorders[i] EXCEPT !.online = tag[i]]],
           UNCHANGED <<day, signals, served>>
    PROVE  /\ recorders' \in Seq([segment : Nat, preds : SUBSET Nat, online : BOOLEAN])
           /\ LatestRecorder' = LatestRecorder /\ CurrentSegment' = CurrentSegment
           /\ \A i \in 1..LatestRecorder : recorders'[i].segment = i - 1
           /\ \A i \in 1..LatestRecorder : recorders'[i].online = tag[i]
           /\ RecorderPredictions'
           /\ served > 0 => SegmentOf(served) + 1 <= LatestRecorder' /\ served \in Preds(SegmentOf(served) + 1)'
<1> DEFINE R == [segment : Nat, preds : SUBSET Nat, online : BOOLEAN]
<1>1. LatestRecorder \in Nat /\ DOMAIN recorders = 1..LatestRecorder /\ CurrentSegment' = CurrentSegment /\ recorders \in Seq(R)
  BY LenProperties DEF OneModelEach, LatestRecorder, CurrentSegment
<1>2. ASSUME NEW i \in 1..LatestRecorder
      PROVE  /\ recorders'[i] \in R /\ recorders'[i].segment = i - 1
             /\ recorders'[i].preds = recorders[i].preds /\ recorders'[i].online = tag[i]
  <2>1. recorders'[i] = [recorders[i] EXCEPT !.online = tag[i]]
    BY <1>1, <1>2
  <2>2. recorders[i] \in R
    <3> HIDE DEF R
    <3> QED BY <1>1, <1>2, ElementOfSeq DEF LatestRecorder
  <2> QED BY <1>2, <2>1, <2>2, RecorderIs DEF Preds
<1>3. recorders' \in [1..LatestRecorder -> R]
  <2> HIDE DEF R
  <2> QED BY <1>1, <1>2
<1>4. recorders' \in Seq(R) /\ LatestRecorder' = LatestRecorder
  <2> HIDE DEF R
  <2>1. recorders' \in Seq(R)
    BY <1>1, <1>3
  <2>2. DOMAIN recorders' = 1..LatestRecorder /\ DOMAIN recorders' = 1..Len(recorders') /\ Len(recorders') \in Nat
    BY <1>3, <2>1, LenProperties
  <2> QED BY <1>1, <2>1, <2>2 DEF LatestRecorder
<1>5. \A i \in 1..LatestRecorder : Preds(i)' = Preds(i)
  BY <1>2 DEF Preds
<1>6. RecorderPredictions'
  BY <1>1, <1>4, <1>5 DEF RecorderPredictions
<1>7. served > 0 => SegmentOf(served) + 1 <= LatestRecorder' /\ served \in Preds(SegmentOf(served) + 1)'
  <2> SUFFICES ASSUME served > 0
               PROVE  SegmentOf(served) + 1 <= LatestRecorder' /\ served \in Preds(SegmentOf(served) + 1)'
    OBVIOUS
  <2>1. SegmentOf(served) + 1 \in 1..LatestRecorder
    BY <1>1, SegmentBegins DEF ServedDays, OnlineShape
  <2> QED BY <1>1, <1>4, <1>5, <2>1 DEF ServedDays
<1> QED BY <1>1, <1>2, <1>4, <1>6, <1>7

LEMMA TagOfflineStep ==
    ASSUME OnlineShape, InStep, OneModelEach, RecorderPredictions, LastOnline, ServedDays, TagOffline
    PROVE  OneModelEach' /\ RecorderPredictions' /\ LastOnline' /\ ServedDays'
<1> DEFINE tag == [i \in 1..LatestRecorder |-> FALSE]
<1>1. tag \in [1..LatestRecorder -> BOOLEAN] /\ DOMAIN recorders = 1..LatestRecorder
  BY LenProperties DEF OneModelEach, LatestRecorder
<1>2. recorders' = [i \in DOMAIN recorders |-> [recorders[i] EXCEPT !.online = tag[i]]]
  BY <1>1 DEF TagOffline
<1>3. UNCHANGED <<day, first, trained, signals, served>> /\ stage = "trained" /\ stage' = "offline"
  BY DEF TagOffline
<1> HIDE DEF tag
<1>4. /\ recorders' \in Seq([segment : Nat, preds : SUBSET Nat, online : BOOLEAN])
      /\ LatestRecorder' = LatestRecorder /\ CurrentSegment' = CurrentSegment /\ RecorderPredictions'
      /\ \A i \in 1..LatestRecorder : recorders'[i].segment = i - 1
      /\ served > 0 => SegmentOf(served) + 1 <= LatestRecorder' /\ served \in Preds(SegmentOf(served) + 1)'
  BY <1>1, <1>2, <1>3, TagStep
<1> QED BY <1>3, <1>4 DEF OneModelEach, LastOnline, ServedDays

LEMMA TagOnlineStep ==
    ASSUME OnlineShape, InStep, OneModelEach, RecorderPredictions, LastOnline, ServedDays, TagOnline
    PROVE  OneModelEach' /\ RecorderPredictions' /\ LastOnline' /\ ServedDays'
<1> DEFINE tag == [i \in 1..LatestRecorder |-> recorders[i].online \/ i \in trained]
<1>1. tag \in [1..LatestRecorder -> BOOLEAN] /\ DOMAIN recorders = 1..LatestRecorder
  BY LenProperties DEF OneModelEach, LatestRecorder
<1>2. recorders' = [i \in DOMAIN recorders |-> [recorders[i] EXCEPT !.online = tag[i]]]
  BY <1>1 DEF TagOnline
<1>3. /\ UNCHANGED <<day, first, trained, signals, served>>
      /\ stage = "offline" /\ stage' = IF first THEN "idle" ELSE "online"
  BY DEF TagOnline
<1>5. LatestRecorder \in 1..LatestRecorder /\ tag[LatestRecorder] = TRUE
  <2>1. LatestRecorder \in 1..LatestRecorder
    BY <1>3, LenProperties DEF OneModelEach, LatestRecorder
  <2> QED BY <1>3, <2>1 DEF LastOnline
<1> HIDE DEF tag
<1>4. /\ recorders' \in Seq([segment : Nat, preds : SUBSET Nat, online : BOOLEAN])
      /\ LatestRecorder' = LatestRecorder /\ CurrentSegment' = CurrentSegment /\ RecorderPredictions'
      /\ \A i \in 1..LatestRecorder : recorders'[i].segment = i - 1
      /\ \A i \in 1..LatestRecorder : recorders'[i].online = tag[i]
      /\ served > 0 => SegmentOf(served) + 1 <= LatestRecorder' /\ served \in Preds(SegmentOf(served) + 1)'
  BY <1>1, <1>2, <1>3, TagStep
<1>6. OneModelEach' /\ ServedDays'
  BY <1>3, <1>4 DEF OneModelEach, ServedDays
<1>7. LastOnline'
  BY <1>3, <1>4, <1>5 DEF LastOnline
<1> QED BY <1>4, <1>6, <1>7

\* An update adds the days after the last prediction, up to today.
Updated(i) == Preds(i) \union (Max(Preds(i)) + 1)..day

LEMMA UpdatedPredicts ==
    ASSUME OnlineShape, OneModelEach, RecorderPredictions, NEW i \in 1..LatestRecorder
    PROVE  /\ Updated(i) \in SUBSET Nat /\ Start(i - 1) \in Updated(i) /\ day \in Updated(i)
           /\ \A c \in Updated(i) : Start(i - 1) <= c /\ c <= day
           /\ \A c \in Updated(i) : \A b \in Start(i - 1)..c : b \in Updated(i)
           /\ \A c \in 1..day : SegmentOf(c) = i - 1 => c \in Updated(i)
<1> DEFINE m == Max(Preds(i))
           P == Updated(i)
           a == Start(i - 1)
<1>1. Preds(i) \subseteq 0..day /\ day \in Nat /\ Preds(i) # {}
  BY RecorderIs DEF OnlineShape, RecorderPredictions
<1>2. m \in Preds(i) /\ \A c \in Preds(i) : c <= m
  <2>1. PICK n \in Preds(i) : \A c \in Preds(i) : c <= n
    BY <1>1, GreatestExists
  <2>2. Max(Preds(i)) = n
    BY <1>1, <2>1, MaxIs
  <2> QED BY <2>1, <2>2
<1> HIDE DEF m
<1>3. a \in Nat /\ i - 1 \in Nat /\ i \in Nat
  <2>1. i \in Nat /\ i - 1 \in Nat
    BY LenProperties DEF OneModelEach, LatestRecorder
  <2> QED BY <2>1, StartType
<1>4. a <= m /\ m <= day /\ m \in Nat /\ a \in Preds(i)
  BY <1>1, <1>2 DEF RecorderPredictions
<1>5. P = Preds(i) \union (m + 1)..day
  BY DEF m, P, Updated
<1> HIDE DEF P
<1>6. \A b \in a..day : b \in P
  <2> TAKE b \in a..day
  <2>1. CASE b <= m
    <3>1. b \in a..m
      BY <1>3, <1>4, <2>1
    <3> QED BY <1>2, <1>5, <3>1 DEF RecorderPredictions
  <2>2. CASE ~(b <= m)
    BY <1>1, <1>3, <1>4, <1>5, <2>2
  <2> QED BY <2>1, <2>2
<1>7. \A c \in P : a <= c /\ c <= day /\ c \in Nat
  BY <1>1, <1>3, <1>4, <1>5 DEF RecorderPredictions
<1>8. \A c \in 1..day : SegmentOf(c) = i - 1 => a <= c
  BY <1>3, SegmentBegins
<1> HIDE DEF a
<1>9. /\ P \in SUBSET Nat /\ a \in P /\ day \in P
      /\ \A c \in P : \A b \in a..c : b \in P
      /\ \A c \in 1..day : SegmentOf(c) = i - 1 => c \in P
  <2>1. a \in P /\ day \in P
    BY <1>1, <1>3, <1>4, <1>6
  <2>2. \A c \in P : \A b \in a..c : b \in a..day
    BY <1>1, <1>3, <1>7
  <2>3. \A c \in 1..day : SegmentOf(c) = i - 1 => c \in a..day
    BY <1>1, <1>3, <1>8
  <2> QED BY <1>6, <1>7, <2>1, <2>2, <2>3
<1> QED BY <1>7, <1>9 DEF a, P

LEMMA OnlineUpdateStep ==
    ASSUME OnlineShape, InStep, OneModelEach, RecorderPredictions, LastOnline, ServedDays, UpdatePredictions
    PROVE  OneModelEach' /\ RecorderPredictions' /\ LastOnline' /\ ServedDays'
<1> DEFINE R == [segment : Nat, preds : SUBSET Nat, online : BOOLEAN]
<1>1. LatestRecorder \in Nat /\ DOMAIN recorders = 1..LatestRecorder /\ recorders \in Seq(R)
  BY LenProperties DEF OneModelEach, LatestRecorder
<1>2. /\ UNCHANGED <<day, first, trained, signals, served>> /\ CurrentSegment' = CurrentSegment
      /\ stage = "online" /\ stage' = "updated" /\ LatestRecorder = CurrentSegment + 1
  BY DEF UpdatePredictions, CurrentSegment, OneModelEach
<1>3. ASSUME NEW i \in 1..LatestRecorder
      PROVE  /\ recorders'[i] \in R /\ recorders'[i].segment = i - 1
             /\ recorders'[i].online = recorders[i].online
             /\ recorders'[i].preds = IF recorders[i].online THEN Updated(i) ELSE Preds(i)
  <2>1. recorders[i] \in R
    <3> HIDE DEF R
    <3> QED BY <1>1, <1>3, ElementOfSeq DEF LatestRecorder
  <2>2. CASE recorders[i].online
    <3>1. recorders'[i] = [recorders[i] EXCEPT !.preds = Updated(i)]
      BY <1>1, <1>3, <2>2 DEF UpdatePredictions, Preds, Updated
    <3>2. Updated(i) \in SUBSET Nat
      BY <1>3, UpdatedPredicts
    <3> QED BY <1>3, <2>1, <2>2, <3>1, <3>2, RecorderIs
  <2>3. CASE ~recorders[i].online
    BY <1>1, <1>3, <2>1, <2>3, RecorderIs DEF UpdatePredictions, Preds
  <2> QED BY <2>2, <2>3
<1>4. recorders' \in Seq(R) /\ LatestRecorder' = LatestRecorder
  <2> HIDE DEF R
  <2>1. DOMAIN recorders' = 1..LatestRecorder /\ recorders' = [i \in 1..LatestRecorder |-> recorders'[i]]
    BY <1>1 DEF UpdatePredictions
  <2>2. recorders' \in [1..LatestRecorder -> R]
    BY <1>3, <2>1
  <2>3. recorders' \in Seq(R)
    BY <1>1, <2>2
  <2>4. DOMAIN recorders' = 1..Len(recorders') /\ Len(recorders') \in Nat
    BY <2>3, LenProperties
  <2> QED BY <1>1, <2>1, <2>3, <2>4 DEF LatestRecorder
<1>5. OneModelEach'
  BY <1>2, <1>3, <1>4 DEF OneModelEach
<1>6. ASSUME NEW i \in 1..LatestRecorder
      PROVE  /\ Start(i - 1) \in Preds(i)'
             /\ \A c \in Preds(i)' : Start(i - 1) <= c /\ c <= day
             /\ \A c \in Preds(i)' : \A b \in Start(i - 1)..c : b \in Preds(i)'
             /\ i - 1 < CurrentSegment => \A c \in 1..day : SegmentOf(c) = i - 1 => c \in Preds(i)'
             /\ Preds(i) \subseteq Preds(i)'
             /\ recorders[i].online => day \in Preds(i)'
  <2>1. CASE recorders[i].online
    <3>1. Preds(i)' = Updated(i)
      BY <1>3, <2>1 DEF Preds
    <3>2. Preds(i) \subseteq Updated(i)
      BY DEF Updated
    <3> QED BY <3>1, <3>2, UpdatedPredicts
  <2>2. CASE ~recorders[i].online
    <3>1. Preds(i)' = Preds(i)
      BY <1>3, <2>2 DEF Preds
    <3> QED BY <1>6, <2>2, <3>1 DEF RecorderPredictions
  <2> QED BY <2>1, <2>2
<1>7. RecorderPredictions'
  BY <1>2, <1>4, <1>6 DEF RecorderPredictions
<1>8. LatestRecorder \in 1..LatestRecorder
  BY <1>1, <1>2 DEF OneModelEach
<1>9. LastOnline'
  BY <1>2, <1>3, <1>4, <1>8 DEF LastOnline
<1>10. ServedDays'
  <2>1. day \in recorders'[LatestRecorder].preds
    BY <1>2, <1>6, <1>8 DEF LastOnline, Preds
  <2>2. served > 0 => SegmentOf(served) + 1 \in 1..LatestRecorder
    BY <1>1, SegmentBegins DEF ServedDays, OnlineShape
  <2>3. served > 0 => served \in recorders'[SegmentOf(served) + 1].preds
    BY <1>6, <2>2 DEF ServedDays, Preds
  <2> QED BY <1>1, <1>2, <1>4, <2>1, <2>2, <2>3 DEF ServedDays, Preds
<1> QED BY <1>5, <1>7, <1>9, <1>10

\* Each day is predicted, and the latest segment that predicts it is its own.
LEMMA OwnersOf ==
    ASSUME OnlineShape, OneModelEach, RecorderPredictions, ServedDays, stage = "updated", NEW c \in 1..day
    PROVE  LET owners == {i \in Collected : c \in recorders[i].preds}
           IN  owners # {} /\ Owner(owners) = SegmentOf(c)
<1> DEFINE owners == {i \in Collected : c \in recorders[i].preds}
           k == SegmentOf(c)
           D == {recorders[i].segment : i \in owners}
<1>1. /\ day \in Nat \ {0} /\ c \in Nat \ {0} /\ c <= day /\ k \in Nat /\ CurrentSegment \in Nat
      /\ k <= CurrentSegment /\ LatestRecorder = CurrentSegment + 1
  <2>1. day \in Nat \ {0} /\ c \in Nat \ {0} /\ c <= day
    BY DEF OnlineShape
  <2> QED BY <2>1, SegmentBegins, SegmentsFollow DEF CurrentSegment, OneModelEach
<1>2. Collected = 1..LatestRecorder
  BY LenProperties DEF Collected, OneModelEach, LatestRecorder
<1>3. k + 1 \in owners
  <2>1. k + 1 \in 1..LatestRecorder /\ (k + 1) - 1 = k
    BY <1>1
  <2>2. CASE k < CurrentSegment
    BY <1>1, <1>2, <2>1, <2>2 DEF RecorderPredictions, Preds
  <2>3. CASE k = CurrentSegment
    <3>1. day \in Preds(k + 1) /\ Start(k) <= c /\ Start(k) \in Nat
      BY <1>1, <2>3, SegmentBegins, StartType DEF ServedDays
    <3>2. c \in Start(k)..day
      BY <1>1, <3>1
    <3>3. c \in Preds(k + 1)
      BY <2>1, <3>1, <3>2 DEF RecorderPredictions
    <3> QED BY <1>2, <2>1, <3>3 DEF Preds
  <2> QED BY <1>1, <2>2, <2>3
<1>4. \A i \in owners : recorders[i].segment = i - 1 /\ i - 1 \in Nat /\ i - 1 <= k
  <2> TAKE i \in owners
  <2>1. i \in 1..LatestRecorder /\ i - 1 \in Nat /\ c \in Preds(i)
    BY <1>1, <1>2 DEF Preds
  <2> QED BY <1>1, <2>1, SegmentBegins DEF RecorderPredictions, OneModelEach
<1> HIDE DEF owners, k
<1>5. D \in SUBSET Nat /\ k \in D /\ \A d \in D : d <= k
  <2>1. recorders[k + 1].segment = k
    BY <1>1, <1>3, <1>4
  <2> QED BY <1>1, <1>3, <1>4, <2>1
<1>6. Max(D) = k
  <2> HIDE DEF D
  <2> QED BY <1>5, MaxIs
<1>7. owners # {} /\ Owner(owners) = k
  BY <1>3, <1>6 DEF Owner
<1> QED BY <1>7 DEF owners, k

LEMMA RowsAre ==
    ASSUME OnlineShape, OneModelEach, RecorderPredictions, ServedDays, stage = "updated", NEW d \in Nat \ {0}
    PROVE  RowsFrom(d) = {[day |-> c, segment |-> SegmentOf(c)] : c \in d..day}
<1> DEFINE Owners(c) == {i \in Collected : c \in recorders[i].preds}
<1>1. \A c \in d..day : Owners(c) # {} /\ Owner(Owners(c)) = SegmentOf(c)
  <2> TAKE c \in d..day
  <2>1. c \in 1..day
    BY DEF OnlineShape
  <2> QED BY <2>1, OwnersOf
<1>2. RowsFrom(d) = {[day |-> c, segment |-> Owner(Owners(c))] : c \in {c \in d..day : Owners(c) # {}}}
  BY DEF RowsFrom
<1> HIDE DEF Owners
<1> QED BY <1>1, <1>2

LEMMA SignalDaysAre ==
    ASSUME OnlineShape, ServedDays
    PROVE  /\ SignalDays = 1..served
           /\ signals = {} <=> served = 0
           /\ served > 0 => Max(SignalDays) = served
<1>1. SignalDays = 1..served
  <2>1. \A row \in signals : row.day \in 1..served
    BY DEF ServedDays
  <2>2. \A c \in 1..served : [day |-> c, segment |-> SegmentOf(c)] \in signals
    BY DEF ServedDays
  <2>3. \A c \in 1..served : \E row \in signals : row.day = c
    BY <2>2
  <2> QED BY <2>1, <2>3 DEF SignalDays
<1>2. signals = {} <=> served = 0
  <2>1. served \in Nat
    BY DEF OnlineShape
  <2>2. served > 0 => 1 \in SignalDays
    BY <1>1, <2>1
  <2>3. served = 0 => SignalDays = {}
    BY <1>1
  <2>4. signals = {} <=> SignalDays = {}
    BY DEF SignalDays
  <2> QED BY <2>1, <2>2, <2>3, <2>4
<1>3. served > 0 => Max(SignalDays) = served
  <2> SUFFICES ASSUME served > 0 PROVE Max(SignalDays) = served
    OBVIOUS
  <2>1. 1..served \in SUBSET Nat /\ served \in 1..served /\ \A d \in 1..served : d <= served
    BY DEF OnlineShape
  <2> QED BY <1>1, <2>1, MaxIs
<1> QED BY <1>1, <1>2, <1>3

LEMMA SignalsStep ==
    ASSUME OnlineShape, InStep, OneModelEach, RecorderPredictions, LastOnline, ServedDays, PrepareSignals
    PROVE  OneModelEach' /\ RecorderPredictions' /\ LastOnline' /\ ServedDays'
<1>1. /\ UNCHANGED <<day, first, recorders, trained>> /\ LatestRecorder' = LatestRecorder /\ CurrentSegment' = CurrentSegment
      /\ stage = "updated" /\ stage' = "idle" /\ served' = day /\ LatestRecorder = CurrentSegment + 1
  BY DEF PrepareSignals, recordersVars, LatestRecorder, CurrentSegment, OneModelEach
<1>2. day \in Nat \ {0} /\ served \in Nat /\ served <= day /\ CurrentSegment \in Nat
  BY SegmentBegins DEF OnlineShape, CurrentSegment
<1>3. signals' = {[day |-> c, segment |-> SegmentOf(c)] : c \in 1..day}
  <2>1. CASE served = 0
    <3>1. signals' = RowsFrom(1)
      BY <2>1, SignalDaysAre DEF PrepareSignals
    <3> QED BY <1>1, <3>1, RowsAre
  <2>2. CASE served > 0
    <3>1. signals' = signals \union RowsFrom(served)
      BY <2>2, SignalDaysAre DEF PrepareSignals
    <3>2. RowsFrom(served) = {[day |-> c, segment |-> SegmentOf(c)] : c \in served..day}
      BY <1>1, <1>2, <2>2, RowsAre
    <3>3. 1..day = (1..served) \union served..day
      BY <1>2, <2>2
    <3>4. signals = {[day |-> c, segment |-> SegmentOf(c)] : c \in 1..served}
      BY DEF ServedDays
    <3> QED BY <3>1, <3>2, <3>3, <3>4
  <2> QED BY <1>2, <2>1, <2>2
<1>4. OneModelEach' /\ RecorderPredictions'
  BY <1>1, <1>2 DEF OneModelEach, RecorderPredictions, Preds
<1>5. LastOnline'
  BY <1>1 DEF LastOnline
<1>6. ServedDays'
  BY <1>1, <1>3 DEF ServedDays, CurrentSegment, Preds
<1> QED BY <1>4, <1>5, <1>6

LEMMA RunFailStep ==
    ASSUME OnlineShape, InStep, OneModelEach, RecorderPredictions, LastOnline, ServedDays, RunFails, InStep'
    PROVE  OneModelEach' /\ RecorderPredictions' /\ LastOnline' /\ ServedDays'
<1>1. stage \in {"online", "updated"}
  <2>1. stage \in {"trained", "offline", "online", "updated"}
        /\ broken' = (broken \/ stage \in {"trained", "offline"})
    BY DEF RunFails
  <2> QED BY <2>1 DEF InStep
<1>2. /\ UNCHANGED <<day, first, recorders, trained, signals, served>> /\ LatestRecorder' = LatestRecorder /\ CurrentSegment' = CurrentSegment
      /\ stage' = "idle" /\ LatestRecorder = CurrentSegment + 1
  BY <1>1 DEF RunFails, LastOnline, recordersVars, LatestRecorder, CurrentSegment, OneModelEach
<1>3. OneModelEach' /\ RecorderPredictions'
  BY <1>1, <1>2, SegmentBegins DEF OneModelEach, RecorderPredictions, Preds, OnlineShape, CurrentSegment
<1>4. LastOnline' /\ ServedDays'
  BY <1>1, <1>2 DEF LastOnline, ServedDays, Preds
<1> QED BY <1>3, <1>4

-----------------------------------------------------------------------------
LEMMA OnlineStep ==
    ASSUME OnlineShape, OnlineInv, [OnlineNext]_onlineVars
    PROVE  OnlineInv'
<1> SUFFICES ASSUME InStep' PROVE OneModelEach' /\ RecorderPredictions' /\ LastOnline' /\ ServedDays'
  BY DEF OnlineInv
<1>1. InStep
  <2>1. CASE NewTradingDay
    BY <2>1 DEF NewTradingDay, InStep, OnlineShape
  <2>2. CASE FirstTrain \/ Routine
    BY <2>2 DEF FirstTrain, Routine, Train, InStep, OnlineShape
  <2>3. CASE TagOffline \/ TagOnline \/ UpdatePredictions
    BY <2>3 DEF TagOffline, TagOnline, UpdatePredictions, InStep
  <2>4. CASE PrepareSignals
    BY <2>4 DEF PrepareSignals, InStep
  <2>5. CASE RunFails
    BY <2>5 DEF RunFails, InStep, OnlineShape
  <2>6. CASE UNCHANGED onlineVars
    BY <2>6 DEF onlineVars, InStep
  <2> QED BY <2>1, <2>2, <2>3, <2>4, <2>5, <2>6 DEF OnlineNext
<1>2. OneModelEach /\ RecorderPredictions /\ LastOnline /\ ServedDays
  BY <1>1 DEF OnlineInv
<1>3. CASE UNCHANGED onlineVars
  <2>1. /\ UNCHANGED <<day, first, recorders, trained, signals, served, stage>>
        /\ LatestRecorder' = LatestRecorder /\ CurrentSegment' = CurrentSegment
    BY <1>3 DEF onlineVars, recordersVars, LatestRecorder, CurrentSegment
  <2> QED BY <1>2, <2>1 DEF OneModelEach, RecorderPredictions, LastOnline, ServedDays, Preds
<1> QED BY <1>1, <1>2, <1>3, DayStep, TrainsAsUsual, TagOfflineStep, TagOnlineStep,
           OnlineUpdateStep, SignalsStep, RunFailStep DEF OnlineNext

LEMMA OnlineIsInductive == OnlineSpec => [](OnlineShape /\ OnlineInv)
BY OnlineInits, OnlineShapeStep, OnlineStep, PTL DEF OnlineSpec

LEMMA SignalsHold ==
    ASSUME OnlineShape, OnlineInv
    PROVE  SignalsTrue
<1> SUFFICES ASSUME InStep, UpToDate
             PROVE  SignalDays = 1..day /\ \A row \in signals : row.segment = SegmentOf(row.day)
  BY DEF SignalsTrue, InStep
<1>1. ServedDays /\ served = day
  BY DEF OnlineInv, UpToDate
<1>2. \A row \in signals : row.segment = SegmentOf(row.day)
  BY <1>1 DEF ServedDays
<1> QED BY <1>1, <1>2, SignalDaysAre

\* Whenever a routine is through, each day up to its own has a signal of the model whose
\* test segment it is in, for whatever rolling segments and however many days: unless a
\* run failed between training and tags, or a last day of a segment had no routine.
THEOREM SignalsAreTrue == OnlineSpec => []SignalsTrue
BY OnlineIsInductive, SignalsHold, PTL

-----------------------------------------------------------------------------
(* PolicyTraining: a trained policy and its checkpoints are kept.           *)

Rewards == 0..MaxReward
TrainingRows == [policy : Weights, reward : Rewards]

TrainingShape ==
    /\ opts \in Opts
    /\ fitAt \in {"train", "validate", "iter_end", "fit_end"} \cup Saving \cup NotFitting
    /\ iter \in 0..MaxIters /\ stop \in BOOLEAN
    /\ policy \in Weights /\ policies \in Weights
    /\ early \in [wait : Nat, best : Rewards, weights : Weights \cup {None}]
    /\ lastCkpt \in 0..MaxIters \cup {None}
    /\ DOMAIN files = 1..MaxIters
    /\ begun \in 0..MaxIters
    /\ seen \subseteq TrainingRows
    /\ restored \in BOOLEAN /\ reused \in BOOLEAN /\ cut \in BOOLEAN

\* What a save of this moment writes.
Now == [iter |-> iter, stop |-> stop, policy |-> policy]
WholeFile(f) == f.is = "whole"

\* A fit that goes on has iterations left, and so has one that begins at a checkpoint.
GoesOn ==
    /\ fitAt \in {"train", "validate", "iter_end"} => iter < MaxIters
    /\ fitAt \in Saving => stop \/ iter < MaxIters
    /\ fitAt = "fit_end" => stop
FilesTrue ==
    \A i \in 1..MaxIters : WholeFile(files[i]) =>
        /\ files[i].of \in Saved
        /\ files[i].of.iter = i
        /\ files[i].of.stop \/ i < MaxIters

\* The best of what has been validated is what EarlyStopping remembers; weights it
\* gave back are final.
BestKnown ==
    /\ \A s \in seen : s.reward <= early.best
    /\ seen = {} => early.best = 0
    /\ opts.restore =>
          IF early.weights = None THEN seen = {}
          ELSE [policy |-> early.weights, reward |-> early.best] \in seen
    /\ restored => /\ opts.restore /\ early.weights = policy /\ early.weights # None
                   /\ stop /\ fitAt \notin {"train", "validate"}
    /\ fitAt = "train" => ~stop

\* A checkpoint under way is that of the last iteration.
SavesNow ==
    /\ fitAt \in Saving => lastCkpt = iter /\ 0 < iter
    /\ fitAt \in {"unlink", "latest", "copy"} => files[iter] = [is |-> "whole", of |-> Now]
    /\ fitAt = "latest" => latest = NoFile
    /\ fitAt = "copy" => latest = TornFile
    /\ fitAt = "fit_end" => 0 < iter

\* With callbacks of its own a fit takes no iteration for saved that it has not saved.
SavedOnce ==
    ~reused =>
        /\ fitAt \notin NotFitting => lastCkpt <= iter
        /\ fitAt \in {"fit_end", "ended"} /\ lastCkpt = iter =>
              /\ files[iter] = [is |-> "whole", of |-> Now]
              /\ ~LinkLost => LatestHolds = files[iter]
        /\ fitAt = "ended" => lastCkpt = iter

LatestTrue ==
    /\ latest.is = "link" => latest.to \in 1..MaxIters
    /\ ~cut /\ ~LinkLost /\ fitAt \notin Saving /\ latest.is # "none" =>
          WholeFile(LatestHolds) /\ LatestHolds.of.iter \in 1..MaxIters
                  /\ files[LatestHolds.of.iter] = LatestHolds

\* Of the iterations of a fit, those that are to be saved are, but for the last one
\* while it is being written.
DueSaved ==
    \A i \in (begun + 1)..iter :
        (i + 1) % opts.saveEvery = 0 /\ (i < iter \/ fitAt \in {"train", "validate", "iter_end"})
            => WholeFile(files[i])

TrainingInv ==
    /\ GoesOn /\ FilesTrue /\ BestKnown /\ SavesNow /\ SavedOnce /\ LatestTrue
    /\ begun <= iter /\ DueSaved

-----------------------------------------------------------------------------
LEMMA CheckpointIs ==
    ASSUME TrainingShape, FilesTrue, NEW from \in Checkpoints
    PROVE  /\ from \in Saved /\ 0 < from.iter
           /\ ~from.stop => from.iter < MaxIters
BY TrainingAssumption DEF TrainingAssumption, TrainingShape, FilesTrue, Checkpoints, WholeFile, Saved

LEMMA TrainingInits == TrainingInit => TrainingShape /\ TrainingInv
<1> SUFFICES ASSUME TrainingInit PROVE TrainingShape /\ TrainingInv
  OBVIOUS
<1> USE TrainingAssumption DEF TrainingAssumption, TrainingInit, FreshEarly, None, Weights, Rewards, Saving, NotFitting
<1>1. TrainingShape
  <2>1. early \in [wait : Nat, best : Rewards, weights : Weights \cup {None}]
    OBVIOUS
  <2>2. opts \in Opts /\ lastCkpt \in 0..MaxIters \cup {None}
    OBVIOUS
  <2>4. DOMAIN files = 1..MaxIters
    OBVIOUS
  <2>3. seen \subseteq TrainingRows
    OBVIOUS
  <2>5. /\ fitAt \in {"train", "validate", "iter_end", "fit_end"} \cup Saving \cup NotFitting
        /\ iter \in 0..MaxIters /\ begun \in 0..MaxIters /\ policy \in Weights /\ policies \in Weights
    OBVIOUS
  <2>6. stop \in BOOLEAN /\ restored \in BOOLEAN /\ reused \in BOOLEAN /\ cut \in BOOLEAN
    OBVIOUS
  <2> HIDE DEF TrainingInit, Rewards, Weights, Saving, NotFitting, None
  <2> QED BY <2>1, <2>2, <2>3, <2>4, <2>5, <2>6 DEF TrainingShape
<1>2. GoesOn /\ FilesTrue /\ BestKnown /\ SavesNow
  BY DEF GoesOn, FilesTrue, WholeFile, BestKnown, SavesNow, Opts, NoFile
<1>3. SavedOnce /\ LatestTrue /\ begun <= iter /\ DueSaved
  BY DEF SavedOnce, LatestTrue, LatestHolds, WholeFile, DueSaved, NoFile
<1> QED BY <1>1, <1>2, <1>3 DEF TrainingInv

LEMMA TrainingShapeStep ==
    ASSUME TrainingShape, TrainingInv, [TrainingNext]_trainingVars
    PROVE  TrainingShape'
<1> USE TrainingAssumption DEF TrainingAssumption, TrainingInv, TrainingShape, Weights, ckptVars, fitAux, None, FreshEarly, Saved, Opts, Saving, NotFitting, AfterSave, GoesOn, Rewards, TrainingRows
<1>1. CASE FitAgain
  <2>1. PICK from \in Checkpoints \cup {[iter |-> 0, stop |-> FALSE, policy |-> policy]} : Fit(from)
    BY <1>1 DEF FitAgain
  <2>2. from \in Saved
    <3>1. [iter |-> 0, stop |-> FALSE, policy |-> policy] \in Saved
      OBVIOUS
    <3>2. from \in Checkpoints => from \in Saved
      BY CheckpointIs
    <3> QED BY <2>1, <3>1, <3>2
  <2>3. /\ iter' \in 0..MaxIters /\ stop' \in BOOLEAN /\ policy' \in Weights
        /\ begun' \in 0..MaxIters /\ seen' \subseteq TrainingRows /\ restored' \in BOOLEAN
        /\ fitAt' \in {"fit_end", "train"}
    BY <2>1, <2>2 DEF Fit
  <2>4. early' \in [wait : Nat, best : Rewards, weights : Weights \cup {None}]
    BY <2>1 DEF Fit
  <2>5. /\ reused' \in BOOLEAN /\ lastCkpt' \in 0..MaxIters \cup {None}
        /\ UNCHANGED <<opts, files, policies, cut>>
    BY <1>1, <2>1 DEF Fit, FitAgain
  <2> QED BY <2>3, <2>4, <2>5
<1>2. CASE FitAnew
  <2>1. PICK from \in Checkpoints \cup {[iter |-> 0, stop |-> FALSE, policy |-> 0]} : Fit(from)
    BY <1>2 DEF FitAnew
  <2>2. from \in Saved
    <3>1. [iter |-> 0, stop |-> FALSE, policy |-> 0] \in Saved
      OBVIOUS
    <3>2. from \in Checkpoints => from \in Saved
      BY CheckpointIs
    <3> QED BY <2>1, <3>1, <3>2
  <2>3. /\ iter' \in 0..MaxIters /\ stop' \in BOOLEAN /\ policy' \in Weights
        /\ begun' \in 0..MaxIters /\ seen' \subseteq TrainingRows /\ restored' \in BOOLEAN
        /\ fitAt' \in {"fit_end", "train"}
    BY <2>1, <2>2 DEF Fit
  <2>4. early' \in [wait : Nat, best : Rewards, weights : Weights \cup {None}]
    BY <2>1 DEF Fit
  <2>5. /\ reused' \in BOOLEAN /\ lastCkpt' \in 0..MaxIters \cup {None}
        /\ UNCHANGED <<opts, files, policies, cut>>
    BY <1>2, <2>1 DEF Fit, FitAnew
  <2> QED BY <2>3, <2>4, <2>5
<1>3. CASE TrainVessel
  BY <1>3 DEF TrainVessel
<1>4. CASE \E reward \in Rewards : Validate(reward)
  BY <1>4 DEF Validate, KeepBest, Rewards
<1>5. CASE ValidateUnmonitored
  BY <1>5 DEF ValidateUnmonitored
<1>6. CASE IterEnd
  BY <1>6 DEF IterEnd, BeginSave
<1>7. CASE FitEnd
  BY <1>7 DEF FitEnd, BeginSave
<1>8. CASE FileWritten
  BY <1>8 DEF FileWritten
<1>9. CASE Unlink
  BY <1>9 DEF Unlink
<1>10. CASE MakeLatest
  BY <1>10 DEF MakeLatest, AfterSave
<1>11. CASE Copied
  BY <1>11 DEF Copied, AfterSave
<1>12. CASE KillFit
  BY <1>12 DEF KillFit
<1>13. CASE UNCHANGED trainingVars
  BY <1>13 DEF trainingVars
<1> QED BY <1>1, <1>2, <1>3, <1>4, <1>5, <1>6, <1>7, <1>8, <1>9, <1>10, <1>11, <1>12, <1>13 DEF TrainingNext, Rewards

LEMMA GoesOnStep ==
    ASSUME TrainingShape, TrainingInv, [TrainingNext]_trainingVars
    PROVE  GoesOn'
<1> USE TrainingAssumption DEF TrainingAssumption, TrainingInv, TrainingShape, Weights, ckptVars, fitAux, None, FreshEarly, Saved, Opts, Saving, NotFitting, AfterSave, GoesOn
<1>1. CASE FitAgain
  BY <1>1, CheckpointIs DEF FitAgain, Fit
<1>2. CASE FitAnew
  BY <1>2, CheckpointIs DEF FitAnew, Fit
<1>3. CASE TrainVessel
  BY <1>3 DEF TrainVessel
<1>4. CASE \E reward \in Rewards : Validate(reward)
  BY <1>4 DEF Validate, KeepBest, Rewards
<1>5. CASE ValidateUnmonitored
  BY <1>5 DEF ValidateUnmonitored
<1>6. CASE IterEnd
  <2>1. iter < MaxIters /\ iter' = iter + 1 /\ stop' = (stop \/ iter' >= MaxIters)
    BY <1>6 DEF IterEnd
  <2>2. fitAt' = "write" \/ fitAt' = IF stop' THEN "fit_end" ELSE "train"
    BY <1>6 DEF IterEnd, BeginSave
  <2>3. CASE stop'
    BY <2>1, <2>2, <2>3
  <2>4. CASE ~stop'
    <3>1. ~(iter' >= MaxIters)
      BY <2>1, <2>4
    <3>2. iter' < MaxIters
      BY <3>1, <2>1
    <3> QED BY <3>2, <2>2, <2>4
  <2> QED BY <2>3, <2>4
<1>7. CASE FitEnd
  BY <1>7 DEF FitEnd, BeginSave
<1>8. CASE FileWritten
  BY <1>8 DEF FileWritten
<1>9. CASE Unlink
  BY <1>9 DEF Unlink
<1>10. CASE MakeLatest
  BY <1>10 DEF MakeLatest, AfterSave
<1>11. CASE Copied
  BY <1>11 DEF Copied, AfterSave
<1>12. CASE KillFit
  BY <1>12 DEF KillFit
<1>13. CASE UNCHANGED trainingVars
  BY <1>13 DEF trainingVars
<1> QED BY <1>1, <1>2, <1>3, <1>4, <1>5, <1>6, <1>7, <1>8, <1>9, <1>10, <1>11, <1>12, <1>13 DEF TrainingNext, Rewards

LEMMA FilesStep ==
    ASSUME TrainingShape, TrainingInv, [TrainingNext]_trainingVars
    PROVE  FilesTrue'
<1> USE TrainingAssumption DEF TrainingAssumption, TrainingInv, TrainingShape, Weights, ckptVars, fitAux, None, FreshEarly, Saved, Opts, Saving, NotFitting, AfterSave, GoesOn, FilesTrue, SavesNow, WholeFile, Now, TornFile
<1>1. CASE FitAgain
  BY <1>1, CheckpointIs DEF FitAgain, Fit
<1>2. CASE FitAnew
  BY <1>2, CheckpointIs DEF FitAnew, Fit
<1>3. CASE TrainVessel
  BY <1>3 DEF TrainVessel
<1>4. CASE \E reward \in Rewards : Validate(reward)
  BY <1>4 DEF Validate, KeepBest, Rewards
<1>5. CASE ValidateUnmonitored
  BY <1>5 DEF ValidateUnmonitored
<1>6. CASE IterEnd
  <2>1. CASE (iter' + 1) % opts.saveEvery = 0
    <3>1. files' = [files EXCEPT ![iter'] = TornFile] /\ TornFile.is # "whole"
      BY <1>6, <2>1 DEF IterEnd, BeginSave
    <3> QED BY <3>1
  <2>2. CASE ~((iter' + 1) % opts.saveEvery = 0)
    BY <1>6, <2>2 DEF IterEnd
  <2> QED BY <2>1, <2>2
<1>7. CASE FitEnd
  BY <1>7, SMTT(30) DEF FitEnd, BeginSave
<1>8. CASE FileWritten
  BY <1>8 DEF FileWritten
<1>9. CASE Unlink
  BY <1>9 DEF Unlink
<1>10. CASE MakeLatest
  BY <1>10 DEF MakeLatest, AfterSave
<1>11. CASE Copied
  BY <1>11 DEF Copied, AfterSave
<1>12. CASE KillFit
  BY <1>12 DEF KillFit
<1>13. CASE UNCHANGED trainingVars
  BY <1>13 DEF trainingVars
<1> QED BY <1>1, <1>2, <1>3, <1>4, <1>5, <1>6, <1>7, <1>8, <1>9, <1>10, <1>11, <1>12, <1>13 DEF TrainingNext, Rewards

LEMMA BestStep ==
    ASSUME TrainingShape, TrainingInv, [TrainingNext]_trainingVars
    PROVE  BestKnown'
<1> USE TrainingAssumption DEF TrainingAssumption, TrainingInv, TrainingShape, Weights, ckptVars, fitAux, None, FreshEarly, Saved, Opts, Saving, NotFitting, AfterSave, BestKnown, GoesOn, TrainingRows
<1>1. CASE FitAgain
  BY <1>1, CheckpointIs DEF FitAgain, Fit
<1>2. CASE FitAnew
  BY <1>2, CheckpointIs DEF FitAnew, Fit
<1>3. CASE TrainVessel
  BY <1>3 DEF TrainVessel
<1>4. CASE \E reward \in Rewards : Validate(reward)
  BY <1>4 DEF Validate, KeepBest, Rewards
<1>5. CASE ValidateUnmonitored
  BY <1>5 DEF ValidateUnmonitored
<1>6. CASE IterEnd
  BY <1>6 DEF IterEnd, BeginSave
<1>7. CASE FitEnd
  BY <1>7 DEF FitEnd, BeginSave
<1>8. CASE FileWritten
  BY <1>8 DEF FileWritten
<1>9. CASE Unlink
  BY <1>9 DEF Unlink
<1>10. CASE MakeLatest
  BY <1>10 DEF MakeLatest, AfterSave
<1>11. CASE Copied
  BY <1>11 DEF Copied, AfterSave
<1>12. CASE KillFit
  BY <1>12 DEF KillFit
<1>13. CASE UNCHANGED trainingVars
  BY <1>13 DEF trainingVars
<1> QED BY <1>1, <1>2, <1>3, <1>4, <1>5, <1>6, <1>7, <1>8, <1>9, <1>10, <1>11, <1>12, <1>13 DEF TrainingNext, Rewards

LEMMA SavesStep ==
    ASSUME TrainingShape, TrainingInv, [TrainingNext]_trainingVars
    PROVE  SavesNow'
<1> USE TrainingAssumption DEF TrainingAssumption, TrainingInv, TrainingShape, Weights, ckptVars, fitAux, None, FreshEarly, Saved, Opts, Saving, NotFitting, AfterSave, SavesNow, GoesOn, Now
<1>1. CASE FitAgain
  BY <1>1, CheckpointIs DEF FitAgain, Fit
<1>2. CASE FitAnew
  BY <1>2, CheckpointIs DEF FitAnew, Fit
<1>3. CASE TrainVessel
  BY <1>3 DEF TrainVessel
<1>4. CASE \E reward \in Rewards : Validate(reward)
  BY <1>4 DEF Validate, KeepBest, Rewards
<1>5. CASE ValidateUnmonitored
  BY <1>5 DEF ValidateUnmonitored
<1>6. CASE IterEnd
  BY <1>6 DEF IterEnd, BeginSave
<1>7. CASE FitEnd
  BY <1>7 DEF FitEnd, BeginSave
<1>8. CASE FileWritten
  BY <1>8 DEF FileWritten
<1>9. CASE Unlink
  BY <1>9 DEF Unlink
<1>10. CASE MakeLatest
  BY <1>10 DEF MakeLatest, AfterSave
<1>11. CASE Copied
  BY <1>11 DEF Copied, AfterSave
<1>12. CASE KillFit
  BY <1>12 DEF KillFit
<1>13. CASE UNCHANGED trainingVars
  BY <1>13 DEF trainingVars
<1> QED BY <1>1, <1>2, <1>3, <1>4, <1>5, <1>6, <1>7, <1>8, <1>9, <1>10, <1>11, <1>12, <1>13 DEF TrainingNext, Rewards

LEMMA SavedStep ==
    ASSUME TrainingShape, TrainingInv, [TrainingNext]_trainingVars
    PROVE  SavedOnce'
<1> USE TrainingAssumption DEF TrainingAssumption, TrainingInv, TrainingShape, Weights, ckptVars, fitAux, None, FreshEarly, Saved, Opts, Saving, NotFitting, AfterSave, SavedOnce, SavesNow, Now, LatestHolds, LinkLost
<1>1. CASE FitAgain
  BY <1>1, CheckpointIs DEF FitAgain, Fit
<1>2. CASE FitAnew
  BY <1>2, CheckpointIs DEF FitAnew, Fit
<1>3. CASE TrainVessel
  BY <1>3 DEF TrainVessel
<1>4. CASE \E reward \in Rewards : Validate(reward)
  BY <1>4 DEF Validate, KeepBest, Rewards
<1>5. CASE ValidateUnmonitored
  BY <1>5 DEF ValidateUnmonitored
<1>6. CASE IterEnd
  BY <1>6 DEF IterEnd, BeginSave
<1>7. CASE FitEnd
  BY <1>7 DEF FitEnd, BeginSave
<1>8. CASE FileWritten
  BY <1>8 DEF FileWritten
<1>9. CASE Unlink
  BY <1>9 DEF Unlink
<1>10. CASE MakeLatest
  <2>1. CASE ~LinkLost
    BY <1>10, <2>1 DEF MakeLatest, AfterSave
  <2>2. CASE LinkLost
    BY <1>10, <2>2 DEF MakeLatest, AfterSave
  <2> QED BY <2>1, <2>2
<1>11. CASE Copied
  BY <1>11 DEF Copied, AfterSave
<1>12. CASE KillFit
  BY <1>12 DEF KillFit
<1>13. CASE UNCHANGED trainingVars
  BY <1>13 DEF trainingVars
<1> QED BY <1>1, <1>2, <1>3, <1>4, <1>5, <1>6, <1>7, <1>8, <1>9, <1>10, <1>11, <1>12, <1>13 DEF TrainingNext, Rewards

LEMMA LatestStep ==
    ASSUME TrainingShape, TrainingInv, [TrainingNext]_trainingVars
    PROVE  LatestTrue'
<1> USE TrainingAssumption DEF TrainingAssumption, TrainingInv, TrainingShape, Weights, ckptVars, fitAux, None, FreshEarly, Saved, Opts, Saving, NotFitting, AfterSave, LatestTrue, SavesNow, LatestHolds, WholeFile, Now, FilesTrue, NoFile, TornFile, LinkLost, Dangling
<1>1. CASE FitAgain
  BY <1>1, CheckpointIs DEF FitAgain, Fit
<1>2. CASE FitAnew
  BY <1>2, CheckpointIs DEF FitAnew, Fit
<1>3. CASE TrainVessel
  BY <1>3 DEF TrainVessel
<1>4. CASE \E reward \in Rewards : Validate(reward)
  BY <1>4 DEF Validate, KeepBest, Rewards
<1>5. CASE ValidateUnmonitored
  BY <1>5 DEF ValidateUnmonitored
<1>6. CASE IterEnd
  BY <1>6 DEF IterEnd, BeginSave
<1>7. CASE FitEnd
  BY <1>7 DEF FitEnd, BeginSave
<1>8. CASE FileWritten
  BY <1>8 DEF FileWritten
<1>9. CASE Unlink
  BY <1>9 DEF Unlink
<1>10. CASE MakeLatest
  <2>1. CASE ~LinkLost
    BY <1>10, <2>1 DEF MakeLatest, AfterSave
  <2>2. CASE LinkLost
    BY <1>10, <2>2 DEF MakeLatest, AfterSave
  <2> QED BY <2>1, <2>2
<1>11. CASE Copied
  BY <1>11 DEF Copied, AfterSave
<1>12. CASE KillFit
  BY <1>12 DEF KillFit
<1>13. CASE UNCHANGED trainingVars
  BY <1>13 DEF trainingVars
<1> QED BY <1>1, <1>2, <1>3, <1>4, <1>5, <1>6, <1>7, <1>8, <1>9, <1>10, <1>11, <1>12, <1>13 DEF TrainingNext, Rewards

LEMMA BegunStep ==
    ASSUME TrainingShape, TrainingInv, [TrainingNext]_trainingVars
    PROVE  begun' <= iter'
<1> USE TrainingAssumption DEF TrainingAssumption, TrainingInv, TrainingShape, Weights, ckptVars, fitAux, None, FreshEarly, Saved, Opts, Saving, NotFitting, AfterSave
<1>1. CASE FitAgain
  BY <1>1, CheckpointIs DEF FitAgain, Fit
<1>2. CASE FitAnew
  BY <1>2, CheckpointIs DEF FitAnew, Fit
<1>3. CASE TrainVessel
  BY <1>3 DEF TrainVessel
<1>4. CASE \E reward \in Rewards : Validate(reward)
  BY <1>4 DEF Validate, KeepBest, Rewards
<1>5. CASE ValidateUnmonitored
  BY <1>5 DEF ValidateUnmonitored
<1>6. CASE IterEnd
  BY <1>6 DEF IterEnd, BeginSave
<1>7. CASE FitEnd
  BY <1>7 DEF FitEnd, BeginSave
<1>8. CASE FileWritten
  BY <1>8 DEF FileWritten
<1>9. CASE Unlink
  BY <1>9 DEF Unlink
<1>10. CASE MakeLatest
  BY <1>10 DEF MakeLatest, AfterSave
<1>11. CASE Copied
  BY <1>11 DEF Copied, AfterSave
<1>12. CASE KillFit
  BY <1>12 DEF KillFit
<1>13. CASE UNCHANGED trainingVars
  BY <1>13 DEF trainingVars
<1> QED BY <1>1, <1>2, <1>3, <1>4, <1>5, <1>6, <1>7, <1>8, <1>9, <1>10, <1>11, <1>12, <1>13 DEF TrainingNext, Rewards

LEMMA DueStep ==
    ASSUME TrainingShape, TrainingInv, [TrainingNext]_trainingVars
    PROVE  DueSaved'
<1> USE TrainingAssumption DEF TrainingAssumption, TrainingInv, TrainingShape, Weights, ckptVars, fitAux, None, FreshEarly, Saved, Opts, Saving, NotFitting, AfterSave, DueSaved, SavesNow, WholeFile, TornFile
<1>1. CASE FitAgain
  BY <1>1, CheckpointIs DEF FitAgain, Fit
<1>2. CASE FitAnew
  BY <1>2, CheckpointIs DEF FitAnew, Fit
<1>3. CASE TrainVessel
  BY <1>3 DEF TrainVessel
<1>4. CASE \E reward \in Rewards : Validate(reward)
  BY <1>4 DEF Validate, KeepBest, Rewards
<1>5. CASE ValidateUnmonitored
  BY <1>5 DEF ValidateUnmonitored
<1>6. CASE IterEnd
  BY <1>6 DEF IterEnd, BeginSave
<1>7. CASE FitEnd
  BY <1>7 DEF FitEnd, BeginSave
<1>8. CASE FileWritten
  BY <1>8 DEF FileWritten
<1>9. CASE Unlink
  BY <1>9 DEF Unlink
<1>10. CASE MakeLatest
  BY <1>10 DEF MakeLatest, AfterSave
<1>11. CASE Copied
  BY <1>11 DEF Copied, AfterSave
<1>12. CASE KillFit
  BY <1>12 DEF KillFit
<1>13. CASE UNCHANGED trainingVars
  BY <1>13 DEF trainingVars
<1> QED BY <1>1, <1>2, <1>3, <1>4, <1>5, <1>6, <1>7, <1>8, <1>9, <1>10, <1>11, <1>12, <1>13 DEF TrainingNext, Rewards

LEMMA TrainingIsInductive == TrainingSpec => [](TrainingShape /\ TrainingInv)
<1>1. ASSUME TrainingShape, TrainingInv, [TrainingNext]_trainingVars
      PROVE  TrainingShape' /\ TrainingInv'
  <2>1. TrainingShape'
    BY <1>1, TrainingShapeStep
  <2>2. GoesOn' /\ FilesTrue' /\ BestKnown' /\ SavesNow'
    BY <1>1, GoesOnStep, FilesStep, BestStep, SavesStep
  <2>3. SavedOnce' /\ LatestTrue' /\ (begun <= iter)' /\ DueSaved'
    BY <1>1, SavedStep, LatestStep, BegunStep, DueStep
  <2> QED BY <2>1, <2>2, <2>3 DEF TrainingInv
<1> QED BY <1>1, TrainingInits, PTL DEF TrainingSpec

-----------------------------------------------------------------------------
LEMMA TrainingKeeps ==
    ASSUME TrainingShape, TrainingInv
    PROVE  TrainingKept
<1> USE TrainingAssumption DEF TrainingAssumption, TrainingShape, TrainingInv
<1>1. BestKept
  <2> SUFFICES ASSUME restored PROVE BestKept
    BY DEF BestKept
  <2> DEFINE best == [policy |-> early.weights, reward |-> early.best]
  <2>1. best \in seen /\ best.policy = policy
    BY DEF BestKnown
  <2>2. \A s \in seen : s.reward <= best.reward
    BY DEF BestKnown
  <2> QED BY <2>1, <2>2 DEF BestKept
<1>2. FinalSaved
  BY DEF FinalSaved, SavedOnce, Now, LatestHolds, LinkLost
<1>3. LatestWhole
  BY DEF LatestWhole, LatestTrue, WholeFile, Saving, LinkLost
<1>4. LossBounded
  <2> SUFFICES ASSUME iter - begun > opts.saveEvery
               PROVE  \E i \in (iter - opts.saveEvery)..iter : files[i].is = "whole"
    BY DEF LossBounded, Opts
  <2> DEFINE i == IF iter % opts.saveEvery = 0 THEN iter - 1 ELSE iter - 2
  <2>1. opts.saveEvery \in 1..2
    BY DEF Opts
  <2>2. i \in (iter - opts.saveEvery)..iter /\ i \in (begun + 1)..iter /\ i < iter
    BY <2>1
  <2>3. (i + 1) % opts.saveEvery = 0
    BY <2>1
  <2> HIDE DEF i
  <2>4. files[i].is = "whole"
    BY <2>2, <2>3 DEF DueSaved, WholeFile
  <2> QED BY <2>2, <2>4
<1> QED BY <1>1, <1>2, <1>3, <1>4 DEF TrainingKept

\* However many fits follow each other, with checkpoints restored, saves killed and
\* early stops: the best policy is given back, the last one is on disk, latest.pth is
\* whole, and a kill costs at most saveEvery iterations.
THEOREM TrainedIsKept == TrainingSpec => []TrainingKept
BY TrainingIsInductive, TrainingKeeps, PTL

\* Rolling models and policies together: what has been trained is kept and used.
THEOREM ModelsAreTrue == OnlineSpec /\ TrainingSpec => []ModelsTrue
<1>1. SignalsTrue /\ TrainingKept => ModelsTrue
  BY DEF ModelsTrue
<1> QED BY <1>1, SignalsAreTrue, TrainedIsKept, PTL

-----------------------------------------------------------------------------
(* NestedExecution: an order that is split twice.                           *)

\* The whole position is for sale, so that an odd lot can be sold too.
SellsAll == parent.side = "sell" /\ parent.spare = 0
OddLot   == IF SellsAll THEN 0 ELSE parent.amount % TradeUnit

\* What is left to deal.
Left == parent.amount - Dealt

\* The fine bars before this one are over.
NestedPlace == cstep * Fine + (IF level = "fine" THEN fstep ELSE 0)

OrderSet == [side : {"buy", "sell"}, amount : Nat, first : FineBars, last : FineBars,
             spare : {0, TradeUnit}]

NestedShape ==
    /\ splitter \in {"twap", "sbb"}
    /\ parent \in OrderSet /\ parent.first <= parent.last
    /\ level \in {"day", "coarse", "fine"}
    /\ cstep \in 0..Coarse /\ fstep \in 0..Fine
    /\ cleft \in Nat /\ fleft \in Nat /\ cresult \in Nat /\ fresult \in Nat /\ part \in Nat
    /\ fills \in [FineBars -> Nat]
    /\ smooth \in BOOLEAN /\ trend \in Trends
    /\ Dealt \in 0..parent.amount

\* Only bars of the range that are over have dealt.
InRange ==
    /\ \A b \in FineBars : fills[b] > 0 => b < NestedPlace /\ b \in parent.first..parent.last
    /\ level = "day" => cstep = Coarse \/ parent.amount = 0

\* The amounts of the strategies follow the results, one step late.
Accounted ==
    /\ level = "coarse" => cresult <= cleft /\ Left = cleft - cresult
    /\ level = "fine" =>
          /\ cstep \in CoarseFirst..CoarseLast
          /\ Left = cleft - cresult
          /\ cresult <= part /\ part <= cleft /\ cleft <= parent.amount
          /\ fresult <= fleft /\ part - cresult = fleft - fresult

UnitsDealt == Dealt % TradeUnit = 0 \/ (SellsAll /\ Left = 0)

\* The coarse order does not run ahead either.
NotAheadInside ==
    splitter = "twap" /\ level = "fine" /\ cstep < CoarseLast =>
        LET n == CoarseLast - CoarseFirst + 1
        IN  2 * ((parent.amount - cleft + part) * n - parent.amount * (cstep + 1 - CoarseFirst))
                <= n * TradeUnit

\* Nothing hinders what is left from being dealt by the end of the range.
Finishing ==
    smooth /\ (splitter = "sbb" => parent.last = Coarse * Fine - 1) =>
        /\ level # "fine" /\ (cstep > CoarseLast \/ parent.amount = 0) => Left = OddLot
        /\ level = "fine" /\ cstep = CoarseLast =>
              /\ part >= cleft - OddLot
              /\ fstep > FineLast => Left = OddLot

NestedInv ==
    /\ NestedShape /\ InRange /\ Accounted /\ UnitsDealt
    /\ NotAhead /\ NotAheadInside /\ Finishing

-----------------------------------------------------------------------------

LEMMA NestedDivision ==
    ASSUME NEW a \in Int, NEW b \in Nat \ {0}
    PROVE  /\ a \div b \in Int /\ a % b \in 0..(b - 1)
           /\ a = b * (a \div b) + (a % b)
OBVIOUS

LEMMA NestedSizes ==
    /\ Coarse \in Nat \ {0} /\ Fine \in Nat \ {0} /\ TradeUnit \in Nat \ {0}
    /\ Coarse * Fine \in Nat \ {0}
    /\ IsFiniteSet(FineBars) /\ FineBars \subseteq Nat
    /\ \A b \in FineBars : b < Coarse * Fine
<1>1. Coarse \in Nat \ {0} /\ Fine \in Nat \ {0} /\ TradeUnit \in Nat \ {0}
  BY NestedAssumption
<1>2. Coarse * Fine \in Nat \ {0}
  BY <1>1
<1> DEFINE z == Coarse * Fine
<1>3. z \in Nat \ {0}
  BY <1>2
<1> HIDE DEF z
<1>4. IsFiniteSet(0..(z - 1))
  BY <1>3, FS_Interval
<1>5. FineBars = 0..(z - 1)
  BY DEF FineBars, z
<1>6. FineBars \subseteq Nat /\ \A b \in FineBars : b < z
  BY <1>3, <1>5
<1> QED BY <1>1, <1>2, <1>4, <1>5, <1>6 DEF z

\* A multiple keeps the order.
LEMMA Times ==
    ASSUME NEW a \in Int, NEW b \in Int, a <= b, NEW n \in Nat
    PROVE  a * n \in Int /\ b * n \in Int /\ a * n <= b * n
<1>1. (b - a) \in Nat
  OBVIOUS
<1>2. (b - a) * n \in Nat
  BY <1>1
<1>3. (b - a) * n = b * n - a * n
  OBVIOUS
<1>4. a * n \in Int /\ b * n \in Int
  OBVIOUS
<1> QED BY <1>2, <1>3, <1>4

\* The coarse bar of a fine one.
LEMMA CoarseBar ==
    ASSUME NEW c \in Nat, NEW x \in Nat
    PROVE  /\ c * Fine \in Nat /\ (c + 1) * Fine = c * Fine + Fine
           /\ x \div Fine \in Nat
           /\ c <= x \div Fine => c * Fine <= x
           /\ x \div Fine <= c => x < c * Fine + Fine
           /\ x \div Fine < c => x < c * Fine
<1> DEFINE q == x \div Fine
<1>1. Fine \in Nat \ {0}
  BY NestedSizes
<1>2. q \in Int /\ x % Fine \in 0..(Fine - 1) /\ x = Fine * q + (x % Fine)
  BY <1>1, NestedDivision
<1>3. q \in Nat
  BY <1>1
<1> HIDE DEF q
<1>4. Fine * q = q * Fine /\ c * Fine \in Nat /\ (c + 1) * Fine = c * Fine + Fine
      /\ (q + 1) * Fine = q * Fine + Fine
  BY <1>1, <1>3
<1>5. q * Fine <= x /\ x < q * Fine + Fine
  BY <1>1, <1>2, <1>3, <1>4
<1>6. c <= q => c * Fine <= q * Fine
  BY <1>1, <1>3, Times
<1>7. q <= c => q * Fine <= c * Fine
  BY <1>1, <1>3, Times
<1>8. q < c => (q + 1) * Fine <= c * Fine
  BY <1>1, <1>3, Times
<1>9. q * Fine \in Int
  BY <1>1, <1>3
<1> QED BY <1>1, <1>3, <1>4, <1>5, <1>6, <1>7, <1>8, <1>9 DEF q

-----------------------------------------------------------------------------
(* What the strategies ask for.                                             *)

LEMMA RoundIs ==
    ASSUME NEW n \in Int, NEW d \in Nat \ {0}
    PROVE  RoundHalfEven(n, d) \in Int /\ 2 * (RoundHalfEven(n, d) * d) <= 2 * n + d
<1> DEFINE q == n \div d
           r == n % d
<1>1. q \in Int /\ r \in 0..(d - 1) /\ n = d * q + r
  BY NestedDivision
<1>2. \/ RoundHalfEven(n, d) = q
      \/ RoundHalfEven(n, d) = q + 1 /\ 2 * r >= d
  BY <1>1 DEF RoundHalfEven
<1> HIDE DEF q, r
<1>3. d * q = q * d /\ (q + 1) * d = q * d + d /\ q * d \in Int
  BY <1>1
<1> DEFINE z == q * d
<1>4. n = z + r /\ z \in Int /\ q * d = z /\ (q + 1) * d = z + d
  BY <1>1, <1>3
<1> HIDE DEF z
<1>5. CASE RoundHalfEven(n, d) = q
  BY <1>1, <1>4, <1>5
<1>6. CASE RoundHalfEven(n, d) = q + 1 /\ 2 * r >= d
  BY <1>1, <1>4, <1>6
<1> QED BY <1>2, <1>5, <1>6

\* The schedule of TWAP: never more than is left, all of it in the last step, and half
\* a unit ahead at most.
LEMMA TwapIs ==
    ASSUME NEW amount \in Nat, NEW left \in Nat, left <= amount,
           NEW n \in Nat \ {0}, NEW k \in 0..(n - 1)
    PROVE  LET a == TwapAmount(amount, left, k, n)
               U == TradeUnit
           IN  /\ a \in 0..left
               /\ k = n - 1 => a = left
               /\ k < n - 1 /\ 2 * ((amount - left) * n - amount * k) <= n * U
                     => 2 * ((amount - left + a) * n - amount * (k + 1)) <= n * U
<1> DEFINE U == TradeUnit
           a == TwapAmount(amount, left, k, n)
           spent == (amount - left) * n
           due == amount * (k + 1)
           delta == due - spent
           R == RoundHalfEven(delta, n * U)
           even == R * U
<1>1. U \in Nat \ {0}
  BY NestedSizes
<1>2. spent \in Int /\ due \in Int /\ amount * k \in Int /\ due = amount * k + amount
  OBVIOUS
<1>3. a = IF k = n - 1 \/ even >= left THEN left ELSE IF even < 0 THEN 0 ELSE even
  BY DEF TwapAmount
<1> HIDE DEF a, spent, due
<1>4. delta \in Int
  BY <1>2
<1> HIDE DEF delta
<1>5. n * U \in Nat \ {0}
  BY <1>1
<1>6. R \in Int /\ 2 * (R * (n * U)) <= 2 * delta + n * U
  BY <1>4, <1>5, RoundIs
<1> HIDE DEF R
<1>7. even \in Int /\ R * (n * U) = even * n
  BY <1>1, <1>6
<1> HIDE DEF even
<1>8. a \in 0..left /\ (k = n - 1 => a = left)
  BY <1>3, <1>7
<1>9. ASSUME k < n - 1, 2 * ((amount - left) * n - amount * k) <= n * U
      PROVE  2 * ((amount - left + a) * n - amount * (k + 1)) <= n * U
  <2> DEFINE an == a * n
             ak == amount * k
             nU == n * U
  <2>1. an \in Int /\ (amount - left + a) * n = spent + an
    BY <1>8 DEF spent
  <2>2. amount * (k + 1) = due /\ (amount - left) * n = spent
    BY DEF due, spent
  <2>3. nU \in Int /\ ak \in Int /\ due = ak + amount /\ 2 * (spent - ak) <= nU
    BY <1>2, <1>5, <1>9, <2>2
  <2>4. a = 0 => an = 0
    OBVIOUS
  <2>5. a # 0 => a <= even
    BY <1>3, <1>7, <1>8, <1>9
  <2>6. a # 0 => an <= even * n
    BY <1>7, <1>8, <2>5, Times
  <2>7. even * n \in Int /\ 2 * (even * n) <= 2 * delta + nU
    BY <1>6, <1>7
  <2>8. delta = due - spent
    BY DEF delta
  <2> HIDE DEF an, ak, nU
  <2>9. 2 * (spent + an - due) <= nU
    BY <1>2, <2>1, <2>3, <2>4, <2>6, <2>7, <2>8
  <2> QED BY <2>1, <2>2, <2>9 DEF nU
<1> QED BY <1>8, <1>9 DEF a

-----------------------------------------------------------------------------
(* What is dealt.                                                           *)

SumOfBars(f) == FoldFunction(+, 0, f)

LEMMA BarsSum ==
    ASSUME NEW f \in [FineBars -> Nat]
    PROVE  /\ SumOfBars(f) = SumOver(FineBars, f)
           /\ f \in [FineBars -> Int]
<1>1. DOMAIN f = FineBars
  OBVIOUS
<1>2. SumOfBars(f) = SumOver(DOMAIN f, f)
  BY DEF SumOfBars, FoldFunction, FoldFunctionOnSet, MapThenFoldSet, SumOver, Adds, First
<1> QED BY <1>1, <1>2

\* A bar that had dealt nothing.
LEMMA OneMoreBar ==
    ASSUME NEW f \in [FineBars -> Nat], NEW b \in FineBars, f[b] = 0, NEW t \in Nat
    PROVE  /\ [f EXCEPT ![b] = t] \in [FineBars -> Nat]
           /\ SumOfBars([f EXCEPT ![b] = t]) = SumOfBars(f) + t
           /\ SumOfBars(f) \in Int
<1> DEFINE g == [f EXCEPT ![b] = t]
<1>1. g \in [FineBars -> Nat] /\ g[b] = t /\ \A y \in FineBars \ {b} : g[y] = f[y]
  OBVIOUS
<1> HIDE DEF g
<1>2. IsFiniteSet(FineBars)
  BY NestedSizes
<1>3. f \in [FineBars -> Int] /\ g \in [FineBars -> Int]
  BY <1>1, BarsSum
<1>4. SumOver(FineBars, f) = f[b] + SumOver(FineBars \ {b}, f)
  BY <1>2, <1>3, SumSplit
<1>5. SumOver(FineBars, g) = g[b] + SumOver(FineBars \ {b}, f)
  BY <1>1, <1>2, <1>3, SumSplit
<1>6. SumOver(FineBars, f) \in Int
  BY <1>2, <1>3, SumType
<1>7. SumOver(FineBars \ {b}, f) \in Int
  <2> DEFINE h == [y \in FineBars \ {b} |-> f[y]]
  <2>1. IsFiniteSet(FineBars \ {b}) /\ h \in [FineBars \ {b} -> Int]
    BY <1>2, <1>3, FS_Subset
  <2>2. \A y \in FineBars \ {b} : f[y] = h[y]
    OBVIOUS
  <2> HIDE DEF h
  <2>3. SumOver(FineBars \ {b}, f) = SumOver(FineBars \ {b}, h)
    BY <2>1, <2>2, SumSame
  <2> QED BY <2>1, <2>3, SumType
<1>8. SumOfBars(f) = SumOver(FineBars, f) /\ SumOfBars(g) = SumOver(FineBars, g)
  BY <1>1, BarsSum
<1> QED BY <1>1, <1>4, <1>5, <1>6, <1>7, <1>8 DEF g

LEMMA NoBars ==
    ASSUME NEW f \in [FineBars -> Nat], \A b \in FineBars : f[b] = 0
    PROVE  SumOfBars(f) = 0
<1> DEFINE g == [s \in SUBSET FineBars |-> 0]
           z == [b \in FineBars |-> 0]
<1>1. f = z
  OBVIOUS
<1>2. \A s \in SUBSET FineBars : s # {} => z[First(s)] = 0
  BY FirstIsIn
<1>3. \A s \in SUBSET FineBars : 
          g[s] = IF s = {} THEN 0 ELSE z[First(s)] + g[s \ {First(s)}]
  <2> TAKE s \in SUBSET FineBars
  <2>1. CASE s = {}
    BY <2>1
  <2>2. CASE s # {}
    <3>1. s \ {First(s)} \in SUBSET FineBars
      OBVIOUS
    <3>2. g[s \ {First(s)}] = 0 /\ g[s] = 0
      BY <3>1
    <3>3. z[First(s)] = 0
      BY <1>2, <2>2
    <3> HIDE DEF g, z
    <3> QED BY <2>2, <3>2, <3>3
  <2> QED BY <2>1, <2>2
<1>4. Adds(g, FineBars, z)
  <2> DEFINE body(s) == IF s = {} THEN 0 ELSE z[First(s)] + g[s \ {First(s)}]
  <2>1. [s \in SUBSET FineBars |-> g[s]] = [s \in SUBSET FineBars |-> body(s)]
    <3>1. \A s \in SUBSET FineBars : g[s] = body(s)
      BY <1>3
    <3> HIDE DEF g, body
    <3> QED BY <3>1
  <2>2. g = [s \in SUBSET FineBars |-> g[s]]
    OBVIOUS
  <2> HIDE DEF g, z
  <2> QED BY <2>1, <2>2 DEF Adds
<1>5. g[FineBars] = 0
  OBVIOUS
<1> HIDE DEF g, z
<1>6. SumOver(FineBars, z) = 0
  BY <1>4, <1>5, SumIs, NestedSizes
<1> QED BY <1>1, <1>6, BarsSum

LEMMA DealtIs == Dealt = SumOfBars(fills)
BY DEF Dealt, SumOfBars

\* The exchange deals whole units; only a sale of the whole position keeps its odd lot.
LEMMA InUnitsIs ==
    ASSUME parent \in OrderSet, Dealt \in 0..parent.amount, NEW a \in 0..Left
    PROVE  /\ InUnits(a) \in 0..a
           /\ SellsAll /\ a = Left => InUnits(a) = a
           /\ ~(SellsAll /\ a = Left) =>
                 /\ InUnits(a) % TradeUnit = 0
                 /\ a - InUnits(a) = a % TradeUnit
<1> DEFINE U == TradeUnit
           q == a \div U
           floor == q * U
<1>1. U \in Nat \ {0}
  BY NestedSizes
<1>2. parent.amount \in Nat /\ parent.spare \in {0, U} /\ Left = parent.amount - Dealt /\ Left \in Nat
  BY DEF OrderSet, Left
<1>3. a \in Nat /\ a <= Left
  BY <1>2
<1>4. q \in Int /\ a % U \in 0..(U - 1) /\ a = U * q + (a % U)
  BY <1>1, <1>3, NestedDivision
<1>5. InUnits(a) = IF parent.side = "sell" /\ a = Left + parent.spare THEN a ELSE floor
  <2> DEFINE all == parent.amount + parent.spare - Dealt
  <2>1. InUnits(a) = IF parent.side = "sell" /\ a = all THEN a ELSE floor
    BY DEF InUnits
  <2>2. all = Left + parent.spare
    <3>1. parent.amount \in Int /\ parent.spare \in Int /\ Dealt \in Int
      BY <1>1, <1>2
    <3> QED BY <1>2, <3>1
  <2> HIDE DEF all, floor
  <2> QED BY <2>1, <2>2
<1>6. q \in Nat
  BY <1>1, <1>3
<1> HIDE DEF q
<1>7. floor \in Nat /\ floor = U * q /\ floor % U = 0
  BY <1>1, <1>6
<1> HIDE DEF floor
<1>8. floor \in 0..a /\ a - floor = a % U
  BY <1>1, <1>3, <1>4, <1>7
<1>9. CASE SellsAll /\ a = Left
  BY <1>2, <1>3, <1>5, <1>9 DEF SellsAll
<1>10. CASE ~(SellsAll /\ a = Left)
  <2>1. InUnits(a) = floor
    BY <1>1, <1>2, <1>3, <1>5, <1>10 DEF SellsAll
  <2> QED BY <1>7, <1>8, <1>10, <2>1
<1> QED BY <1>9, <1>10

LEMMA ModIs ==
    ASSUME NEW U \in Nat \ {0}, NEW q \in Int, NEW r \in 0..(U - 1)
    PROVE  (U * q + r) % U = r
<1> DEFINE a == U * q + r
           p == a \div U
           s == a % U
<1>1. a \in Int /\ U * q \in Int
  OBVIOUS
<1>2. p \in Int /\ s \in 0..(U - 1) /\ a = U * p + s
  BY <1>1, NestedDivision
<1>3. a = U * q + r
  OBVIOUS
<1> HIDE DEF a, p, s
<1>4. U * p \in Int /\ U * q \in Int /\ U * p = p * U /\ U * q = q * U
      /\ (p + 1) * U = p * U + U /\ (q + 1) * U = q * U + U
  BY <1>2
<1>5. p < q => (p + 1) * U <= q * U
  BY <1>2, Times
<1>6. q < p => (q + 1) * U <= p * U
  BY <1>2, Times
<1>7. p = q
  BY <1>2, <1>3, <1>4, <1>5, <1>6
<1>8. s = r
  BY <1>2, <1>3, <1>4, <1>7
<1> QED BY <1>8 DEF s, a

\* Whole units more leave the odd lot as it is.
LEMMA WholeUnits ==
    ASSUME NEW U \in Nat \ {0}, NEW a \in Nat, NEW b \in Nat, b % U = 0
    PROVE  (a + b) % U = a % U
<1> DEFINE p == a \div U
           q == b \div U
           r == a % U
<1>1. p \in Int /\ r \in 0..(U - 1) /\ a = U * p + r /\ q \in Int /\ b = U * q
  BY NestedDivision
<1> HIDE DEF p, q, r
<1>2. a + b = U * (p + q) + r
  BY <1>1
<1>3. p + q \in Int
  BY <1>1
<1>4. (U * (p + q) + r) % U = r
  BY <1>1, <1>3, ModIs
<1> QED BY <1>2, <1>4 DEF r

LEMMA SmallRest ==
    ASSUME NEW U \in Nat \ {0}, NEW a \in 0..(U - 1)
    PROVE  a % U = a
<1>1. U * 0 + a = a
  OBVIOUS
<1>2. (U * 0 + a) % U = a
  BY ModIs
<1> QED BY <1>1, <1>2

LEMMA LeftIs ==
    ASSUME NestedShape
    PROVE  /\ parent.amount \in Nat /\ Left \in 0..parent.amount /\ Dealt = parent.amount - Left
           /\ Dealt % TradeUnit = 0 => Left % TradeUnit = parent.amount % TradeUnit
           /\ OddLot \in 0..(TradeUnit - 1) /\ OddLot <= parent.amount
           /\ parent.amount = 0 => OddLot = 0
<1> DEFINE U == TradeUnit
<1>1. U \in Nat \ {0}
  BY NestedSizes
<1>2. parent.amount \in Nat /\ Dealt \in Nat /\ Dealt <= parent.amount
  BY DEF NestedShape, OrderSet
<1>3. Left \in 0..parent.amount /\ Dealt = parent.amount - Left /\ parent.amount = Left + Dealt
  BY <1>2 DEF Left
<1>4. Left \in Nat
  BY <1>2, <1>3
<1>5. Dealt % U = 0 => (Left + Dealt) % U = Left % U
  BY <1>1, <1>2, <1>4, WholeUnits
<1>6. parent.amount % U \in 0..(U - 1) /\ parent.amount % U <= parent.amount
  <2>1. parent.amount % U \in 0..(U - 1)
    <3> DEFINE m == parent.amount
    <3>1. m \in Int
      BY <1>2
    <3> HIDE DEF m
    <3>2. m % U \in 0..(U - 1)
      BY <1>1, <3>1, NestedDivision
    <3> QED BY <3>2 DEF m
  <2>2. CASE parent.amount < U
    <3>1. parent.amount \in 0..(U - 1)
      BY <1>1, <1>2, <2>2
    <3>2. parent.amount % U = parent.amount
      BY <1>1, <3>1, SmallRest
    <3> QED BY <1>2, <2>1, <3>2
  <2>3. CASE parent.amount >= U
    BY <1>1, <1>2, <2>1, <2>3
  <2> QED BY <1>1, <1>2, <2>1, <2>2, <2>3
<1>7. OddLot \in 0..(U - 1) /\ OddLot <= parent.amount
  BY <1>1, <1>2, <1>6 DEF OddLot
<1>8. parent.amount = 0 => OddLot = 0
  BY <1>1, <1>2, <1>7
<1> QED BY <1>2, <1>3, <1>5, <1>7, <1>8

LEMMA RangeOf ==
    ASSUME NEW p \in OrderSet, p.first <= p.last, NEW c \in 0..Coarse
    PROVE  LET A == p.first \div Fine
               B == p.last \div Fine
           IN  /\ A \in Nat /\ B \in Nat /\ A <= B /\ B < Coarse
               /\ p.last = Coarse * Fine - 1 => B = Coarse - 1
               /\ c * Fine \in Nat /\ (c + 1) * Fine = c * Fine + Fine
               /\ c <= A => c * Fine <= p.first
<1>1. /\ Coarse \in Nat \ {0} /\ Fine \in Nat \ {0} /\ Coarse * Fine \in Nat
      /\ p.first \in Nat /\ p.last \in Nat /\ p.first <= p.last
      /\ p.last < Coarse * Fine /\ c \in Nat /\ c <= Coarse
  <2>1. p.first \in FineBars /\ p.last \in FineBars /\ p.first <= p.last
    BY DEF OrderSet
  <2>2. c \in 0..Coarse
    OBVIOUS
  <2>3. Coarse \in Nat \ {0} /\ Fine \in Nat \ {0}
    BY NestedSizes
  <2>4. Coarse * Fine \in Nat
    BY NestedSizes
  <2>5. p.first \in Nat /\ p.last \in Nat /\ p.last < Coarse * Fine
    BY <2>1, NestedSizes
  <2>6. c \in Nat /\ c <= Coarse
    BY <2>2, <2>3
  <2> QED BY <2>1, <2>3, <2>4, <2>5, <2>6
<1> DEFINE A == p.first \div Fine
           B == p.last \div Fine
<1>2. A \in Nat /\ B \in Nat
  BY <1>1, CoarseBar
<1>3. A * Fine \in Nat /\ A * Fine <= p.first
  BY <1>1, <1>2, CoarseBar
<1>4. B < A => p.last < A * Fine
  BY <1>1, <1>2, CoarseBar
<1>5. A <= B
  BY <1>1, <1>2, <1>3, <1>4
<1>6. Coarse <= B => Coarse * Fine <= p.last
  BY <1>1, <1>2, CoarseBar
<1>7. B < Coarse
  BY <1>1, <1>2, <1>6
<1>8. Coarse - 1 \in Nat
  BY <1>1
<1>9. ((Coarse - 1) + 1) * Fine = (Coarse - 1) * Fine + Fine /\ (Coarse - 1) * Fine \in Nat
  BY <1>1, <1>8, CoarseBar
<1>10. B < Coarse - 1 => p.last < (Coarse - 1) * Fine
  BY <1>1, <1>8, CoarseBar
<1>11. (Coarse - 1) + 1 = Coarse
  BY <1>1
<1>12. p.last = Coarse * Fine - 1 => B = Coarse - 1
  <2> DEFINE z == Coarse * Fine
             y == (Coarse - 1) * Fine
  <2>1. z = y + Fine /\ z \in Nat /\ y \in Nat
    BY <1>1, <1>9, <1>11
  <2> HIDE DEF z, y
  <2>2. B < Coarse - 1 => p.last < y
    BY <1>10 DEF y
  <2>3. p.last = z - 1 => ~(B < Coarse - 1)
    BY <1>1, <2>1, <2>2
  <2>4. p.last = z - 1 => B = Coarse - 1
    BY <1>1, <1>2, <1>7, <2>3
  <2> QED BY <2>4 DEF z
<1>13. c * Fine \in Nat /\ (c + 1) * Fine = c * Fine + Fine
       /\ (c <= A => c * Fine <= p.first)
  BY <1>1, CoarseBar
<1> HIDE DEF A, B
<1> QED BY <1>2, <1>5, <1>7, <1>12, <1>13 DEF A, B

LEMMA RangeIs ==
    ASSUME NestedShape
    PROVE  /\ CoarseFirst \in Nat /\ CoarseLast \in Nat
           /\ CoarseFirst <= CoarseLast /\ CoarseLast < Coarse
           /\ parent.last = Coarse * Fine - 1 => CoarseLast = Coarse - 1
           /\ cstep * Fine \in Nat /\ (cstep + 1) * Fine = cstep * Fine + Fine
           /\ cstep <= CoarseFirst => cstep * Fine <= parent.first
<1>1. parent \in OrderSet /\ parent.first <= parent.last /\ cstep \in 0..Coarse
  BY DEF NestedShape
<1> QED BY <1>1, RangeOf DEF CoarseFirst, CoarseLast

LEMMA FineRangeIs ==
    ASSUME NestedShape, CoarseFirst <= cstep, cstep <= CoarseLast
    PROVE  /\ FineFirst \in Nat /\ FineLast \in Nat /\ FineFirst <= FineLast /\ FineLast < Fine
           /\ \A f \in FineFirst..FineLast :
                 /\ cstep * Fine + f \in FineBars
                 /\ cstep * Fine + f \in parent.first..parent.last
<1> DEFINE z == cstep * Fine
<1>1. /\ Coarse \in Nat \ {0} /\ Fine \in Nat \ {0} /\ Coarse * Fine \in Nat
      /\ parent.first \in Nat /\ parent.last \in Nat /\ parent.first <= parent.last
      /\ parent.last < Coarse * Fine /\ cstep \in Nat /\ cstep <= Coarse
  <2>1. parent.first \in FineBars /\ parent.last \in FineBars /\ parent.first <= parent.last
    BY DEF NestedShape, OrderSet
  <2>2. cstep \in 0..Coarse
    BY DEF NestedShape
  <2>3. Coarse \in Nat \ {0} /\ Fine \in Nat \ {0}
    BY NestedSizes
  <2>4. Coarse * Fine \in Nat
    BY NestedSizes
  <2>5. parent.first \in Nat /\ parent.last \in Nat /\ parent.last < Coarse * Fine
    BY <2>1, NestedSizes
  <2>6. cstep \in Nat /\ cstep <= Coarse
    BY <2>2, <2>3
  <2> QED BY <2>1, <2>3, <2>4, <2>5, <2>6
<1>2. z \in Nat /\ z <= parent.last
  BY <1>1, CoarseBar DEF CoarseLast
<1>3. parent.first < z + Fine
  BY <1>1, CoarseBar DEF CoarseFirst
<1>4. FineFirst = ClipIdx(parent.first - z, Fine) /\ FineLast = ClipIdx(parent.last - z, Fine)
  BY DEF FineFirst, FineLast
<1> HIDE DEF z
<1>5. FineFirst = IF parent.first < z THEN 0 ELSE parent.first - z
  BY <1>1, <1>2, <1>3, <1>4 DEF ClipIdx
<1>6. FineLast = IF parent.last - z >= Fine THEN Fine - 1 ELSE parent.last - z
  BY <1>1, <1>2, <1>4 DEF ClipIdx
<1>7. FineFirst \in Nat /\ FineLast \in Nat /\ FineFirst <= FineLast /\ FineLast < Fine
  BY <1>1, <1>2, <1>3, <1>5, <1>6
<1>8. ASSUME NEW f \in FineFirst..FineLast
      PROVE  z + f \in FineBars /\ z + f \in parent.first..parent.last
  <2>1. f \in Nat /\ parent.first <= z + f /\ z + f <= parent.last
    BY <1>1, <1>2, <1>5, <1>6, <1>7
  <2>2. z + f \in Nat /\ z + f <= Coarse * Fine - 1
    BY <1>1, <1>2, <2>1
  <2> QED BY <1>1, <2>1, <2>2 DEF FineBars
<1> QED BY <1>7, <1>8 DEF z

\* SBB asks for no more than is left, and in the last step for all whole units of it.
LEMMA SbbIs ==
    ASSUME NEW left \in Nat, NEW n \in Nat \ {0}, NEW mood \in Trends,
           parent.side \in {"buy", "sell"}
    PROVE  /\ SbbAmount(left, n, mood) \in 0..left
           /\ n = 1 /\ mood = "mid" =>
                 \/ SbbAmount(left, n, mood) = left
                 \/ parent.side = "buy" /\ left - SbbAmount(left, n, mood) = left % TradeUnit
<1> DEFINE U == TradeUnit
           units == left \div U
           some == IF mood = "mid" THEN ((units + n - 1) \div n) * U
                                   ELSE ((units + n) \div (n + 1)) * 2 * U
           even == cstep % 2 = 0
           better == \/ mood = "mid"
                     \/ even = (mood = (IF parent.side = "sell" THEN "short" ELSE "long"))
           all == parent.side = "sell" /\ (some = 0 \/ n = 1)
           a == SbbAmount(left, n, mood)
<1>1. a = IF ~better THEN 0 ELSE IF all \/ some > left THEN left ELSE some
  BY DEF SbbAmount
<1>2. U \in Nat \ {0}
  BY NestedSizes
<1>3. units \in Nat /\ left % U \in 0..(U - 1) /\ left = U * units + (left % U)
  <2>1. left \div TradeUnit \in Nat
    BY <1>2
  <2> QED BY <1>2, <2>1, NestedDivision
<1>4. some \in Nat
  <2> HIDE DEF units
  <2>1. (units + n - 1) \div n \in Nat
    BY <1>3
  <2>2. (units + n) \div (n + 1) \in Nat
    BY <1>3
  <2> DEFINE x == (units + n - 1) \div n
             y == (units + n) \div (n + 1)
  <2>3. some = IF mood = "mid" THEN x * U ELSE y * 2 * U
    OBVIOUS
  <2>4. x \in Nat /\ y \in Nat
    BY <2>1, <2>2
  <2> HIDE DEF x, y, some
  <2>5. x * U \in Nat /\ y * 2 * U \in Nat
    BY <1>2, <2>4
  <2> QED BY <2>3, <2>5
<1>5. a \in 0..left
  <2> HIDE DEF a, some, better, all
  <2> QED BY <1>1, <1>4
<1>6. ASSUME n = 1, mood = "mid"
      PROVE  a = left \/ (parent.side = "buy" /\ left - a = left % U)
  <2>1. better
    BY <1>6
  <2>2. some = units * U
    <3> HIDE DEF units
    <3>1. (units + n - 1) \div n = units
      BY <1>3, <1>6
    <3> QED BY <1>6, <3>1
  <2>3. CASE parent.side = "sell"
    <3>1. all
      BY <1>6, <2>3
    <3> HIDE DEF a, some, better, all
    <3> QED BY <1>1, <2>1, <3>1
  <2>4. CASE parent.side # "sell"
    <3>1. ~all /\ parent.side = "buy"
      BY <2>4
    <3> HIDE DEF a, better, all, some, units
    <3>2. a = left \/ a = some
      BY <1>1, <2>1, <3>1
    <3>3. units * U = U * units
      BY <1>2, <1>3
    <3>4. left - some = left % U
      BY <1>2, <1>3, <2>2, <3>3
    <3> QED BY <3>1, <3>2, <3>4
  <2> QED BY <2>3, <2>4
<1> QED BY <1>5, <1>6 DEF a

-----------------------------------------------------------------------------

LEMMA NestedInits ==
    ASSUME NestedInit
    PROVE  NestedInv
<1>1. 0 \in FineBars
  BY NestedSizes DEF FineBars
<1>2. fills = [b \in FineBars |-> 0]
  BY DEF NestedInit
<1>3. fills \in [FineBars -> Nat] /\ \A b \in FineBars : fills[b] = 0
  BY <1>2
<1>4. Dealt = 0
  BY <1>3, NoBars, DealtIs
<1>5. parent = NoParent /\ parent.amount = 0 /\ parent.first = 0 /\ parent.last = 0
      /\ parent.side = "buy" /\ parent.spare = 0
  BY DEF NestedInit, NoParent
<1>6. parent \in OrderSet
  BY <1>1, <1>5 DEF OrderSet, NoParent
<1>7. NestedShape
  <2>1. 0 \in 0..Coarse /\ 0 \in 0..Fine
    BY NestedSizes
  <2> QED BY <1>3, <1>4, <1>5, <1>6, <2>1 DEF NestedInit, NestedShape, Trends
<1>8. level = "day"
  BY DEF NestedInit
<1>9. InRange
  BY <1>3, <1>5, <1>8 DEF InRange
<1>10. Accounted /\ NotAhead /\ NotAheadInside
  BY <1>8 DEF Accounted, NotAhead, NotAheadInside
<1>11. UnitsDealt
  BY <1>4, NestedSizes DEF UnitsDealt
<1>12. Finishing
  BY <1>7, <1>5, <1>8, LeftIs DEF Finishing
<1> QED BY <1>7, <1>9, <1>10, <1>11, <1>12 DEF NestedInv

LEMMA StartDayKeeps ==
    ASSUME NestedInv, StartDay
    PROVE  NestedInv'
<1>1. PICK side \in {"buy", "sell"}, a \in Amounts, spare \in {0, TradeUnit},
           b1 \in FirstBars, b2 \in LastBars :
          /\ b1 <= b2
          /\ parent' = [side |-> side, amount |-> a, first |-> b1, last |-> b2, spare |-> spare]
          /\ cleft' = a
  BY DEF StartDay
<1>2. b1 \in FineBars /\ b2 \in FineBars /\ a \in Nat
  BY NestedAssumption DEF FineBars
<1>3. parent' \in OrderSet /\ parent'.first <= parent'.last /\ parent'.amount = a
  BY <1>1, <1>2 DEF OrderSet
<1>4. fills' = [b \in FineBars |-> 0]
  BY DEF StartDay
<1>5. fills' \in [FineBars -> Nat] /\ \A b \in FineBars : fills'[b] = 0
  BY <1>4
<1>6. Dealt' = 0
  <2>1. SumOfBars(fills') = 0
    BY <1>5, NoBars
  <2> QED BY <2>1 DEF Dealt, SumOfBars, FoldFunction, FoldFunctionOnSet, MapThenFoldSet
<1>7. Left' = a
  BY <1>2, <1>3, <1>6 DEF Left
<1>8. /\ level' = "coarse" /\ cstep' = 0 /\ cresult' = 0 /\ trend' = "mid"
      /\ fstep' = 0 /\ fleft' = 0 /\ fresult' = 0 /\ part' = 0
      /\ smooth' = TRUE /\ splitter' = splitter /\ dates' = dates
  BY DEF StartDay
<1>9. NestedShape'
  <2>1. 0 \in 0..Coarse /\ 0 \in 0..Fine
    BY NestedSizes
  <2>2. splitter \in {"twap", "sbb"}
    BY DEF NestedInv, NestedShape
  <2>3. Dealt' \in 0..parent'.amount
    BY <1>2, <1>3, <1>6
  <2> QED BY <1>1, <1>2, <1>3, <1>5, <1>8, <2>1, <2>2, <2>3 DEF NestedShape, Trends
<1>10. InRange'
  BY <1>5, <1>8 DEF InRange
<1>11. Accounted'
  BY <1>1, <1>2, <1>7, <1>8 DEF Accounted
<1>12. UnitsDealt'
  BY <1>6, NestedSizes DEF UnitsDealt
<1>13. NotAhead'
  <2>1. CoarseFirst' \in Nat /\ CoarseLast' \in Nat
    <3>1. 0 \in 0..Coarse
      BY NestedSizes
    <3> QED BY <1>3, <3>1, RangeOf DEF CoarseFirst, CoarseLast
  <2> DEFINE A == CoarseFirst'
             B == CoarseLast'
  <2> SUFFICES ASSUME A <= 0, 0 <= B
               PROVE  2 * (0 * (B - A + 1) - a * (0 - A)) <= (B - A + 1) * TradeUnit
    BY <1>3, <1>6, <1>8 DEF NotAhead
  <2>2. A = 0 /\ (B - A + 1) \in Nat
    <3> HIDE DEF A, B
    <3>1. A \in Nat /\ B \in Nat
      BY <2>1 DEF A, B
    <3> QED BY <3>1
  <2>3. (B - A + 1) * TradeUnit \in Nat
    BY <2>2, NestedSizes
  <2>4. a * (0 - A) = 0 /\ 0 * (B - A + 1) = 0
    BY <1>2, <2>2
  <2> HIDE DEF A, B
  <2> QED BY <2>3, <2>4
<1>14. NotAheadInside'
  BY <1>8 DEF NotAheadInside
<1>15. Finishing'
  <2>1. CoarseLast' \in Nat
    <3>1. 0 \in 0..Coarse
      BY NestedSizes
    <3> QED BY <1>3, <3>1, RangeOf DEF CoarseLast
  <2>2. ~(cstep' > CoarseLast')
    BY <1>8, <2>1
  <2>3. a = 0 => Left' = OddLot'
    <3>1. 0 % TradeUnit = 0
      BY NestedSizes
    <3>2. parent'.amount = 0 => OddLot' = 0
      BY <3>1 DEF OddLot
    <3> QED BY <1>3, <1>7, <3>2
  <2> QED BY <1>3, <1>8, <2>2, <2>3 DEF Finishing
<1> QED BY <1>9, <1>10, <1>11, <1>12, <1>13, <1>14, <1>15 DEF NestedInv

LEMMA OrderKept ==
    ASSUME UNCHANGED parent
    PROVE  CoarseFirst' = CoarseFirst /\ CoarseLast' = CoarseLast
           /\ (SellsAll' <=> SellsAll) /\ OddLot' = OddLot
BY DEF CoarseFirst, CoarseLast, SellsAll, OddLot

LEMMA DealtKept ==
    ASSUME UNCHANGED <<parent, fills>>
    PROVE  Dealt' = Dealt /\ Left' = Left /\ (UnitsDealt' <=> UnitsDealt)
<1>1. Dealt' = Dealt
  BY DEF Dealt, FoldFunction, FoldFunctionOnSet, MapThenFoldSet
<1>2. Left' = Left
  BY <1>1 DEF Left
<1> QED BY <1>1, <1>2, OrderKept DEF UnitsDealt

LEMMA EndDayKeeps ==
    ASSUME NestedInv, EndDay
    PROVE  NestedInv'
<1>1. /\ level = "coarse" /\ (cstep = Coarse \/ parent.amount = 0) /\ level' = "day"
      /\ UNCHANGED <<splitter, parent, cstep, fstep, cleft, fleft, cresult, fresult, part,
                     trend, fills, smooth>>
  BY DEF EndDay
<1>3. NestedShape /\ InRange /\ Finishing
  BY DEF NestedInv
<1>4. Dealt' = Dealt /\ Left' = Left /\ (UnitsDealt' <=> UnitsDealt)
      /\ CoarseLast' = CoarseLast /\ OddLot' = OddLot
  BY <1>1, DealtKept, OrderKept
<1>5. NestedShape'
  BY <1>1, <1>3, <1>4 DEF NestedShape
<1>6. InRange'
  <2>1. NestedPlace' = NestedPlace
    BY <1>1 DEF NestedPlace
  <2>2. \A b \in FineBars : fills[b] > 0 => b < NestedPlace /\ b \in parent.first..parent.last
    BY <1>3 DEF InRange
  <2> QED BY <1>1, <2>1, <2>2 DEF InRange
<1>7. Accounted' /\ NotAhead' /\ NotAheadInside'
  BY <1>1 DEF Accounted, NotAhead, NotAheadInside
<1>8. UnitsDealt'
  BY <1>4 DEF NestedInv
<1>9. Finishing'
  BY <1>1, <1>3, <1>4 DEF Finishing
<1> QED BY <1>5, <1>6, <1>7, <1>8, <1>9 DEF NestedInv

LEMMA SkipCoarseKeeps ==
    ASSUME NestedInv, SkipCoarse
    PROVE  NestedInv'
<1>1. /\ level = "coarse" /\ level' = "coarse" /\ cstep < Coarse /\ parent.amount > 0
      /\ ~(CoarseFirst <= cstep /\ cstep <= CoarseLast)
      /\ cstep' = cstep + 1
      /\ UNCHANGED <<splitter, parent, fstep, cleft, fleft, cresult, fresult, part,
                     trend, dates, fills, smooth>>
  BY DEF SkipCoarse, InCoarseLoop
<1>2. NestedShape /\ InRange /\ Accounted /\ Finishing
  BY DEF NestedInv
<1>3. Dealt' = Dealt /\ Left' = Left /\ (UnitsDealt' <=> UnitsDealt) /\ OddLot' = OddLot
      /\ CoarseFirst' = CoarseFirst /\ CoarseLast' = CoarseLast
  BY <1>1, DealtKept, OrderKept
<1> DEFINE A == CoarseFirst
           B == CoarseLast
           z == cstep * Fine
<1>4. /\ A \in Nat /\ B \in Nat /\ A <= B /\ B < Coarse
      /\ z \in Nat /\ (cstep + 1) * Fine = z + Fine
      /\ cstep <= A => z <= parent.first
  BY <1>2, RangeIs
<1>5. cstep \in Nat /\ cstep <= Coarse /\ Coarse \in Nat /\ Fine \in Nat
  BY <1>2, NestedSizes DEF NestedShape
<1>6. NestedPlace = z /\ NestedPlace' = z + Fine
  <2>1. NestedPlace = z + 0 /\ NestedPlace' = (cstep + 1) * Fine + 0
    BY <1>1 DEF NestedPlace
  <2> HIDE DEF z
  <2> QED BY <1>4, <1>5, <2>1
<1> HIDE DEF A, B, z
<1>7. NestedShape'
  <2>1. cstep' \in 0..Coarse
    BY <1>1, <1>5
  <2> QED BY <1>1, <1>2, <1>3, <2>1 DEF NestedShape
<1>8. InRange'
  <2>1. \A b \in FineBars : fills[b] > 0 => b < NestedPlace /\ b \in parent.first..parent.last
    BY <1>2 DEF InRange
  <2>2. \A b \in FineBars : b < NestedPlace => b < NestedPlace'
    BY <1>4, <1>5, <1>6, NestedSizes
  <2>3. \A b \in FineBars : fills'[b] > 0 => b < NestedPlace' /\ b \in parent'.first..parent'.last
    BY <1>1, <2>1, <2>2
  <2> QED BY <1>1, <2>3 DEF InRange
<1>9. Accounted'
  BY <1>1, <1>2, <1>3 DEF Accounted
<1>10. UnitsDealt'
  BY <1>3 DEF NestedInv
<1>11. NotAhead'
  <2> SUFFICES ASSUME A <= cstep', cstep' <= B
               PROVE  2 * (Dealt * (B - A + 1) - parent.amount * (cstep' - A)) <= (B - A + 1) * TradeUnit
    BY <1>1, <1>3 DEF NotAhead, A, B
  <2>1. cstep + 1 = A /\ cstep <= A
    BY <1>1, <1>4, <1>5 DEF A, B
  <2>2. \A b \in FineBars : fills[b] = 0
    <3>1. parent.first \in Nat /\ fills \in [FineBars -> Nat]
      BY <1>2, NestedSizes DEF NestedShape, OrderSet
    <3> SUFFICES ASSUME NEW b \in FineBars, fills[b] # 0 PROVE FALSE
      OBVIOUS
    <3>2. fills[b] > 0 /\ b \in Nat
      BY <3>1, NestedSizes
    <3>3. b < NestedPlace /\ b \in parent.first..parent.last
      BY <1>2, <3>2 DEF InRange
    <3>4. z <= parent.first
      BY <1>4, <2>1
    <3> QED BY <1>4, <1>6, <3>1, <3>2, <3>3, <3>4
  <2>3. Dealt = 0
    BY <1>2, <2>2, NoBars, DealtIs DEF NestedShape
  <2> DEFINE n == B - A + 1
             m == parent.amount
  <2>4. n \in Nat /\ cstep' - A = 0 /\ m \in Nat
    BY <1>1, <1>2, <1>4, <1>5, <2>1 DEF NestedShape, OrderSet
  <2> HIDE DEF n, m
  <2>5. n * TradeUnit \in Nat /\ 0 * n = 0 /\ m * 0 = 0
    BY <2>4, NestedSizes
  <2>6. 2 * (Dealt * n - m * (cstep' - A)) <= n * TradeUnit
    BY <2>3, <2>4, <2>5
  <2> QED BY <2>6 DEF n, m
<1>12. NotAheadInside'
  BY <1>1 DEF NotAheadInside
<1>13. Finishing'
  <2>1. cstep + 1 > B => cstep > B
    BY <1>1, <1>4, <1>5 DEF A, B
  <2>2. ASSUME smooth, splitter = "sbb" => parent.last = Coarse * Fine - 1, cstep + 1 > B
        PROVE  Left = OddLot
    BY <1>1, <1>2, <2>1, <2>2 DEF Finishing, B
  <2> DEFINE y == Coarse * Fine
  <2>3. parent.amount # 0
    BY <1>1, <1>2 DEF NestedShape, OrderSet
  <2> HIDE DEF y
  <2> QED BY <1>1, <1>3, <2>2, <2>3 DEF Finishing, y, B
<1> QED BY <1>7, <1>8, <1>9, <1>10, <1>11, <1>12, <1>13 DEF NestedInv

LEMMA DecideCoarseKeeps ==
    ASSUME NestedInv, DecideCoarse
    PROVE  NestedInv'
<1>1. /\ level = "coarse" /\ cstep < Coarse /\ parent.amount > 0
      /\ CoarseFirst <= cstep /\ cstep <= CoarseLast
      /\ cleft' = cleft - cresult
      /\ level' = "fine" /\ fstep' = 0 /\ fleft' = part' /\ fresult' = 0 /\ cresult' = 0
      /\ UNCHANGED <<splitter, parent, cstep, dates, fills>>
  BY DEF DecideCoarse, InCoarseLoop
<1>2. NestedShape /\ InRange /\ Accounted /\ Finishing /\ UnitsDealt /\ NotAhead
  BY DEF NestedInv
<1>3. Dealt' = Dealt /\ Left' = Left /\ (UnitsDealt' <=> UnitsDealt) /\ OddLot' = OddLot
      /\ CoarseFirst' = CoarseFirst /\ CoarseLast' = CoarseLast
  BY <1>1, DealtKept, OrderKept
<1> DEFINE A == CoarseFirst
           B == CoarseLast
           n == B - A + 1
           k == cstep - A
           amount == parent.amount
<1>4. /\ A \in Nat /\ B \in Nat /\ A <= B /\ B < Coarse
      /\ cstep * Fine \in Nat
      /\ parent.last = Coarse * Fine - 1 => B = Coarse - 1
  BY <1>2, RangeIs
<1>5. cstep \in Nat /\ Coarse \in Nat /\ Fine \in Nat /\ TradeUnit \in Nat \ {0}
  BY <1>2, NestedSizes DEF NestedShape
<1>6. cleft' = Left /\ amount \in Nat /\ Left \in 0..amount /\ Dealt = amount - Left /\ Left \in Nat
  BY <1>1, <1>2, LeftIs DEF Accounted
<1>7. n \in Nat \ {0} /\ k \in 0..(n - 1) /\ (k = n - 1 <=> cstep = B)
  BY <1>1, <1>4, <1>5
<1> DEFINE twap == TwapAmount(amount, cleft', k, n)
           sbb(mood) == SbbAmount(cleft', Coarse - cstep, mood)
<1>8. PICK mood \in (IF splitter = "sbb" /\ cstep % 2 = 0 THEN Trends ELSE {trend}),
           tradable \in BOOLEAN :
          /\ trend' = mood
          /\ part' = IF ~tradable THEN 0 ELSE IF splitter = "twap" THEN twap ELSE sbb(mood)
          /\ smooth' = (smooth /\ tradable /\ mood = "mid")
  BY DEF DecideCoarse
<1>9. mood \in Trends /\ splitter \in {"twap", "sbb"} /\ parent.side \in {"buy", "sell"}
      /\ smooth \in BOOLEAN
  BY <1>2, <1>8 DEF NestedShape, OrderSet
<1> HIDE DEF amount, A, B, twap, sbb
<1>10. /\ twap \in 0..Left
       /\ k = n - 1 => twap = Left
       /\ k < n - 1 /\ 2 * ((amount - Left) * n - amount * k) <= n * TradeUnit
             => 2 * ((amount - Left + twap) * n - amount * (k + 1)) <= n * TradeUnit
  <2> HIDE DEF n, k
  <2> QED BY <1>6, <1>7, TwapIs DEF twap
<1>11. /\ sbb(mood) \in 0..Left
       /\ Coarse - cstep = 1 /\ mood = "mid" =>
             \/ sbb(mood) = Left
             \/ parent.side = "buy" /\ Left - sbb(mood) = Left % TradeUnit
  <2>1. Coarse - cstep \in Nat \ {0}
    BY <1>1, <1>5
  <2>2. cleft' \in Nat
    BY <1>6
  <2> QED BY <1>6, <1>9, <2>1, <2>2, SbbIs DEF sbb
<1>12. part' \in 0..Left
  BY <1>6, <1>8, <1>10, <1>11
<1>13. NestedShape'
  <2>1. 0 \in 0..Fine /\ cstep \in 0..Coarse
    BY <1>2, <1>5 DEF NestedShape
  <2>2. part' \in Nat /\ cleft' \in Nat
    BY <1>6, <1>12
  <2>3. smooth' \in BOOLEAN /\ trend' \in Trends
    BY <1>8, <1>9
  <2> QED BY <1>1, <1>2, <1>3, <2>1, <2>2, <2>3 DEF NestedShape
<1>14. InRange'
  <2>1. NestedPlace' = NestedPlace
    <3> DEFINE z == cstep * Fine
    <3>1. NestedPlace' = z + 0 /\ NestedPlace = z + 0
      BY <1>1 DEF NestedPlace
    <3> QED BY <3>1
  <2>2. \A b \in FineBars : fills[b] > 0 => b < NestedPlace /\ b \in parent.first..parent.last
    BY <1>2 DEF InRange
  <2> QED BY <1>1, <2>1, <2>2 DEF InRange
<1>15. Accounted'
  <2>1. cstep \in A..B
    BY <1>1, <1>4, <1>5 DEF A, B
  <2> QED BY <1>1, <1>3, <1>6, <1>12, <2>1 DEF Accounted, A, B, amount
<1>16. UnitsDealt' /\ NotAhead'
  BY <1>1, <1>2, <1>3 DEF NotAhead
<1>17. NotAheadInside'
  <2> SUFFICES ASSUME splitter = "twap", cstep < B
               PROVE  2 * ((amount - Left + part') * n - amount * (cstep + 1 - A)) <= n * TradeUnit
    BY <1>1, <1>3, <1>6 DEF NotAheadInside, A, B, amount
  <2>1. cstep + 1 - A = k + 1 /\ k < n - 1
    BY <1>4, <1>5, <1>7
  <2>2. 2 * (Dealt * n - amount * k) <= n * TradeUnit
    BY <1>1, <1>2 DEF NotAhead, A, B, amount
  <2>3. 2 * ((amount - Left) * n - amount * k) <= n * TradeUnit
    BY <1>6, <2>2
  <2>4. CASE part' = twap
    BY <1>10, <2>1, <2>3, <2>4
  <2>5. CASE part' = 0
    <3> DEFINE s == (amount - Left) * n
               ak == amount * k
               nU == n * TradeUnit
    <3>1. s \in Int /\ ak \in Int /\ nU \in Int /\ amount * (k + 1) = ak + amount
          /\ (amount - Left + 0) * n = s
      BY <1>5, <1>6, <1>7
    <3>2. 2 * (s - ak) <= nU
      BY <2>3
    <3> HIDE DEF s, ak, nU, n, k
    <3>3. 2 * (s - (ak + amount)) <= nU
      BY <1>6, <3>1, <3>2
    <3>4. 2 * ((amount - Left + 0) * n - amount * (k + 1)) <= n * TradeUnit
      BY <3>1, <3>3 DEF nU
    <3> QED BY <2>1, <2>5, <3>4
  <2> QED BY <1>8, <2>4, <2>5
<1>18. Finishing'
  <2> SUFFICES ASSUME smooth', splitter = "sbb" => parent.last = Coarse * Fine - 1, cstep = B
               PROVE  part' >= Left - OddLot /\ ~(0 > FineLast')
    BY <1>1, <1>3, <1>6 DEF Finishing, A, B
  <2>1. tradable /\ mood = "mid"
    BY <1>8, <1>9
  <2>2. OddLot \in Nat /\ (Dealt % TradeUnit = 0 => Left % TradeUnit = amount % TradeUnit)
    BY <1>2, <1>5, LeftIs DEF amount
  <2>3. ~(0 > FineLast')
    <3>1. FineLast' = FineLast
      BY <1>1 DEF FineLast
    <3>2. FineLast \in Nat
      BY <1>1, <1>2, FineRangeIs
    <3> QED BY <3>1, <3>2
  <2>4. CASE splitter = "twap"
    <3>1. part' = Left
      BY <1>7, <1>8, <1>10, <2>1, <2>4
    <3> QED BY <1>6, <2>2, <2>3, <3>1
  <2>5. CASE splitter = "sbb"
    <3>1. Coarse - cstep = 1
      BY <1>4, <1>5, <2>5
    <3>2. part' = sbb(mood)
      BY <1>8, <2>1, <2>5
    <3>3. CASE sbb(mood) = Left
      BY <1>6, <2>2, <2>3, <3>2, <3>3
    <3>4. CASE parent.side = "buy" /\ Left - sbb(mood) = Left % TradeUnit
      <4>1. ~SellsAll /\ OddLot = amount % TradeUnit
        BY <3>4 DEF SellsAll, OddLot, amount
      <4>2. Left % TradeUnit = OddLot
        BY <1>2, <2>2, <4>1 DEF UnitsDealt
      <4> QED BY <1>6, <1>11, <2>2, <2>3, <3>2, <3>4, <4>2
    <3> QED BY <1>11, <2>1, <3>1, <3>3, <3>4
  <2> QED BY <1>9, <2>4, <2>5
<1> QED BY <1>13, <1>14, <1>15, <1>16, <1>17, <1>18 DEF NestedInv

LEMMA EndCoarseKeeps ==
    ASSUME NestedInv, EndCoarse
    PROVE  NestedInv'
<1>1. /\ level = "fine" /\ (fstep = Fine \/ part = 0)
      /\ level' = "coarse" /\ cstep' = cstep + 1
      /\ UNCHANGED <<splitter, parent, fstep, cleft, fleft, cresult, fresult, part, trend,
                     dates, fills, smooth>>
  BY DEF EndCoarse
<1>2. NestedShape /\ InRange /\ Accounted /\ Finishing /\ UnitsDealt /\ NotAheadInside
  BY DEF NestedInv
<1>3. Dealt' = Dealt /\ Left' = Left /\ (UnitsDealt' <=> UnitsDealt) /\ OddLot' = OddLot
      /\ CoarseFirst' = CoarseFirst /\ CoarseLast' = CoarseLast
  BY <1>1, DealtKept, OrderKept
<1> DEFINE A == CoarseFirst
           B == CoarseLast
           z == cstep * Fine
           amount == parent.amount
<1>4. /\ A \in Nat /\ B \in Nat /\ A <= B /\ B < Coarse
      /\ z \in Nat /\ (cstep + 1) * Fine = z + Fine
  BY <1>2, RangeIs
<1>5. cstep \in Nat /\ Coarse \in Nat /\ Fine \in Nat /\ TradeUnit \in Nat \ {0}
      /\ fstep \in Nat /\ fstep <= Fine
  BY <1>2, NestedSizes DEF NestedShape
<1>6. /\ cstep \in A..B /\ Left = cleft - cresult /\ cresult <= part /\ part <= cleft
      /\ cleft <= amount
  BY <1>1, <1>2 DEF Accounted
<1>7. /\ amount \in Nat /\ Left \in 0..amount /\ Dealt = amount - Left
      /\ cleft \in Nat /\ cresult \in Nat /\ part \in Nat /\ OddLot \in 0..(TradeUnit - 1)
  BY <1>2, LeftIs DEF NestedShape
<1>8. NestedPlace = z + fstep /\ NestedPlace' = z + Fine
  <2>1. NestedPlace = z + fstep /\ NestedPlace' = (cstep + 1) * Fine + 0
    BY <1>1 DEF NestedPlace
  <2> HIDE DEF z
  <2> QED BY <1>4, <1>5, <2>1
<1> HIDE DEF A, B, z, amount
<1>9. NestedShape'
  <2>1. cstep' \in 0..Coarse
    BY <1>1, <1>4, <1>5, <1>6
  <2> QED BY <1>1, <1>2, <1>3, <2>1 DEF NestedShape
<1>10. InRange'
  <2>1. \A b \in FineBars : fills[b] > 0 => b < NestedPlace /\ b \in parent.first..parent.last
    BY <1>2 DEF InRange
  <2>2. \A b \in FineBars : b < NestedPlace => b < NestedPlace'
    BY <1>4, <1>5, <1>8, NestedSizes
  <2>3. \A b \in FineBars : fills'[b] > 0 => b < NestedPlace' /\ b \in parent'.first..parent'.last
    BY <1>1, <2>1, <2>2
  <2> QED BY <1>1, <2>3 DEF InRange
<1>11. Accounted'
  BY <1>1, <1>3, <1>6, <1>7 DEF Accounted
<1>12. UnitsDealt' /\ NotAheadInside'
  BY <1>1, <1>2, <1>3 DEF NotAheadInside
<1>13. NotAhead'
  <2> DEFINE n == B - A + 1
             j == cstep + 1 - A
  <2> SUFFICES ASSUME splitter = "twap", cstep' <= B
               PROVE  2 * (Dealt * n - amount * (cstep' - A)) <= n * TradeUnit
    BY <1>1, <1>3 DEF NotAhead, A, B, amount
  <2>1. cstep < B /\ cstep' - A = j /\ n \in Nat /\ j \in Nat
    BY <1>1, <1>4, <1>5, <1>6
  <2>2. 2 * ((amount - cleft + part) * n - amount * j) <= n * TradeUnit
    BY <1>1, <1>2, <2>1 DEF NotAheadInside, A, B, amount
  <2>3. Dealt <= amount - cleft + part /\ Dealt \in Int /\ amount - cleft + part \in Int
    BY <1>6, <1>7
  <2>4. Dealt * n <= (amount - cleft + part) * n /\ Dealt * n \in Int
        /\ (amount - cleft + part) * n \in Int
    BY <2>1, <2>3, Times
  <2> DEFINE x == Dealt * n
             y == (amount - cleft + part) * n
             aj == amount * j
             nU == n * TradeUnit
  <2>5. aj \in Int /\ nU \in Int
    BY <1>5, <1>7, <2>1
  <2> HIDE DEF n, j
  <2>6. x \in Int /\ y \in Int /\ x <= y /\ 2 * (y - aj) <= nU
    BY <2>2, <2>4
  <2> HIDE DEF x, y, aj, nU
  <2>7. 2 * (x - aj) <= nU
    BY <2>5, <2>6
  <2> QED BY <2>1, <2>7 DEF x, aj, nU
<1>14. Finishing'
  <2> SUFFICES ASSUME smooth, splitter = "sbb" => parent.last = Coarse * Fine - 1,
                      cstep + 1 > B \/ amount = 0
               PROVE  Left = OddLot
    BY <1>1, <1>3 DEF Finishing, B, amount
  <2>1. CASE amount = 0
    <3>1. OddLot = 0
      BY <1>2, <2>1, LeftIs DEF amount
    <3> QED BY <1>7, <2>1, <3>1
  <2>2. CASE cstep + 1 > B
    <3>1. cstep = B
      BY <1>4, <1>5, <1>6, <2>2
    <3>2. part >= cleft - OddLot /\ (fstep > FineLast => Left = OddLot)
      BY <1>1, <1>2, <3>1 DEF Finishing, B
    <3>3. CASE fstep = Fine
      <4>1. FineLast < Fine /\ FineLast \in Nat
        BY <1>2, <1>4, <1>5, <1>6, FineRangeIs DEF A, B
      <4> QED BY <1>5, <3>2, <3>3, <4>1
    <3>4. CASE part = 0
      <4>1. Left <= OddLot /\ Left \in Nat
        BY <1>5, <1>6, <1>7, <3>2, <3>4
      <4>2. CASE SellsAll
        <5>1. OddLot = 0
          BY <4>2 DEF OddLot
        <5> QED BY <4>1, <5>1
      <4>3. CASE ~SellsAll
        <5>1. OddLot = amount % TradeUnit
          BY <4>3 DEF OddLot, amount
        <5>2. Left % TradeUnit = OddLot
          BY <1>2, <4>3, <5>1, LeftIs DEF UnitsDealt, amount
        <5>3. Left \in 0..(TradeUnit - 1)
          BY <1>5, <1>7, <4>1
        <5>4. Left % TradeUnit = Left
          BY <1>5, <5>3, SmallRest
        <5> QED BY <5>2, <5>4
      <4> QED BY <4>2, <4>3
    <3> QED BY <1>1, <3>3, <3>4
  <2> QED BY <2>1, <2>2
<1> QED BY <1>9, <1>10, <1>11, <1>12, <1>13, <1>14 DEF NestedInv

LEMMA SkipFineKeeps ==
    ASSUME NestedInv, SkipFine
    PROVE  NestedInv'
<1>1. /\ level = "fine" /\ level' = "fine" /\ fstep < Fine
      /\ ~(FineFirst <= fstep /\ fstep <= FineLast)
      /\ fstep' = fstep + 1
      /\ UNCHANGED <<splitter, parent, cstep, cleft, fleft, cresult, fresult, part,
                     trend, dates, fills, smooth>>
  BY DEF SkipFine, InFineLoop
<1>2. NestedShape /\ InRange /\ Accounted /\ Finishing /\ UnitsDealt /\ NotAheadInside
  BY DEF NestedInv
<1>3. Dealt' = Dealt /\ Left' = Left /\ (UnitsDealt' <=> UnitsDealt) /\ OddLot' = OddLot
      /\ CoarseFirst' = CoarseFirst /\ CoarseLast' = CoarseLast
  BY <1>1, DealtKept, OrderKept
<1>4. cstep * Fine \in Nat /\ Fine \in Nat /\ fstep \in Nat
  BY <1>2, RangeIs, NestedSizes DEF NestedShape
<1> DEFINE z == cstep * Fine
<1>5. NestedPlace = z + fstep /\ NestedPlace' = z + (fstep + 1) /\ z \in Nat
  BY <1>1, <1>4 DEF NestedPlace
<1> HIDE DEF z
<1>6. NestedShape'
  <2>1. fstep' \in 0..Fine
    BY <1>1, <1>4
  <2> QED BY <1>1, <1>2, <1>3, <2>1 DEF NestedShape
<1>7. InRange'
  <2>1. \A b \in FineBars : fills[b] > 0 => b < NestedPlace /\ b \in parent.first..parent.last
    BY <1>2 DEF InRange
  <2>2. \A b \in FineBars : b < NestedPlace => b < NestedPlace'
    BY <1>4, <1>5, NestedSizes
  <2>3. \A b \in FineBars : fills'[b] > 0 => b < NestedPlace' /\ b \in parent'.first..parent'.last
    BY <1>1, <2>1, <2>2
  <2> QED BY <1>1, <2>3 DEF InRange
<1>8. Accounted'
  BY <1>1, <1>2, <1>3 DEF Accounted
<1>9. UnitsDealt' /\ NotAhead' /\ NotAheadInside'
  BY <1>1, <1>2, <1>3 DEF NotAhead, NotAheadInside
<1>10. Finishing'
  <2>1. FineLast' = FineLast
    BY <1>1 DEF FineLast
  <2>2. cstep \in CoarseFirst..CoarseLast
    BY <1>1, <1>2 DEF Accounted
  <2>3. CoarseFirst \in Nat /\ CoarseLast \in Nat /\ cstep \in Nat
    BY <1>2, RangeIs, NestedSizes DEF NestedShape
  <2>4. FineFirst \in Nat /\ FineLast \in Nat /\ FineFirst <= FineLast
    BY <1>2, <2>2, <2>3, FineRangeIs
  <2>5. fstep + 1 > FineLast => fstep > FineLast
    BY <1>1, <1>4, <2>4
  <2> DEFINE y == Coarse * Fine
  <2> HIDE DEF y
  <2> QED BY <1>1, <1>2, <1>3, <2>1, <2>5 DEF Finishing, y
<1> QED BY <1>6, <1>7, <1>8, <1>9, <1>10 DEF NestedInv

LEMMA ExecuteFineKeeps ==
    ASSUME NestedInv, ExecuteFine
    PROVE  NestedInv'
<1> DEFINE A == CoarseFirst
           B == CoarseLast
           n == FineLast - FineFirst + 1
           k == fstep - FineFirst
           rest == fleft - fresult
           asked == TwapAmount(part, rest, k, n)
           full == InUnits(asked)
           b == cstep * Fine + fstep
           amount == parent.amount
           U == TradeUnit
<1>1. /\ level = "fine" /\ level' = "fine" /\ fstep < Fine
      /\ FineFirst <= fstep /\ fstep <= FineLast
      /\ fleft' = rest /\ fstep' = fstep + 1
      /\ UNCHANGED <<splitter, parent, cstep, cleft, part, trend, dates>>
  BY DEF ExecuteFine, InFineLoop
<1>2. PICK taken \in {a \in 0..full : a = full \/ a % U = 0} :
              /\ fresult' = taken
              /\ cresult' = cresult + taken
              /\ fills' = [fills EXCEPT ![b] = taken]
              /\ smooth' = (smooth /\ taken = full)
  BY DEF ExecuteFine
<1>3. NestedShape /\ InRange /\ Accounted /\ Finishing /\ UnitsDealt /\ NotAheadInside
  BY DEF NestedInv
<1>4. OddLot' = OddLot /\ CoarseFirst' = A /\ CoarseLast' = B /\ (SellsAll' <=> SellsAll)
  BY <1>1, OrderKept
<1>5. /\ cstep \in A..B /\ Left = cleft - cresult /\ cresult <= part /\ part <= cleft
      /\ cleft <= amount /\ fresult <= fleft /\ part - cresult = rest
  BY <1>1, <1>3 DEF Accounted
<1>6. /\ amount \in Nat /\ Left \in 0..amount /\ Dealt = amount - Left /\ Dealt \in 0..amount
      /\ cleft \in Nat /\ cresult \in Nat /\ part \in Nat /\ fleft \in Nat /\ fresult \in Nat
      /\ OddLot \in 0..(U - 1) /\ U \in Nat \ {0}
      /\ Dealt % U = 0 => Left % U = amount % U
  BY <1>3, LeftIs, NestedSizes DEF NestedShape
<1>7. A \in Nat /\ B \in Nat /\ cstep \in Nat /\ cstep * Fine \in Nat /\ fstep \in Nat /\ Fine \in Nat
  BY <1>3, RangeIs, NestedSizes DEF NestedShape
<1>8. /\ FineFirst \in Nat /\ FineLast \in Nat /\ FineFirst <= FineLast
      /\ b \in FineBars /\ b \in parent.first..parent.last
  <2>1. CoarseFirst <= cstep /\ cstep <= CoarseLast
    BY <1>5, <1>7
  <2>2. FineFirst \in Nat /\ FineLast \in Nat /\ FineFirst <= FineLast
    BY <1>3, <2>1, FineRangeIs
  <2>3. fstep \in FineFirst..FineLast
    BY <1>1, <1>7, <2>2
  <2> QED BY <1>3, <2>1, <2>2, <2>3, FineRangeIs
<1>9. n \in Nat \ {0} /\ k \in 0..(n - 1) /\ (fstep = FineLast => k = n - 1)
  BY <1>1, <1>7, <1>8
<1>10. rest \in Nat /\ rest <= part /\ rest <= Left
  BY <1>5, <1>6
<1>11. asked \in 0..rest /\ (k = n - 1 => asked = rest)
  <2> HIDE DEF n, k, rest
  <2> QED BY <1>6, <1>9, <1>10, TwapIs
<1> HIDE DEF asked, n, k, rest, amount, A, B
<1>12. asked \in 0..Left
  BY <1>6, <1>10, <1>11
<1>13. /\ full \in 0..asked
       /\ SellsAll /\ asked = Left => full = asked
       /\ ~(SellsAll /\ asked = Left) => full % U = 0 /\ asked - full = asked % U
  <2>1. parent \in OrderSet
    BY <1>3 DEF NestedShape
  <2> QED BY <1>6, <1>12, <2>1, InUnitsIs DEF amount
<1> HIDE DEF full
<1>14. taken \in Nat /\ taken <= full /\ taken <= asked /\ taken <= rest /\ taken <= Left
       /\ (taken = full \/ taken % U = 0)
  BY <1>2, <1>6, <1>10, <1>11, <1>13
<1>15. NestedPlace = b /\ NestedPlace' = b + 1 /\ b \in Nat
  <2> DEFINE z == cstep * Fine
  <2>1. NestedPlace = z + fstep /\ NestedPlace' = z + (fstep + 1) /\ z \in Nat /\ b = z + fstep
    BY <1>1, <1>7 DEF NestedPlace
  <2> HIDE DEF z
  <2>2. b \in Nat
    BY <1>7, <2>1
  <2> QED BY <1>7, <2>1, <2>2
<1> HIDE DEF b
<1>16. \A x \in FineBars : fills[x] > 0 => x < b /\ x \in parent.first..parent.last
  BY <1>3, <1>15 DEF InRange
<1>17. fills \in [FineBars -> Nat] /\ fills[b] = 0
  <2>1. fills \in [FineBars -> Nat]
    BY <1>3 DEF NestedShape
  <2>2. fills[b] \in Nat
    BY <1>8, <2>1
  <2> QED BY <1>8, <1>15, <1>16, <2>1, <2>2
<1>18. fills' \in [FineBars -> Nat] /\ Dealt' = Dealt + taken
  <2>1. fills' \in [FineBars -> Nat] /\ SumOfBars(fills') = SumOfBars(fills) + taken
    BY <1>2, <1>8, <1>14, <1>17, OneMoreBar
  <2>2. Dealt' = SumOfBars(fills')
    BY DEF Dealt, SumOfBars, FoldFunction, FoldFunctionOnSet, MapThenFoldSet
  <2> QED BY <2>1, <2>2, DealtIs
<1>19. Left' = Left - taken /\ Dealt' \in 0..amount
  <2>1. Left' = amount - Dealt'
    BY <1>1 DEF Left, amount
  <2> QED BY <1>6, <1>14, <1>18, <2>1
<1>20. NestedShape'
  <2>1. fstep' \in 0..Fine
    BY <1>1, <1>7
  <2>2. fleft' \in Nat /\ cresult' \in Nat /\ fresult' \in Nat
    BY <1>1, <1>2, <1>6, <1>10, <1>14
  <2>3. smooth' \in BOOLEAN
    BY <1>2, <1>3 DEF NestedShape
  <2> QED BY <1>1, <1>3, <1>18, <1>19, <2>1, <2>2, <2>3 DEF NestedShape, amount
<1>21. InRange'
  <2> SUFFICES ASSUME NEW x \in FineBars, fills'[x] > 0
               PROVE  x < b + 1 /\ x \in parent.first..parent.last
    BY <1>1, <1>15 DEF InRange
  <2>1. x \in Nat
    BY NestedSizes
  <2>2. CASE x = b
    BY <1>8, <1>15, <2>2
  <2>3. CASE x # b
    <3>1. fills'[x] = fills[x]
      BY <1>2, <1>17, <2>3
    <3> QED BY <1>15, <1>16, <2>1, <3>1
  <2> QED BY <2>2, <2>3
<1>22. Accounted'
  <2>1. Left' = cleft - cresult' /\ cresult' <= part /\ fresult' <= fleft'
        /\ part - cresult' = fleft' - fresult'
    BY <1>1, <1>2, <1>5, <1>6, <1>10, <1>14, <1>19
  <2> QED BY <1>1, <1>4, <1>5, <2>1 DEF Accounted, A, B, amount
<1>23. UnitsDealt'
  <2>1. CASE SellsAll /\ Left = 0
    <3>1. Left' = 0
      BY <1>6, <1>14, <1>19, <2>1
    <3> QED BY <1>4, <2>1, <3>1 DEF UnitsDealt
  <2>2. CASE SellsAll /\ asked = Left /\ taken = full
    <3>1. Left' = 0
      BY <1>6, <1>13, <1>14, <1>19, <2>2
    <3> QED BY <1>4, <2>2, <3>1 DEF UnitsDealt
  <2>3. CASE ~(SellsAll /\ Left = 0) /\ ~(SellsAll /\ asked = Left /\ taken = full)
    <3>1. Dealt % U = 0
      BY <1>3, <2>3 DEF UnitsDealt
    <3>2. taken % U = 0
      BY <1>13, <1>14, <2>3
    <3>3. Dealt \in Nat
      BY <1>6
    <3>4. (Dealt + taken) % U = Dealt % U
      BY <1>6, <1>14, <3>2, <3>3, WholeUnits
    <3> QED BY <1>18, <3>1, <3>4 DEF UnitsDealt
  <2> QED BY <2>1, <2>2, <2>3
<1>24. NotAhead' /\ NotAheadInside'
  BY <1>1, <1>3, <1>4 DEF NotAhead, NotAheadInside, A, B
<1>25. Finishing'
  <2>1. FineLast' = FineLast
    BY <1>1 DEF FineLast
  <2> DEFINE y == Coarse * Fine
  <2> HIDE DEF y
  <2> SUFFICES ASSUME smooth', splitter = "sbb" => parent.last = y - 1, cstep = B
               PROVE  part >= cleft - OddLot /\ (fstep + 1 > FineLast => Left' = OddLot)
    BY <1>1, <1>4, <2>1 DEF Finishing, y, B
  <2>2. smooth /\ taken = full
    BY <1>2, <1>3 DEF NestedShape
  <2>3. part >= cleft - OddLot
    BY <1>1, <1>3, <2>2 DEF Finishing, y, B
  <2>4. ASSUME fstep + 1 > FineLast
        PROVE  Left' = OddLot
    <3>1. asked = rest
      BY <1>1, <1>7, <1>8, <1>9, <1>11, <2>4
    <3>2. rest >= Left - OddLot
      BY <1>5, <1>6, <1>10, <2>3
    <3>3. CASE SellsAll
      <4>1. OddLot = 0
        BY <3>3 DEF OddLot
      <4>2. asked = Left
        BY <1>6, <1>10, <3>1, <3>2, <4>1
      <4> QED BY <1>6, <1>13, <1>19, <2>2, <3>3, <4>1, <4>2
    <3>4. CASE ~SellsAll
      <4>1. OddLot = amount % U
        BY <3>4 DEF OddLot, amount
      <4>2. Left % U = OddLot
        BY <1>3, <1>6, <3>4, <4>1 DEF UnitsDealt
      <4> DEFINE q == Left \div U
      <4>3. Left \in Nat
        BY <1>6
      <4>4. q \in Int /\ Left = U * q + OddLot
        BY <1>6, <4>2, <4>3, NestedDivision
      <4> HIDE DEF q
      <4> DEFINE s == rest - (Left - OddLot)
      <4>5. s \in 0..(U - 1) /\ rest = U * q + s
        <5> DEFINE w == U * q
        <5>1. w \in Int /\ Left = w + OddLot
          BY <1>6, <4>4
        <5> HIDE DEF w
        <5>2. s \in 0..(U - 1) /\ rest = w + s
          BY <1>6, <1>10, <3>2, <4>3, <5>1
        <5> QED BY <5>2 DEF w
      <4> HIDE DEF s
      <4>6. rest % U = s
        BY <1>6, <4>4, <4>5, ModIs
      <4>7. taken = rest - s
        BY <1>6, <1>10, <1>13, <1>14, <2>2, <3>1, <3>4, <4>5, <4>6
      <4> QED BY <1>6, <1>10, <1>19, <4>3, <4>7 DEF s
    <3> QED BY <3>3, <3>4
  <2> QED BY <2>3, <2>4
<1> QED BY <1>20, <1>21, <1>22, <1>23, <1>24, <1>25 DEF NestedInv

LEMMA NestedIsInductive ==
    ASSUME NestedInv, [NestedNext]_nestedVars
    PROVE  NestedInv'
<1>1. CASE UNCHANGED nestedVars
  <2>1. /\ UNCHANGED <<splitter, parent, level, cstep, fstep, cleft, fleft, cresult, fresult>>
        /\ UNCHANGED <<part, trend, dates, fills, smooth>>
    BY <1>1 DEF nestedVars
  <2>2. Dealt' = Dealt /\ Left' = Left /\ (UnitsDealt' <=> UnitsDealt) /\ OddLot' = OddLot
        /\ CoarseFirst' = CoarseFirst /\ CoarseLast' = CoarseLast
    BY <2>1, DealtKept, OrderKept
  <2>3. NestedPlace' = NestedPlace /\ FineLast' = FineLast
    BY <2>1 DEF NestedPlace, FineLast
  <2>4. NestedShape'
    BY <2>1, <2>2 DEF NestedInv, NestedShape
  <2>5. InRange' /\ Accounted'
    BY <2>1, <2>2, <2>3 DEF NestedInv, InRange, Accounted
  <2>6. NotAhead' /\ NotAheadInside' /\ Finishing' /\ UnitsDealt'
    BY <2>1, <2>2, <2>3 DEF NestedInv, NotAhead, NotAheadInside, Finishing
  <2> QED BY <2>4, <2>5, <2>6 DEF NestedInv
<1>2. CASE NestedNext
  BY <1>2, StartDayKeeps, EndDayKeeps, SkipCoarseKeeps, DecideCoarseKeeps, EndCoarseKeeps,
     SkipFineKeeps, ExecuteFineKeeps DEF NestedNext
<1> QED BY <1>1, <1>2

\* SplitTrue: an order that is split twice is never exceeded at any level and dealt in its
\* range only; TWAP is at most half a unit ahead of its schedule; and a day that nothing
\* hinders leaves an odd lot at most.
THEOREM OrdersAreSplit == NestedSpec => []SplitTrue
<1>1. NestedInv => SplitTrue
  <2> SUFFICES ASSUME NestedInv PROVE SplitTrue
    OBVIOUS
  <2>1. NestedShape /\ InRange /\ Accounted /\ NotAhead /\ Finishing
    BY DEF NestedInv
  <2>2. WithinParent
    <3>1. Dealt <= parent.amount
      BY <2>1, LeftIs
    <3>2. \A b \in FineBars : fills[b] > 0 => b \in parent.first..parent.last
      BY <2>1 DEF InRange
    <3> QED BY <2>1, <3>1, <3>2 DEF WithinParent, Accounted
  <2>3. AllDealt
    <3> SUFFICES ASSUME level = "day", smooth,
                        splitter = "sbb" => parent.last = Coarse * Fine - 1
                 PROVE  Left = OddLot
      BY DEF AllDealt, Left, OddLot, SellsAll
    <3>1. cstep > CoarseLast \/ parent.amount = 0
      <4>1. cstep = Coarse \/ parent.amount = 0
        BY <2>1 DEF InRange
      <4>2. CoarseLast \in Nat /\ CoarseLast < Coarse
        BY <2>1, RangeIs
      <4> QED BY <4>1, <4>2, NestedSizes
    <3> DEFINE y == Coarse * Fine
    <3> HIDE DEF y
    <3> QED BY <2>1, <3>1 DEF Finishing, y
  <2> QED BY <2>1, <2>2, <2>3 DEF SplitTrue
<1> QED BY <1>1, NestedInits, NestedIsInductive, PTL DEF NestedSpec

-----------------------------------------------------------------------------
(* TopkBacktest: orders that are paid for, holdings that stay bounded.      *)

LEMMA BackParameters ==
    /\ IsFiniteSet(Equity)
    /\ TopK \in Nat \ {0} /\ NDrop \in Nat \ {0} /\ CostDen \in Nat \ {0} /\ RiskDen \in Nat \ {0}
    /\ Lot \in Nat \ {0, 1}
    /\ HoldThresh \in Nat /\ RiskNum \in Nat /\ MinCost \in Nat /\ VolumeCap \in Nat
    /\ InitCash \in Nat /\ MaxBars \in Nat
    /\ Prices \subseteq Nat \ {0} /\ IsFiniteSet(Prices) /\ Prices # {}
BY BacktestAssumption

LEMMA FiniteMax ==
    ASSUME NEW D \in SUBSET Nat, IsFiniteSet(D), D # {}
    PROVE  Max(D) \in D /\ \A d \in D : d <= Max(D)
<1> DEFINE n == Cardinality(D)
<1>1. n \in Nat /\ n # 0
  BY FS_CardinalityType, FS_EmptySet
<1>2. PICK m \in D : Cardinality(UpTo(D, m)) = n
  <2>1. n \in 1..Cardinality(D) /\ D \in SUBSET Int
    BY <1>1
  <2> QED BY <2>1, PlaceTaken
<1>3. UpTo(D, m) \in SUBSET D
  BY DEF UpTo
<1>4. UpTo(D, m) = D
  BY <1>2, <1>3, FS_Subset
<1>5. \A d \in D : d <= m
  BY <1>4 DEF UpTo
<1> QED BY <1>5, MaxIs

LEMMA BackDivision ==
    ASSUME NEW a \in Int, NEW b \in Nat \ {0}
    PROVE  /\ a \div b \in Int /\ a % b \in 0..(b - 1)
           /\ a = b * (a \div b) + (a % b)
OBVIOUS

\* A multiple keeps the order.
LEMMA BackTimes ==
    ASSUME NEW a \in Int, NEW b \in Int, a <= b, NEW n \in Nat
    PROVE  a * n \in Int /\ b * n \in Int /\ a * n <= b * n
<1>1. (b - a) \in Nat
  OBVIOUS
<1>2. (b - a) * n \in Nat
  BY <1>1
<1>3. (b - a) * n = b * n - a * n
  OBVIOUS
<1>4. a * n \in Int /\ b * n \in Int
  OBVIOUS
<1> QED BY <1>2, <1>3, <1>4

\* Rounding adds one tick at most, and gives whole lots.
LEMMA RoundAmountIs ==
    ASSUME NEW a \in Nat
    PROVE  /\ RoundAmount(a) \in 0..(a + 1)
           /\ \E k \in Nat : RoundAmount(a) = k * Lot
           /\ (\E j \in Nat : a = j * Lot) => RoundAmount(a) = a
<1> DEFINE q == (a + 1) \div Lot
           r == (a + 1) % Lot
<1>1. Lot \in Nat \ {0, 1}
  BY BackParameters
<1>2. a + 1 \in Int
  OBVIOUS
<1>3. q \in Int /\ r \in 0..(Lot - 1) /\ a + 1 = Lot * q + r
  BY <1>1, <1>2, BackDivision
<1>4. q \in Nat
  BY <1>1
<1>5. RoundAmount(a) = q * Lot
  BY DEF RoundAmount
<1> HIDE DEF q, r
<1>6. q * Lot \in Nat /\ q * Lot = Lot * q
  BY <1>1, <1>4
<1>7. RoundAmount(a) \in 0..(a + 1)
  BY <1>1, <1>3, <1>5, <1>6
<1>8. ASSUME NEW j \in Nat, a = j * Lot
      PROVE  RoundAmount(a) = a
  <2>1. j * Lot \in Nat /\ (j + 1) * Lot = j * Lot + Lot /\ (q + 1) * Lot = q * Lot + Lot
    BY <1>1, <1>4
  <2>2. q < j => (q + 1) * Lot <= j * Lot
    BY <1>1, <1>4, BackTimes
  <2>3. j < q => (j + 1) * Lot <= q * Lot
    BY <1>1, <1>4, BackTimes
  <2>4. q = j
    BY <1>1, <1>3, <1>4, <1>6, <1>8, <2>1, <2>2, <2>3
  <2> QED BY <1>5, <1>8, <2>4
<1> QED BY <1>4, <1>5, <1>7, <1>8

\* What a trade costs, and how it grows.
LEMMA CostIs ==
    ASSUME NEW a \in Nat, NEW p \in Prices
    PROVE  /\ a * p \in Nat /\ Val(a, p) = (a * p) * CostDen /\ Val(a, p) \in Nat
           /\ Cost(a, p) = (IF a * p > MinCost THEN a * p ELSE MinCost) /\ Cost(a, p) \in Nat
           /\ MinCost <= Cost(a, p) /\ a * p <= Cost(a, p) /\ a * p <= Val(a, p)
<1>1. p \in Nat \ {0} /\ CostDen \in Nat \ {0} /\ MinCost \in Nat
  BY BackParameters
<1>2. a * p \in Nat
  BY <1>1
<1> DEFINE x == a * p
<1>3. Val(a, p) = x * CostDen /\ Cost(a, p) = IF x > MinCost THEN x ELSE MinCost
  BY DEF Val, Cost, Greater
<1> HIDE DEF x
<1>4. x \in Nat
  BY <1>2 DEF x
<1>5. x * CostDen \in Nat
  BY <1>1, <1>4
<1>6. 1 * x <= CostDen * x /\ CostDen * x = x * CostDen
  BY <1>1, <1>4, BackTimes
<1> QED BY <1>1, <1>3, <1>4, <1>5, <1>6 DEF x

LEMMA TickIs ==
    ASSUME NEW p \in Prices
    PROVE  TickCost \in Nat /\ p * CostDen \in Nat /\ p * CostDen + p <= TickCost
<1> DEFINE M == Max(Prices)
<1>1. Prices \in SUBSET Nat /\ CostDen \in Nat /\ IsFiniteSet(Prices) /\ Prices # {}
  BY BackParameters
<1>2. M \in Prices /\ \A d \in Prices : d <= M
  BY <1>1, FiniteMax
<1> HIDE DEF M
<1>3. M \in Nat /\ p \in Nat /\ p <= M
  BY <1>1, <1>2
<1>4. p * (CostDen + 1) <= M * (CostDen + 1)
  BY <1>1, <1>3, BackTimes
<1>5. p * (CostDen + 1) = p * CostDen + p /\ p * CostDen \in Nat /\ M * (CostDen + 1) \in Nat
  BY <1>1, <1>3
<1> QED BY <1>4, <1>5 DEF TickCost, M

\* A tick more costs no more than TickCost.
LEMMA OneTick ==
    ASSUME NEW m \in Nat, NEW a \in 0..(m + 1), NEW p \in Prices
    PROVE  Val(a, p) + Cost(a, p) <= Val(m, p) + Cost(m, p) + TickCost
<1>1. p \in Nat /\ CostDen \in Nat /\ a \in Nat
  BY BackParameters
<1>2. a * p <= (m + 1) * p /\ (m + 1) * p = m * p + p
  BY <1>1, BackTimes
<1> DEFINE x == a * p
           y == m * p
<1>3. x \in Nat /\ y \in Nat /\ x <= y + p
  BY <1>1, <1>2
<1>4. /\ Val(a, p) = x * CostDen /\ Cost(a, p) = (IF x > MinCost THEN x ELSE MinCost)
      /\ Val(m, p) = y * CostDen /\ Cost(m, p) = (IF y > MinCost THEN y ELSE MinCost)
  BY <1>1, CostIs
<1> HIDE DEF x, y
<1>5. x * CostDen <= (y + p) * CostDen /\ (y + p) * CostDen = y * CostDen + p * CostDen
  BY <1>1, <1>3, BackTimes
<1>6. p * CostDen + p <= TickCost /\ TickCost \in Nat /\ p * CostDen \in Nat
  BY TickIs
<1>7. x * CostDen \in Nat /\ y * CostDen \in Nat /\ MinCost \in Nat
  BY <1>1, <1>3, BackParameters
<1> QED BY <1>1, <1>3, <1>4, <1>5, <1>6, <1>7

\* Less costs less.
LEMMA LessCostsLess ==
    ASSUME NEW m \in Nat, NEW a \in 0..m, NEW p \in Prices
    PROVE  Val(a, p) + Cost(a, p) <= Val(m, p) + Cost(m, p)
<1>1. p \in Nat /\ CostDen \in Nat /\ a \in Nat
  BY BackParameters
<1>2. a * p <= m * p
  BY <1>1, BackTimes
<1> DEFINE x == a * p
           y == m * p
<1>3. x \in Nat /\ y \in Nat /\ x <= y
  BY <1>1, <1>2
<1>4. /\ Val(a, p) = x * CostDen /\ Cost(a, p) = (IF x > MinCost THEN x ELSE MinCost)
      /\ Val(m, p) = y * CostDen /\ Cost(m, p) = (IF y > MinCost THEN y ELSE MinCost)
  BY <1>1, CostIs
<1> HIDE DEF x, y
<1>5. x * CostDen <= y * CostDen
  BY <1>1, <1>3, BackTimes
<1>6. x * CostDen \in Nat /\ y * CostDen \in Nat /\ MinCost \in Nat
  BY <1>1, <1>3, BackParameters
<1> QED BY <1>1, <1>3, <1>4, <1>5, <1>6

\* The cash pays for the limit it gives.
LEMMA LimitPays ==
    ASSUME NEW cash1 \in Nat, MinCost <= cash1, NEW p \in Prices
    PROVE  CashLimit(p, cash1) \in Nat
           /\ Val(CashLimit(p, cash1), p) + Cost(CashLimit(p, cash1), p) <= cash1
<1> DEFINE m == CashLimit(p, cash1)
           C == CostDen
           y == m * p
<1>1. p \in Nat \ {0} /\ C \in Nat \ {0} /\ MinCost \in Nat
  BY BackParameters
<1>2. MinCost * C \in Nat
  BY <1>1
<1>3. CASE cash1 >= MinCost * C + MinCost
  <2> DEFINE d == (C + 1) * p
  <2>1. m = cash1 \div d
    BY <1>1, <1>3 DEF CashLimit
  <2>2. d \in Nat \ {0}
    BY <1>1
  <2> HIDE DEF d
  <2>3. m \in Nat /\ cash1 = d * m + (cash1 % d) /\ cash1 % d \in Nat
    <3>1. cash1 \in Int /\ cash1 \div d \in Nat
      BY <2>2
    <3>2. cash1 % d \in 0..(d - 1) /\ cash1 = d * (cash1 \div d) + (cash1 % d)
      BY <2>2, <3>1, BackDivision
    <3> QED BY <2>1, <2>2, <3>1, <3>2
  <2> HIDE DEF m
  <2>4. d * m = y * C + y /\ y \in Nat /\ y * C \in Nat
    BY <1>1, <2>3 DEF d
  <2>5. y * C + y <= cash1
    <3> DEFINE w == d * m
    <3>1. w \in Nat /\ cash1 = w + (cash1 % d)
      BY <2>2, <2>3
    <3> HIDE DEF w
    <3>2. w <= cash1
      BY <2>3, <3>1
    <3> QED BY <2>4, <3>2 DEF w
  <2>6. Val(m, p) = y * C /\ Cost(m, p) = IF y > MinCost THEN y ELSE MinCost
    BY <2>3, CostIs
  <2> HIDE DEF y
  <2>7. y <= MinCost => y * C <= MinCost * C
    BY <1>1, <2>4, BackTimes
  <2>8. Val(m, p) + Cost(m, p) <= cash1
    BY <1>1, <1>2, <1>3, <2>4, <2>5, <2>6, <2>7
  <2> QED BY <2>3, <2>8 DEF m
<1>4. CASE cash1 < MinCost * C + MinCost
  <2> DEFINE d == p * C
             e == cash1 - MinCost
  <2>1. m = e \div d
    BY <1>1, <1>2, <1>4 DEF CashLimit
  <2>2. d \in Nat \ {0} /\ e \in Nat
    BY <1>1
  <2> HIDE DEF d, e
  <2>3. m \in Nat /\ e = d * m + (e % d) /\ e % d \in Nat
    <3>1. e \in Int /\ e \div d \in Nat
      BY <2>2
    <3>2. e % d \in 0..(d - 1) /\ e = d * (e \div d) + (e % d)
      BY <2>2, <3>1, BackDivision
    <3> QED BY <2>1, <2>2, <3>1, <3>2
  <2> HIDE DEF m
  <2>4. d * m = y * C /\ y \in Nat /\ y * C \in Nat
    BY <1>1, <2>3 DEF d
  <2>5. y * C <= e
    <3> DEFINE w == d * m
    <3>1. w \in Nat /\ e = w + (e % d)
      BY <2>2, <2>3
    <3> HIDE DEF w
    <3>2. w <= e
      BY <2>2, <2>3, <3>1
    <3> QED BY <2>4, <3>2 DEF w
  <2>6. Val(m, p) = y * C /\ Cost(m, p) = IF y > MinCost THEN y ELSE MinCost
    BY <2>3, CostIs
  <2> HIDE DEF y
  <2>7. y > MinCost => MinCost * C <= y * C
    BY <1>1, <2>4, BackTimes
  <2>8. e < MinCost * C /\ e = cash1 - MinCost
    BY <1>1, <1>2, <1>4 DEF e
  <2>9. Cost(m, p) = MinCost
    BY <1>1, <1>2, <2>2, <2>4, <2>5, <2>6, <2>7, <2>8
  <2>10. Val(m, p) + Cost(m, p) <= cash1
    BY <1>1, <2>2, <2>4, <2>5, <2>6, <2>8, <2>9
  <2> QED BY <2>3, <2>10 DEF m
<1> QED BY <1>1, <1>2, <1>3, <1>4

LEMMA ClipIs ==
    ASSUME NEW a \in Nat, NEW sofar \in Nat
    PROVE  ClipVolume(a, sofar) \in 0..a
<1>1. VolumeCap \in Nat
  BY BackParameters
<1> QED BY <1>1 DEF ClipVolume, Lesser, Greater

\* A purchase overdraws the cash by no more than a tick.
LEMMA BuyIs ==
    ASSUME NEW want \in Nat, NEW sofar \in Nat, NEW cash1 \in Int, NEW p \in Prices
    PROVE  LET a == BuyAmount(want, sofar, cash1, p)
           IN  /\ a \in Nat /\ (\E k \in Nat : a = k * Lot)
               /\ a = 0 \/ cash1 - Val(a, p) - Cost(a, p) >= -TickCost
<1> DEFINE c == ClipVolume(want, sofar)
           a == BuyAmount(want, sofar, cash1, p)
           limit == CashLimit(p, cash1)
           m == Lesser(limit, c)
<1>1. c \in Nat
  BY ClipIs
<1>2. TickCost \in Nat /\ MinCost \in Nat /\ Lot \in Nat
  BY TickIs, BackParameters
<1>3. a = IF cash1 < Cost(c, p) THEN 0
          ELSE IF cash1 < Val(c, p) + Cost(c, p) THEN RoundAmount(m) ELSE RoundAmount(c)
  BY DEF BuyAmount
<1> HIDE DEF c, a
<1>4. Val(c, p) \in Nat /\ Cost(c, p) \in Nat /\ MinCost <= Cost(c, p)
  BY <1>1, CostIs
<1>5. CASE cash1 < Cost(c, p)
  <2>1. a = 0 /\ 0 = 0 * Lot
    BY <1>2, <1>3, <1>5
  <2> QED BY <2>1 DEF a
<1>6. ASSUME NEW x \in Nat, a = RoundAmount(x), Val(x, p) + Cost(x, p) <= cash1
      PROVE  /\ a \in Nat /\ (\E k \in Nat : a = k * Lot)
             /\ cash1 - Val(a, p) - Cost(a, p) >= -TickCost
  <2>1. a \in 0..(x + 1) /\ (\E k \in Nat : a = k * Lot)
    BY <1>6, RoundAmountIs
  <2>2. Val(a, p) + Cost(a, p) <= Val(x, p) + Cost(x, p) + TickCost
    BY <2>1, OneTick
  <2>3. a \in Nat
    BY <2>1
  <2>4. Val(a, p) \in Nat /\ Cost(a, p) \in Nat /\ Val(x, p) \in Nat /\ Cost(x, p) \in Nat
    BY <2>3, CostIs
  <2> DEFINE va == Val(a, p)
             ca == Cost(a, p)
             vx == Val(x, p)
             cx == Cost(x, p)
  <2>5. va + ca <= vx + cx + TickCost /\ vx + cx <= cash1
    BY <1>6, <2>2
  <2>6. va \in Nat /\ ca \in Nat /\ vx \in Nat /\ cx \in Nat
    BY <2>4
  <2> HIDE DEF va, ca, vx, cx
  <2>7. cash1 - va - ca >= -TickCost
    BY <1>2, <2>5, <2>6
  <2> QED BY <2>1, <2>3, <2>7 DEF va, ca
<1>7. CASE ~(cash1 < Cost(c, p)) /\ cash1 < Val(c, p) + Cost(c, p)
  <2>1. cash1 \in Nat /\ MinCost <= cash1
    BY <1>2, <1>4, <1>7
  <2>2. limit \in Nat /\ Val(limit, p) + Cost(limit, p) <= cash1
    BY <2>1, LimitPays
  <2> HIDE DEF limit
  <2>3. m \in 0..limit
    BY <1>1, <2>2 DEF Lesser
  <2>4. Val(m, p) + Cost(m, p) <= Val(limit, p) + Cost(limit, p)
    BY <2>2, <2>3, LessCostsLess
  <2>5. m \in Nat
    BY <2>2, <2>3
  <2>6. Val(m, p) \in Nat /\ Cost(m, p) \in Nat /\ Val(limit, p) \in Nat /\ Cost(limit, p) \in Nat
    BY <2>2, <2>5, CostIs
  <2> HIDE DEF m
  <2>7. Val(m, p) + Cost(m, p) <= cash1
    BY <2>2, <2>4, <2>6
  <2>8. a = RoundAmount(m)
    BY <1>3, <1>7
  <2> QED BY <1>6, <2>5, <2>7, <2>8 DEF a
<1>8. CASE ~(cash1 < Cost(c, p)) /\ ~(cash1 < Val(c, p) + Cost(c, p))
  <2>1. a = RoundAmount(c)
    BY <1>3, <1>8
  <2>2. Val(c, p) + Cost(c, p) <= cash1
    BY <1>4, <1>8
  <2> QED BY <1>1, <1>6, <2>1, <2>2 DEF a
<1> QED BY <1>5, <1>7, <1>8

\* A sale leaves whole lots, and is paid for.
LEMMA SellIs ==
    ASSUME NEW want \in Nat, NEW sofar \in Nat, NEW have \in Nat, NEW k \in Nat, have = k * Lot,
           NEW cash1 \in Int, NEW p \in Prices
    PROVE  LET a == SellAmount(want, sofar, have, cash1, p)
           IN  /\ a \in 0..have /\ (\E j \in Nat : have - a = j * Lot)
               /\ a = 0 \/ cash1 + Val(a, p) - Cost(a, p) >= 0
               /\ a = 0 \/ (SalesPay => Val(a, p) - Cost(a, p) >= 0)
<1> DEFINE c == ClipVolume(want, sofar)
           m == Lesser(have, c)
           b == IF c = have THEN have ELSE RoundAmount(m)
           a == SellAmount(want, sofar, have, cash1, p)
<1>1. c \in Nat
  <2>1. ClipVolume(want, sofar) \in 0..want
    BY ClipIs
  <2> QED BY <2>1
<1>2. Lot \in Nat \ {0, 1} /\ p \in Nat \ {0} /\ CostDen \in Nat \ {0} /\ MinCost \in Nat
  BY BackParameters
<1>3. a = IF cash1 + Val(b, p) < Cost(b, p) THEN 0 ELSE b
  BY DEF SellAmount
<1> HIDE DEF c, a
<1>4. m \in Nat /\ (c >= have => m = have) /\ (c < have => m + 1 <= have)
  BY <1>1 DEF Lesser
<1> HIDE DEF m
<1>5. b \in 0..have /\ \E i \in Nat : b = i * Lot
  <2>1. CASE c = have
    BY <2>1
  <2>2. CASE c # have /\ c >= have
    <3>1. RoundAmount(m) = have
      BY <1>4, <2>2, RoundAmountIs
    <3> QED BY <2>2, <3>1
  <2>3. CASE c < have
    <3>1. RoundAmount(m) \in 0..(m + 1) /\ \E i \in Nat : RoundAmount(m) = i * Lot
      BY <1>4, RoundAmountIs
    <3>2. b = RoundAmount(m)
      BY <1>1, <2>3
    <3> QED BY <1>1, <1>4, <2>3, <3>1, <3>2
  <2> QED BY <1>1, <2>1, <2>2, <2>3
<1>6. PICK i \in Nat : b = i * Lot
  BY <1>5
<1> HIDE DEF b
<1>7. b \in Nat
  BY <1>5
<1>8. Val(b, p) \in Nat /\ Cost(b, p) \in Nat /\ b * p \in Nat /\ Val(b, p) = (b * p) * CostDen
      /\ b * p <= Val(b, p) /\ Cost(b, p) = (IF b * p > MinCost THEN b * p ELSE MinCost)
  BY <1>7, CostIs
<1>9. a = 0 \/ (a = b /\ cash1 + Val(b, p) - Cost(b, p) >= 0)
  BY <1>3, <1>8
<1>10. a \in 0..have
  BY <1>5, <1>9
<1>11. \E j \in Nat : have - a = j * Lot
  <2>1. CASE a = 0
    BY <2>1
  <2>2. CASE a = b
    <3>1. (k - i) * Lot = k * Lot - i * Lot /\ k * Lot \in Nat /\ i * Lot \in Nat
      BY <1>2
    <3>2. k < i => (k + 1) * Lot <= i * Lot
      BY <1>2, BackTimes
    <3>3. (k + 1) * Lot = k * Lot + Lot
      BY <1>2
    <3>4. i * Lot <= k * Lot
      BY <1>5, <1>6
    <3>5. k - i \in Nat
      BY <1>2, <3>1, <3>2, <3>3, <3>4
    <3>6. have - a = (k - i) * Lot
      BY <1>6, <2>2, <3>1
    <3> QED BY <3>5, <3>6
  <2> QED BY <1>9, <2>1, <2>2
<1>12. ASSUME b # 0, SalesPay
       PROVE  Val(b, p) - Cost(b, p) >= 0
  <2>1. i # 0
    BY <1>2, <1>6, <1>12
  <2>2. 1 * Lot <= i * Lot
    BY <1>2, <2>1, BackTimes
  <2>3. Lot <= b
    BY <1>2, <1>6, <2>2
  <2>4. Lot * p <= b * p
    BY <1>2, <1>7, <2>3, BackTimes
  <2>5. (Lot * p) * CostDen <= (b * p) * CostDen
    BY <1>2, <1>7, <2>4, BackTimes
  <2>6. MinCost <= Lot * p * CostDen
    BY <1>12 DEF SalesPay
  <2> DEFINE w == (Lot * p) * CostDen
  <2>7. w \in Int /\ MinCost <= w
    BY <1>2, <2>6
  <2> HIDE DEF w
  <2>8. w <= Val(b, p)
    BY <1>8, <2>5 DEF w
  <2>9. MinCost <= Val(b, p)
    BY <1>2, <1>8, <2>7, <2>8
  <2> DEFINE x == b * p
             y == Val(b, p)
             z == Cost(b, p)
  <2>10. x \in Nat /\ y \in Nat /\ x <= y /\ z = (IF x > MinCost THEN x ELSE MinCost) /\ MinCost <= y
    BY <1>8, <2>9
  <2> HIDE DEF x, y, z
  <2>11. y - z >= 0
    BY <1>2, <2>10
  <2> QED BY <2>11 DEF y, z
<1>13. a = 0 \/ cash1 + Val(a, p) - Cost(a, p) >= 0
  BY <1>9
<1>14. a = 0 \/ (SalesPay => Val(a, p) - Cost(a, p) >= 0)
  BY <1>9, <1>12
<1> QED BY <1>10, <1>11, <1>13, <1>14 DEF a

-----------------------------------------------------------------------------
(* Lists without repetition, their parts, and how many elements they have. *)

LEMMA FirstNumbers ==
    ASSUME NEW n \in Nat
    PROVE  IsFiniteSet(1..n) /\ Cardinality(1..n) = n
<1>1. 1 \in Int /\ n \in Int
  OBVIOUS
<1>2. IsFiniteSet(1..n) /\ Cardinality(1..n) = IF 1 > n THEN 0 ELSE n - 1 + 1
  BY <1>1, FS_Interval
<1> QED BY <1>2

\* A list has no more elements than places, and an element for each place when none repeats.
LEMMA RangeSize ==
    ASSUME NEW V, NEW q \in Seq(V)
    PROVE  /\ Range(q) \in SUBSET V /\ IsFiniteSet(Range(q))
           /\ Cardinality(Range(q)) \in Nat /\ Cardinality(Range(q)) <= Len(q)
<1>1. Len(q) \in Nat /\ DOMAIN q = 1..Len(q) /\ \A i \in 1..Len(q) : q[i] \in V
  BY LenProperties
<1>2. Range(q) = {q[i] : i \in 1..Len(q)}
  BY <1>1 DEF Range
<1>3. IsFiniteSet(1..Len(q)) /\ Cardinality(1..Len(q)) = Len(q)
  BY <1>1, FirstNumbers
<1> DEFINE n == Len(q)
           f == [i \in 1..n |-> q[i]]
<1>4. f \in Surjection(1..n, Range(q))
  <2>1. f \in [1..n -> Range(q)]
    BY <1>2
  <2>2. \A t \in Range(q) : \E s \in 1..n : f[s] = t
    BY <1>2
  <2> HIDE DEF f
  <2> QED BY <2>1, <2>2 DEF Surjection
<1>5. IsFiniteSet(Range(q)) /\ Cardinality(Range(q)) <= Cardinality(1..n)
  BY <1>3, <1>4, FS_Surjection
<1> QED BY <1>1, <1>2, <1>3, <1>5, FS_CardinalityType

LEMMA SizeWhenDistinct ==
    ASSUME NEW V, NEW q \in Seq(V), IsInjective(q), IsFiniteSet(V)
    PROVE  Len(q) <= Cardinality(Range(q))
<1>1. Len(q) \in Nat /\ DOMAIN q = 1..Len(q) /\ \A i \in 1..Len(q) : q[i] \in V
  BY LenProperties
<1>2. q \in [1..Len(q) -> Range(q)]
  BY LenProperties DEF Range
<1>3. q \in Injection(1..Len(q), Range(q))
  BY <1>2 DEF Injection
<1>4. IsFiniteSet(Range(q))
  BY RangeSize
<1>5. Cardinality(1..Len(q)) <= Cardinality(Range(q))
  BY <1>3, <1>4, FS_Injection
<1>6. Cardinality(1..Len(q)) = Len(q)
  BY <1>1, FirstNumbers
<1> QED BY <1>5, <1>6

\* Only keeps the elements that are in T, and their order.
LEMMA OnlyIs ==
    ASSUME NEW V, NEW q \in Seq(V), NEW T
    PROVE  /\ Only(q, T) \in Seq(V)
           /\ Range(Only(q, T)) = Range(q) \intersect T
           /\ IsInjective(q) => IsInjective(Only(q, T))
<1> DEFINE D == {i \in DOMAIN q : q[i] \in T}
           at == Sorted(D)
           n == Cardinality(D)
<1>1. Len(q) \in Nat /\ DOMAIN q = 1..Len(q) /\ \A i \in 1..Len(q) : q[i] \in V
  BY LenProperties
<1>2. IsFiniteSet(D) /\ D \in SUBSET Int
  <2>1. IsFiniteSet(1..Len(q)) /\ D \in SUBSET (1..Len(q))
    BY <1>1, FirstNumbers
  <2>2. D \in SUBSET Int
    BY <1>1
  <2> HIDE DEF D
  <2> QED BY <2>1, <2>2, FS_Subset
<1>3. /\ at \in [1..n -> D]
      /\ \A i, j \in 1..n : i < j => at[i] < at[j]
      /\ \A d \in D : \E i \in 1..n : at[i] = d
  <2> HIDE DEF D
  <2> QED BY <1>2, SortedIs
<1>4. n \in Nat
  <2> HIDE DEF D
  <2> QED BY <1>2, FS_CardinalityType
<1>5. Only(q, T) = [k \in DOMAIN at |-> q[at[k]]]
  BY DEF Only
<1>6. DOMAIN at = 1..n
  BY <1>3
<1> HIDE DEF at, n
<1>7. Only(q, T) = [k \in 1..n |-> q[at[k]]]
  BY <1>5, <1>6
<1>8. \A k \in 1..n : at[k] \in D /\ at[k] \in DOMAIN q /\ q[at[k]] \in V /\ q[at[k]] \in T
  BY <1>1, <1>3
<1>9. Only(q, T) \in [1..n -> V]
  BY <1>7, <1>8
<1>10. Only(q, T) \in Seq(V)
  BY <1>4, <1>9
<1>11. Range(Only(q, T)) = Range(q) \intersect T
  <2>1. ASSUME NEW x \in Range(q), x \in T
        PROVE  x \in Range(Only(q, T))
    <3>1. PICK d \in DOMAIN q : q[d] = x
      BY DEF Range
    <3>2. d \in D
      BY <2>1, <3>1
    <3>3. PICK i \in 1..n : at[i] = d
      BY <1>3, <3>2
    <3>4. i \in DOMAIN Only(q, T) /\ Only(q, T)[i] = x
      BY <1>7, <3>1, <3>3
    <3> QED BY <3>4 DEF Range
  <2>2. ASSUME NEW x \in Range(Only(q, T))
        PROVE  x \in Range(q) /\ x \in T
    <3>1. PICK i \in DOMAIN Only(q, T) : Only(q, T)[i] = x
      BY DEF Range
    <3>2. i \in 1..n /\ x = q[at[i]]
      BY <1>7, <3>1
    <3> QED BY <1>8, <3>2 DEF Range
  <2> QED BY <2>1, <2>2
<1>12. ASSUME IsInjective(q)
       PROVE  IsInjective(Only(q, T))
  <2> SUFFICES ASSUME NEW i \in 1..n, NEW j \in 1..n, q[at[i]] = q[at[j]]
               PROVE  i = j
    BY <1>7 DEF IsInjective
  <2>1. at[i] = at[j]
    BY <1>8, <1>12 DEF IsInjective
  <2>2. at[i] \in Int
    BY <1>2, <1>8
  <2>3. i < j => at[i] < at[j]
    BY <1>3
  <2>4. j < i => at[j] < at[i]
    BY <1>3
  <2> QED BY <1>4, <2>1, <2>2, <2>3, <2>4
<1> QED BY <1>10, <1>11, <1>12

\* The first n elements.
LEMMA FirstNIs ==
    ASSUME NEW V, NEW q \in Seq(V), NEW n \in Nat
    PROVE  /\ FirstN(q, n) \in Seq(V) /\ Len(FirstN(q, n)) <= n
           /\ Range(FirstN(q, n)) \in SUBSET Range(q)
<1> DEFINE m == Lesser(n, Len(q))
<1>1. Len(q) \in Nat /\ DOMAIN q = 1..Len(q) /\ \A i \in 1..Len(q) : q[i] \in V
  BY LenProperties
<1>2. m \in Nat /\ m <= n /\ m <= Len(q)
  BY <1>1 DEF Lesser
<1>3. FirstN(q, n) = SubSeq(q, 1, m)
  <2>1. n >= 0
    OBVIOUS
  <2> QED BY <2>1, Zenon DEF FirstN
<1> HIDE DEF m
<1>4. \A i \in 1..m : q[i] \in V
  BY <1>1, <1>2
<1> DEFINE r == SubSeq(q, 1, m)
<1>5. /\ r \in Seq(V) /\ Len(r) = (IF 1 <= m THEN m - 1 + 1 ELSE 0)
      /\ \A i \in 1..(m - 1 + 1) : r[i] = q[1 + i - 1]
  BY <1>2, <1>4, SubSeqProperties
<1> HIDE DEF r
<1>6. Len(r) = m /\ \A i \in 1..m : r[i] = q[i]
  BY <1>2, <1>5
<1>7. DOMAIN r = 1..m
  BY <1>5, <1>6, LenProperties
<1>8. Range(r) \in SUBSET Range(q)
  BY <1>1, <1>2, <1>6, <1>7 DEF Range
<1> QED BY <1>2, <1>3, <1>5, <1>6, <1>8 DEF r

\* All but the last n elements are no more than what the length has above n.
LEMMA LastNIs ==
    ASSUME NEW V, NEW q \in Seq(V), NEW n \in Nat \ {0}, NEW top \in Nat, Len(q) <= n + top
    PROVE  /\ IsFiniteSet(Range(LastN(q, n))) /\ Cardinality(Range(LastN(q, n))) <= n
           /\ IsFiniteSet(Range(q) \ Range(LastN(q, n)))
           /\ Cardinality(Range(q) \ Range(LastN(q, n))) <= top
<1> DEFINE a == Greater(Len(q) - n + 1, 1)
           r == SubSeq(q, a, Len(q))
           h == SubSeq(q, 1, a - 1)
<1>1. Len(q) \in Nat /\ DOMAIN q = 1..Len(q) /\ \A i \in 1..Len(q) : q[i] \in V
  BY LenProperties
<1>2. a \in Nat /\ 1 <= a /\ Len(q) - n + 1 <= a /\ a - 1 <= top /\ (a = 1 \/ a <= Len(q))
  BY <1>1 DEF Greater
<1>3. LastN(q, n) = r
  BY DEF LastN
<1> HIDE DEF a
<1>4. /\ r \in Seq(V) /\ Len(r) = (IF a <= Len(q) THEN Len(q) - a + 1 ELSE 0)
      /\ \A i \in 1..(Len(q) - a + 1) : r[i] = q[a + i - 1]
  <2>1. \A i \in a..Len(q) : q[i] \in V
    BY <1>1, <1>2
  <2> QED BY <1>1, <1>2, <2>1, SubSeqProperties
<1>5. /\ h \in Seq(V) /\ Len(h) = (IF 1 <= a - 1 THEN a - 1 - 1 + 1 ELSE 0)
      /\ \A i \in 1..(a - 1 - 1 + 1) : h[i] = q[1 + i - 1]
  <2>1. \A i \in 1..(a - 1) : q[i] \in V
    BY <1>1, <1>2
  <2>2. a - 1 \in Int
    BY <1>2
  <2> QED BY <2>1, <2>2, SubSeqProperties
<1> HIDE DEF r, h
<1>6. Len(r) <= n
  BY <1>1, <1>2, <1>4
<1>7. Len(h) = a - 1 /\ Len(h) <= top /\ \A i \in 1..(a - 1) : h[i] = q[i]
  BY <1>2, <1>5
<1>8. DOMAIN r = 1..Len(r) /\ DOMAIN h = 1..(a - 1)
  BY <1>4, <1>5, <1>7, LenProperties
<1>9. Range(q) \ Range(r) \in SUBSET Range(h)
  <2> SUFFICES ASSUME NEW x \in Range(q), x \notin Range(r)
               PROVE  x \in Range(h)
    OBVIOUS
  <2>1. PICK i \in 1..Len(q) : x = q[i]
    BY <1>1 DEF Range
  <2>2. CASE i < a
    <3>1. i \in DOMAIN h /\ h[i] = x
      BY <1>1, <1>2, <1>7, <1>8, <2>1, <2>2
    <3> QED BY <3>1 DEF Range
  <2>3. CASE a <= i
    <3> DEFINE j == i - a + 1
    <3>1. j \in 1..(Len(q) - a + 1) /\ a <= Len(q) /\ a + j - 1 = i
      BY <1>1, <1>2, <2>1, <2>3
    <3> HIDE DEF j
    <3>2. j \in DOMAIN r /\ r[j] = x
      BY <1>4, <1>8, <2>1, <3>1
    <3> QED BY <3>2 DEF Range
  <2> QED BY <1>2, <2>1, <2>2, <2>3
<1>10. /\ IsFiniteSet(Range(r)) /\ Cardinality(Range(r)) \in Nat /\ Cardinality(Range(r)) <= Len(r)
  BY <1>4, RangeSize
<1>11. /\ IsFiniteSet(Range(h)) /\ Cardinality(Range(h)) \in Nat /\ Cardinality(Range(h)) <= Len(h)
  BY <1>5, RangeSize
<1>12. /\ IsFiniteSet(Range(q) \ Range(r))
       /\ Cardinality(Range(q) \ Range(r)) <= Cardinality(Range(h))
  BY <1>9, <1>11, FS_Subset
<1>13. Cardinality(Range(q) \ Range(r)) \in Nat
  BY <1>12, FS_CardinalityType
<1>14. Cardinality(Range(r)) <= n
  BY <1>4, <1>6, <1>10, LenProperties
<1>15. Cardinality(Range(q) \ Range(r)) <= top
  BY <1>2, <1>7, <1>11, <1>12, <1>13
<1> QED BY <1>3, <1>10, <1>12, <1>14, <1>15

\* The elements of a set, in a list.
LEMMA SetToSeqIs ==
    ASSUME NEW S, IsFiniteSet(S)
    PROVE  SetToSeq(S) \in Seq(S)
<1> DEFINE n == Cardinality(S)
<1>1. n \in Nat /\ ExistsBijection(1..n, S)
  BY FS_CardinalityType
<1>2. PICK f : f \in Bijection(1..n, S)
  BY <1>1 DEF ExistsBijection
<1>3. f \in [1..n -> S] /\ IsInjective(f)
  BY <1>2 DEF Bijection, Injection
<1>4. SetToSeq(S) \in [1..n -> S]
  BY <1>3 DEF SetToSeq
<1> QED BY <1>1, <1>4

-----------------------------------------------------------------------------
(* The strategy's decision.                                                *)

FoldedBy(g, S, base, G) ==
    \A s \in SUBSET S : g[s] = IF s = {} THEN base ELSE G[<<First(s), g[s \ {First(s)}]>>]

\* A recursion over a finite set that takes the elements one by one has a solution.
LEMMA FoldExists ==
    ASSUME NEW S, IsFiniteSet(S), NEW base \in Int, NEW G \in [S \X Int -> Int]
    PROVE  \E g \in [SUBSET S -> Int] : FoldedBy(g, S, base, G)
<1> DEFINE Body(g, s) == IF s = {} THEN base ELSE G[<<First(s), g[s \ {First(s)}]>>]
           Good(g, n) == \A s \in SUBSET S : Cardinality(s) <= n => g[s] = Body(g, s)
           D == {n \in Nat : \E g \in [SUBSET S -> Int] : Good(g, n)}
<1>1. \A s \in SUBSET S : s # {} =>
          First(s) \in s /\ First(s) \in S /\ s \ {First(s)} \in SUBSET S
  BY FirstIsIn
<1>2. 0 \in D
  <2>1. [s \in SUBSET S |-> base] \in [SUBSET S -> Int]
    OBVIOUS
  <2>2. Good([s \in SUBSET S |-> base], 0)
    BY SizeOfSubset
  <2> HIDE DEF Good
  <2> QED BY <2>1, <2>2
<1>3. \A n \in D : n + 1 \in D
  <2> TAKE n \in D
  <2>1. PICK g \in [SUBSET S -> Int] : Good(g, n)
    OBVIOUS
  <2> DEFINE h == [s \in SUBSET S |-> Body(g, s)]
  <2>2. h \in [SUBSET S -> Int]
    <3>1. \A s \in SUBSET S : Body(g, s) \in Int
      BY <1>1
    <3> HIDE DEF Body
    <3> QED BY <3>1
  <2>3. Good(h, n + 1)
    <3> TAKE s \in SUBSET S
    <3> HAVE Cardinality(s) <= n + 1
    <3>1. CASE s = {}
      BY <3>1
    <3>2. CASE s # {}
      <4>1. s \ {First(s)} \in SUBSET S /\ Cardinality(s \ {First(s)}) <= n
        BY <1>1, <3>2, OneLess
      <4>2. g[s \ {First(s)}] = h[s \ {First(s)}]
        BY <2>1, <4>1
      <4> QED BY <3>2, <4>2
    <3> QED BY <3>1, <3>2
  <2> HIDE DEF Good, h
  <2> QED BY <2>2, <2>3
<1>4. Cardinality(S) \in D
  <2> HIDE DEF D
  <2>1. D \in SUBSET Nat
    BY DEF D
  <2> QED BY <2>1, <1>2, <1>3, AllNumbers, FS_CardinalityType
<1>5. PICK g \in [SUBSET S -> Int] : Good(g, Cardinality(S))
  BY <1>4
<1>6. \A s \in SUBSET S : g[s] = Body(g, s)
  BY <1>5, SizeOfSubset
<1> QED BY <1>6 DEF FoldedBy

\* Lots: what is held of a stock.
WholeLots(own) == \A s \in Equity : \E k \in Nat : own[s] = k * Lot

\* The cash after a sale, with c before it.
AfterSale(s, c, p) ==
    LET a == SellAmount(owned[s], 0, owned[s], c, p)
    IN  IF a = 0 THEN c ELSE c + Val(a, p) - Cost(a, p)

LEMMA AfterSaleIs ==
    ASSUME owned \in [Equity -> Nat], WholeLots(owned),
           NEW s \in Equity, NEW c \in Int, NEW p \in Prices
    PROVE  AfterSale(s, c, p) \in Int
<1> DEFINE have == owned[s]
           a == SellAmount(have, 0, have, c, p)
<1>1. have \in Nat /\ 0 \in Nat
  OBVIOUS
<1>2. PICK k \in Nat : have = k * Lot
  BY DEF WholeLots
<1> HIDE DEF have
<1>3. a \in 0..have
  BY <1>1, <1>2, SellIs
<1>4. a \in Nat
  BY <1>1, <1>3
<1> HIDE DEF a
<1>5. Val(a, p) \in Nat /\ Cost(a, p) \in Nat
  BY <1>4, CostIs
<1>6. AfterSale(s, c, p) = IF a = 0 THEN c ELSE c + Val(a, p) - Cost(a, p)
  BY DEF AfterSale, a, have
<1> QED BY <1>5, <1>6

LEMMA ExpectedIs ==
    ASSUME owned \in [Equity -> Nat], WholeLots(owned), purse \in Int,
           NEW S \in SUBSET Equity, NEW p \in Prices
    PROVE  Expected(S, p) \in Int
<1> DEFINE G == [x \in S \X Int |-> AfterSale(x[1], x[2], p)]
           Solves(f) == f = [s \in SUBSET S |->
                               IF s = {} THEN purse ELSE AfterSale(First(s), f[s \ {First(s)}], p)]
           h == CHOOSE f : Solves(f)
<1>1. IsFiniteSet(S)
  BY BackParameters, FS_Subset
<1>2. G \in [S \X Int -> Int]
  <2>1. \A x \in S \X Int : AfterSale(x[1], x[2], p) \in Int
    BY AfterSaleIs
  <2> QED BY <2>1
<1>3. \A s \in S, c \in Int : G[<<s, c>>] = AfterSale(s, c, p)
  OBVIOUS
<1> HIDE DEF G
<1>4. PICK g \in [SUBSET S -> Int] : \A s \in SUBSET S :
          g[s] = IF s = {} THEN purse ELSE G[<<First(s), g[s \ {First(s)}]>>]
  <2> DEFINE b == purse
  <2>1. b \in Int
    OBVIOUS
  <2> HIDE DEF b
  <2>2. \E g \in [SUBSET S -> Int] : FoldedBy(g, S, b, G)
    BY <1>1, <1>2, <2>1, FoldExists
  <2> QED BY <2>2 DEF b, FoldedBy
<1>5. \A s \in SUBSET S : s # {} => First(s) \in S /\ s \ {First(s)} \in SUBSET S
  BY FirstIsIn
<1>6. Solves(g)
  <2>1. \A s \in SUBSET S :
           g[s] = IF s = {} THEN purse ELSE AfterSale(First(s), g[s \ {First(s)}], p)
    <3> TAKE s \in SUBSET S
    <3>1. CASE s = {}
      BY <1>4, <3>1
    <3>2. CASE s # {}
      <4>1. First(s) \in S /\ g[s \ {First(s)}] \in Int
        BY <1>5, <3>2
      <4>2. G[<<First(s), g[s \ {First(s)}]>>] = AfterSale(First(s), g[s \ {First(s)}], p)
        BY <1>3, <4>1
      <4> QED BY <1>4, <3>2, <4>2
    <3> QED BY <3>1, <3>2
  <2> QED BY <2>1
<1>7. Solves(h)
  <2> HIDE DEF Solves
  <2> QED BY <1>6
<1> HIDE DEF h
\* Any solution has these values.
<1> DEFINE D == {n \in Nat : \A s \in SUBSET S : Cardinality(s) <= n => h[s] \in Int}
<1>8. \A s \in SUBSET S :
         h[s] = IF s = {} THEN purse ELSE AfterSale(First(s), h[s \ {First(s)}], p)
  BY <1>7
<1> HIDE DEF Solves
<1>9. 0 \in D
  <2>1. ASSUME NEW s \in SUBSET S, Cardinality(s) <= 0
        PROVE  h[s] \in Int
    <3>1. s = {}
      BY <1>1, <2>1, SizeOfSubset
    <3> QED BY <1>8, <3>1
  <2> QED BY <2>1
<1>10. \A n \in D : n + 1 \in D
  <2> TAKE n \in D
  <2> SUFFICES ASSUME NEW s \in SUBSET S, Cardinality(s) <= n + 1 PROVE h[s] \in Int
    OBVIOUS
  <2>1. CASE s = {}
    BY <1>8, <2>1
  <2>2. CASE s # {}
    <3>1. First(s) \in s /\ First(s) \in Equity
      BY <2>2, FirstIsIn
    <3>2. s \ {First(s)} \in SUBSET S /\ Cardinality(s \ {First(s)}) <= n
      BY <1>1, <3>1, OneLess
    <3>3. h[s \ {First(s)}] \in Int
      BY <3>2
    <3>4. AfterSale(First(s), h[s \ {First(s)}], p) \in Int
      BY <3>1, <3>3, AfterSaleIs
    <3> QED BY <1>8, <2>2, <3>4
  <2> QED BY <2>1, <2>2
<1>11. Cardinality(S) \in D
  <2>1. D \in SUBSET Nat
    OBVIOUS
  <2> HIDE DEF D
  <2> QED BY <2>1, <1>1, <1>9, <1>10, AllNumbers, FS_CardinalityType
<1>12. h[S] \in Int
  BY <1>11, <1>1, SizeOfSubset
<1>13. Expected(S, p) = h[S]
  BY DEF Expected, FoldSet, MapThenFoldSet, AfterSale, First, h, Solves
<1> QED BY <1>12, <1>13

\* What each purchase may take of the cash, in shares.
LEMMA ShareIs ==
    ASSUME NEW e \in Int, NEW n \in Nat, NEW p \in Prices
    PROVE  RoundAmount((Greater(e, 0) * RiskNum) \div (RiskDen * Greater(n, 1) * p * CostDen)) \in Nat
<1> DEFINE x == Greater(e, 0) * RiskNum
           d == RiskDen * Greater(n, 1) * p * CostDen
<1>1. RiskNum \in Nat /\ RiskDen \in Nat \ {0} /\ p \in Nat \ {0} /\ CostDen \in Nat \ {0}
  BY BackParameters
<1>2. Greater(e, 0) \in Nat /\ Greater(n, 1) \in Nat \ {0}
  BY DEF Greater
<1>3. x \in Nat
  BY <1>1, <1>2
<1>4. d \in Nat \ {0}
  <2> DEFINE u == RiskDen * Greater(n, 1)
             v == u * p
  <2>1. u \in Nat \ {0}
    BY <1>1, <1>2
  <2> HIDE DEF u
  <2>2. v \in Nat \ {0}
    BY <1>1, <2>1
  <2>3. d = v * CostDen
    BY DEF u
  <2> HIDE DEF v
  <2> QED BY <1>1, <2>2, <2>3
<1> HIDE DEF x, d
<1>5. x \div d \in Nat
  BY <1>3, <1>4
<1>6. RoundAmount(x \div d) \in 0..((x \div d) + 1)
  BY <1>5, RoundAmountIs
<1>7. RoundAmount(x \div d) \in Nat
  BY <1>5, <1>6
<1> QED BY <1>7 DEF x, d

OwnedOf(own) == {s \in Equity : own[s] > 0}

\* What a list of orders may still buy.
BuyTargets(q) == {t.of : t \in {u \in Range(q) : u.way = "buy"}}

\* What is not to be dropped, with what is still bought, is topk at most.
Room(own, out, q) == Cardinality((OwnedOf(own) \ out) \union BuyTargets(q)) <= TopK

\* Two lists have the elements of both.
LEMMA ConcatRange ==
    ASSUME NEW V, NEW q \in Seq(V), NEW r \in Seq(V)
    PROVE  q \o r \in Seq(V) /\ Range(q \o r) = Range(q) \union Range(r)
<1> DEFINE c == q \o r
<1>1. /\ Len(q) \in Nat /\ DOMAIN q = 1..Len(q) /\ Len(r) \in Nat /\ DOMAIN r = 1..Len(r)
  BY LenProperties
<1>2. /\ c \in Seq(V) /\ Len(c) = Len(q) + Len(r)
      /\ \A i \in 1..(Len(q) + Len(r)) : c[i] = IF i <= Len(q) THEN q[i] ELSE r[i - Len(q)]
  BY ConcatProperties
<1> HIDE DEF c
<1>3. DOMAIN c = 1..(Len(q) + Len(r))
  BY <1>2, LenProperties
<1>4. ASSUME NEW x \in Range(c)
      PROVE  x \in Range(q) \union Range(r)
  <2>1. PICK i \in 1..(Len(q) + Len(r)) : x = c[i]
    BY <1>3 DEF Range
  <2>2. CASE i <= Len(q)
    <3>1. i \in DOMAIN q /\ q[i] = x
      BY <1>1, <1>2, <2>1, <2>2
    <3> QED BY <3>1 DEF Range
  <2>3. CASE ~(i <= Len(q))
    <3>1. i - Len(q) \in DOMAIN r /\ r[i - Len(q)] = x
      BY <1>1, <1>2, <2>1, <2>3
    <3> QED BY <3>1 DEF Range
  <2> QED BY <2>2, <2>3
<1>5. ASSUME NEW x \in Range(q)
      PROVE  x \in Range(c)
  <2>1. PICK i \in 1..Len(q) : x = q[i]
    BY <1>1 DEF Range
  <2>2. i \in DOMAIN c /\ c[i] = x
    BY <1>1, <1>2, <1>3, <2>1
  <2> QED BY <2>2 DEF Range
<1>6. ASSUME NEW x \in Range(r)
      PROVE  x \in Range(c)
  <2>1. PICK i \in 1..Len(r) : x = r[i]
    BY <1>1 DEF Range
  <2>2. i + Len(q) \in 1..(Len(q) + Len(r)) /\ ~(i + Len(q) <= Len(q)) /\ i + Len(q) - Len(q) = i
    BY <1>1
  <2>3. i + Len(q) \in DOMAIN c /\ c[i + Len(q)] = x
    BY <1>2, <1>3, <2>1, <2>2
  <2> QED BY <2>3 DEF Range
<1> QED BY <1>2, <1>4, <1>5, <1>6 DEF c

LEMMA BuysFirstIs ==
    ASSUME NEW q \in Seq(Trade)
    PROVE  BuysFirst(q) \in Seq(Trade) /\ Range(BuysFirst(q)) \in SUBSET Range(q)
<1> DEFINE B == {t \in Range(q) : t.way = "buy"}
           S == {t \in Range(q) : t.way = "sell"}
<1>1. BuysFirst(q) = Only(q, B) \o Only(q, S)
  BY DEF BuysFirst
<1> HIDE DEF B, S
<1>2. /\ Only(q, B) \in Seq(Trade) /\ Range(Only(q, B)) = Range(q) \intersect B
      /\ Only(q, S) \in Seq(Trade) /\ Range(Only(q, S)) = Range(q) \intersect S
  BY OnlyIs
<1>3. /\ BuysFirst(q) \in Seq(Trade)
      /\ Range(BuysFirst(q)) = Range(Only(q, B)) \union Range(Only(q, S))
  BY <1>1, <1>2, ConcatRange
<1> QED BY <1>2, <1>3

\* A ranking is a list of all stocks, each once.
LEMMA RankIs ==
    ASSUME NEW rank \in SetToSeqs(Equity)
    PROVE  rank \in Seq(Equity) /\ IsInjective(rank) /\ Range(rank) = Equity
<1> DEFINE n == Cardinality(Equity)
<1>1. n \in Nat /\ IsFiniteSet(Equity)
  BY BackParameters, FS_CardinalityType
<1>2. rank \in [1..n -> Equity] /\ \A i, j \in 1..n : i # j => rank[i] # rank[j]
  BY DEF SetToSeqs
<1> HIDE DEF n
<1>3. rank \in Seq(Equity) /\ DOMAIN rank = 1..n
  BY <1>1, <1>2
<1>4. IsInjective(rank)
  BY <1>2, <1>3 DEF IsInjective
<1>5. rank \in Injection(1..n, Equity)
  BY <1>2, <1>4 DEF Injection
<1>6. rank \in Surjection(1..n, Equity)
  <2>1. IsFiniteSet(1..n) /\ Cardinality(1..n) = n
    BY <1>1, FirstNumbers
  <2>2. Cardinality(1..n) = Cardinality(Equity)
    BY <2>1 DEF n
  <2> QED BY <1>1, <1>5, <2>2, FS_Injection
<1>7. Range(rank) = Equity
  BY <1>2, <1>3, <1>6 DEF Range, Surjection
<1> QED BY <1>3, <1>4, <1>7

\* What is dropped and what is bought leave topk stocks.
LEMMA DropIs ==
    ASSUME NEW rank \in SetToSeqs(Equity), dropped \in SUBSET Equity,
           Cardinality(dropped) <= NDrop, Room(owned, dropped, trades), trades \in Seq(Trade)
    PROVE  /\ Drop(rank) \in SUBSET Owned /\ Cardinality(Drop(rank)) <= NDrop
           /\ Pick(rank) \in Seq(Equity)
           /\ Cardinality((Owned \ Drop(rank)) \union Range(Pick(rank))) <= TopK
<1>1. rank \in Seq(Equity) /\ IsInjective(rank) /\ Range(rank) = Equity
  BY RankIs
<1>2. TopK \in Nat \ {0} /\ NDrop \in Nat \ {0} /\ IsFiniteSet(Equity)
  BY BackParameters
<1> DEFINE o == Cardinality(Owned)
           w == Wanted(rank)
           comb == Only(rank, Owned \union Range(w))
           last == LastN(comb, NDrop)
           drop == Drop(rank)
           d == Cardinality(drop)
<1>3. Owned \in SUBSET Equity /\ IsFiniteSet(Owned) /\ o \in Nat
  <2>1. Owned \in SUBSET Equity
    BY DEF Owned
  <2> QED BY <1>2, <2>1, FS_Subset, FS_CardinalityType
<1>4. o <= TopK + NDrop
  <2> DEFINE kept == Owned \ dropped
             room == (OwnedOf(owned) \ dropped) \union BuyTargets(trades)
  <2>1. BuyTargets(trades) \in SUBSET Equity
    <3>1. \A t \in Range(trades) : t \in Trade
      BY RangeSize
    <3> QED BY <3>1 DEF BuyTargets, Trade
  <2>2. room \in SUBSET Equity /\ kept \in SUBSET room
    BY <2>1 DEF OwnedOf, Owned
  <2>3. Cardinality(room) <= TopK
    BY DEF Room
  <2> HIDE DEF room
  <2>4. IsFiniteSet(room) /\ Cardinality(room) \in Nat
    BY <1>2, <2>2, FS_Subset, FS_CardinalityType
  <2>5. IsFiniteSet(kept) /\ Cardinality(kept) <= Cardinality(room)
    BY <2>2, <2>4, FS_Subset
  <2>6. IsFiniteSet(dropped) /\ Cardinality(dropped) \in Nat
    BY <1>2, FS_Subset, FS_CardinalityType
  <2>7. Owned \in SUBSET (kept \union dropped)
    OBVIOUS
  <2> HIDE DEF kept
  <2>8. /\ IsFiniteSet(kept \union dropped) /\ Cardinality(kept) \in Nat
        /\ Cardinality(kept \intersect dropped) \in Nat
        /\ Cardinality(kept \union dropped)
              = Cardinality(kept) + Cardinality(dropped) - Cardinality(kept \intersect dropped)
    BY <2>5, <2>6, FS_Union, FS_Intersection, FS_CardinalityType
  <2>9. o <= Cardinality(kept \union dropped)
    BY <2>7, <2>8, FS_Subset
  <2> QED BY <1>2, <1>3, <2>3, <2>4, <2>5, <2>6, <2>8, <2>9
<1> HIDE DEF o
<1>5. w \in Seq(Equity) /\ Len(w) <= NDrop + TopK - o
  <2>1. NDrop + TopK - o \in Nat
    BY <1>2, <1>3, <1>4
  <2>2. Only(rank, Equity \ Owned) \in Seq(Equity)
    BY <1>1, OnlyIs
  <2>3. w = FirstN(Only(rank, Equity \ Owned), NDrop + TopK - o)
    BY DEF Wanted, o
  <2> HIDE DEF w
  <2> QED BY <2>1, <2>2, <2>3, FirstNIs
<1> HIDE DEF w
<1>6. /\ Range(w) \in SUBSET Equity /\ IsFiniteSet(Range(w))
      /\ Cardinality(Range(w)) \in Nat /\ Cardinality(Range(w)) <= Len(w) /\ Len(w) \in Nat
  BY <1>5, RangeSize, LenProperties
<1>7. /\ comb \in Seq(Equity) /\ IsInjective(comb)
      /\ Range(comb) = Owned \union Range(w)
  <2>1. /\ comb \in Seq(Equity) /\ IsInjective(comb)
        /\ Range(comb) = Range(rank) \intersect (Owned \union Range(w))
    BY <1>1, OnlyIs
  <2> QED BY <1>1, <1>3, <1>6, <2>1
<1> HIDE DEF comb
<1>8. Len(comb) <= NDrop + TopK
  <2>1. Len(comb) <= Cardinality(Range(comb)) /\ Len(comb) \in Nat
    BY <1>2, <1>7, SizeWhenDistinct, LenProperties
  <2>2. /\ Cardinality(Owned \union Range(w))
             = Cardinality(Owned) + Cardinality(Range(w)) - Cardinality(Owned \intersect Range(w))
        /\ Cardinality(Owned \intersect Range(w)) \in Nat
    BY <1>3, <1>6, FS_Union, FS_Intersection, FS_CardinalityType
  <2>3. Cardinality(Owned) = o
    BY DEF o
  <2> QED BY <1>2, <1>3, <1>5, <1>6, <1>7, <2>1, <2>2, <2>3
<1>9. /\ IsFiniteSet(Range(last)) /\ Cardinality(Range(last)) <= NDrop
      /\ IsFiniteSet(Range(comb) \ Range(last))
      /\ Cardinality(Range(comb) \ Range(last)) <= TopK
  BY <1>2, <1>7, <1>8, LastNIs
<1>10. drop = Owned \intersect Range(last)
  BY DEF Drop, comb, w
<1> HIDE DEF last, drop
<1>11. drop \in SUBSET Owned /\ IsFiniteSet(drop) /\ d \in Nat /\ d <= NDrop
  <2>1. drop \in SUBSET Range(last) /\ drop \in SUBSET Owned
    BY <1>10
  <2>2. IsFiniteSet(drop) /\ d <= Cardinality(Range(last))
    BY <1>9, <2>1, FS_Subset
  <2>3. d \in Nat /\ Cardinality(Range(last)) \in Nat
    BY <1>9, <2>2, FS_CardinalityType
  <2> QED BY <1>2, <1>9, <2>1, <2>2, <2>3
<1> DEFINE keep == Owned \ drop
           k == Cardinality(keep)
<1>12. IsFiniteSet(keep) /\ k \in Nat /\ k <= TopK /\ k = o - d
  <2>1. keep \in SUBSET (Range(comb) \ Range(last))
    BY <1>7, <1>10
  <2>2. IsFiniteSet(keep) /\ k <= Cardinality(Range(comb) \ Range(last))
    BY <1>9, <2>1, FS_Subset
  <2>3. k \in Nat /\ Cardinality(Range(comb) \ Range(last)) \in Nat
    BY <1>9, <2>2, FS_CardinalityType
  <2>4. k = Cardinality(Owned) - Cardinality(Owned \intersect drop)
    BY <1>3, FS_Difference
  <2>5. Owned \intersect drop = drop
    BY <1>11
  <2>6. k = o - d
    BY <2>4, <2>5 DEF o
  <2>7. Cardinality(Range(comb) \ Range(last)) <= TopK
    BY <1>9
  <2> DEFINE gone == Cardinality(Range(comb) \ Range(last))
  <2>8. k <= gone /\ gone <= TopK /\ k \in Nat /\ gone \in Nat
    BY <2>2, <2>3, <2>7
  <2> HIDE DEF k, d, keep, gone
  <2>9. k <= TopK
    BY <1>2, <2>8
  <2> QED BY <2>2, <2>6, <2>8, <2>9
<1> DEFINE pick == Pick(rank)
<1>13. pick \in Seq(Equity) /\ Len(pick) <= d + TopK - o
  <2>1. d + TopK - o \in Nat
    BY <1>2, <1>3, <1>11, <1>12
  <2>2. pick = FirstN(w, d + TopK - o)
    BY DEF Pick, w, o, drop
  <2> HIDE DEF pick, d
  <2> QED BY <1>5, <2>1, <2>2, FirstNIs
<1> HIDE DEF pick
<1>14. /\ IsFiniteSet(Range(pick)) /\ Cardinality(Range(pick)) \in Nat
       /\ Cardinality(Range(pick)) <= Len(pick) /\ Len(pick) \in Nat
  BY <1>13, RangeSize, LenProperties
<1> HIDE DEF keep
<1>15. /\ Cardinality(keep \union Range(pick))
             = Cardinality(keep) + Cardinality(Range(pick)) - Cardinality(keep \intersect Range(pick))
       /\ Cardinality(keep \intersect Range(pick)) \in Nat
  BY <1>12, <1>14, FS_Union, FS_Intersection, FS_CardinalityType
<1>16. Cardinality(keep \union Range(pick)) <= TopK
  <2> DEFINE u == Cardinality(keep \union Range(pick))
             x == Cardinality(Range(pick))
             y == Cardinality(keep \intersect Range(pick))
             l == Len(pick)
  <2>1. /\ u = k + x - y /\ y \in Nat /\ x \in Nat /\ x <= l /\ l \in Nat /\ l <= d + TopK - o
        /\ k = o - d /\ k \in Nat
    BY <1>12, <1>13, <1>14, <1>15
  <2> HIDE DEF u, x, y, l, k, d
  <2>2. u <= TopK
    BY <1>2, <1>3, <1>11, <2>1
  <2> QED BY <2>2 DEF u
<1>17. drop \in SUBSET Owned /\ Cardinality(drop) <= NDrop
  BY <1>11
<1> QED BY <1>13, <1>16, <1>17 DEF drop, pick, keep

LEMMA DecisionIs ==
    ASSUME owned \in [Equity -> Nat], WholeLots(owned), purse \in Int,
           NEW rank \in SetToSeqs(Equity), NEW p \in Prices, NEW tradable \in SUBSET Equity,
           Drop(rank) \in SUBSET Owned, Pick(rank) \in Seq(Equity)
    PROVE  /\ Decision(rank, p, tradable) \in Seq(Trade)
           /\ BuyTargets(Decision(rank, p, tradable)) \in SUBSET Range(Pick(rank))
<1> DEFINE S == Sales(rank, p, tradable)
           pick == Pick(rank)
           share == RoundAmount((Greater(Expected(S, p), 0) * RiskNum)
                                   \div (RiskDen * Greater(Len(pick), 1) * p * CostDen))
           sell == SetToSeq(S)
           buy  == Only(pick, tradable)
           sells == [i \in DOMAIN sell |-> [of |-> sell[i], way |-> "sell", amount |-> owned[sell[i]]]]
           buys  == [i \in DOMAIN buy |-> [of |-> buy[i], way |-> "buy", amount |-> share]]
<1>1. Decision(rank, p, tradable) = sells \o buys
  BY DEF Decision
<1>2. S \in SUBSET Equity /\ IsFiniteSet(S)
  <2>1. S \in SUBSET Equity
    BY DEF Sales, Owned
  <2> HIDE DEF S
  <2> QED BY <2>1, BackParameters, FS_Subset
<1> HIDE DEF S
<1>3. sell \in Seq(Equity)
  <2>1. SetToSeq(S) \in Seq(S)
    BY <1>2, SetToSeqIs
  <2> QED BY <1>2, <2>1, SeqMonotonic
<1>4. share \in Nat
  <2> DEFINE e == Expected(S, p)
             n == Len(pick)
  <2>1. e \in Int
    BY <1>2, ExpectedIs
  <2>2. n \in Nat
    BY LenProperties
  <2> HIDE DEF e, n
  <2>3. RoundAmount((Greater(e, 0) * RiskNum) \div (RiskDen * Greater(n, 1) * p * CostDen)) \in Nat
    BY <2>1, <2>2, ShareIs
  <2> QED BY <2>3 DEF e, n
<1> HIDE DEF share, sell
<1>5. buy \in Seq(Equity) /\ Range(buy) \in SUBSET Range(pick)
  BY OnlyIs
<1> HIDE DEF buy, pick
<1>6. sells \in Seq(Trade) /\ \A t \in Range(sells) : t.way = "sell"
  <2> DEFINE n == Len(sell)
  <2>1. n \in Nat /\ DOMAIN sell = 1..n /\ \A i \in 1..n : sell[i] \in Equity
    BY <1>3, LenProperties
  <2> HIDE DEF n
  <2>2. \A i \in 1..n : [of |-> sell[i], way |-> "sell", amount |-> owned[sell[i]]] \in Trade
    BY <2>1 DEF Trade
  <2>3. sells \in [1..n -> Trade]
    BY <2>1, <2>2
  <2>4. \A t \in Range(sells) : t.way = "sell"
    BY DEF Range
  <2> HIDE DEF sells
  <2> QED BY <2>1, <2>3, <2>4
<1>7. buys \in Seq(Trade) /\ \A t \in Range(buys) : t.of \in Range(buy)
  <2> DEFINE n == Len(buy)
  <2>1. n \in Nat /\ DOMAIN buy = 1..n /\ \A i \in 1..n : buy[i] \in Equity
    BY <1>5, LenProperties
  <2> HIDE DEF n
  <2>2. \A i \in 1..n : [of |-> buy[i], way |-> "buy", amount |-> share] \in Trade
    BY <1>4, <2>1 DEF Trade
  <2>3. buys \in [1..n -> Trade]
    BY <2>1, <2>2
  <2>4. \A t \in Range(buys) : t.of \in Range(buy)
    BY DEF Range
  <2> HIDE DEF buys
  <2>5. buys \in Seq(Trade)
    BY <2>1, <2>3
  <2> QED BY <2>4, <2>5
<1> HIDE DEF sells, buys
<1>8. /\ sells \o buys \in Seq(Trade)
      /\ Range(sells \o buys) = Range(sells) \union Range(buys)
  BY <1>6, <1>7, ConcatRange
<1>9. BuyTargets(sells \o buys) \in SUBSET Range(buy)
  <2>1. ASSUME NEW t \in Range(sells \o buys), t.way = "buy"
        PROVE  t.of \in Range(buy)
    <3>1. t \notin Range(sells)
      BY <1>6, <2>1
    <3> QED BY <1>7, <1>8, <3>1
  <2> QED BY <2>1 DEF BuyTargets
<1> QED BY <1>1, <1>5, <1>8, <1>9 DEF pick

-----------------------------------------------------------------------------
\* The inductive invariant.

InBar == /\ trades # <<>> => price # 0
         /\ price # 0 => bar < MaxBars

\* Only a settlement that waits for the end of the bar owes something, and only sales that
\* cost more than they bring make it negative.
Owing == /\ settle = "no" => pending = 0
         /\ SalesPay => pending >= 0

BacktestInv ==
    /\ BacktestTypeOK
    /\ InBar
    /\ WholeLots(owned)
    /\ Owing
    /\ CashCovered
    /\ Cardinality(dropped) <= NDrop
    /\ Room(owned, dropped, trades)

LEMMA NoTargets == BuyTargets(<<>>) = {}
<1>1. Range(<<>>) = {}
  BY DEF Range
<1> QED BY <1>1 DEF BuyTargets

\* After an order the rest of the list buys no more.
LEMMA TailTargets ==
    ASSUME NEW q \in Seq(Trade), q # <<>>
    PROVE  /\ Head(q) \in Trade /\ Tail(q) \in Seq(Trade)
           /\ BuyTargets(Tail(q)) \in SUBSET BuyTargets(q)
           /\ Head(q).way = "buy" => Head(q).of \in BuyTargets(q)
           /\ BuyTargets(q) \in SUBSET Equity
<1>1. /\ Len(q) \in Nat \ {0} /\ DOMAIN q = 1..Len(q) /\ \A i \in 1..Len(q) : q[i] \in Trade
  BY LenProperties, EmptySeq
<1>2. /\ Head(q) \in Trade /\ Tail(q) \in Seq(Trade) /\ Len(Tail(q)) = Len(q) - 1
      /\ \A i \in 1..Len(Tail(q)) : Tail(q)[i] = q[i + 1]
  BY HeadTailProperties
<1>3. DOMAIN Tail(q) = 1..(Len(q) - 1)
  BY <1>2, LenProperties
<1>4. Range(Tail(q)) \in SUBSET Range(q)
  <2> SUFFICES ASSUME NEW i \in 1..(Len(q) - 1) PROVE Tail(q)[i] \in Range(q)
    BY <1>3 DEF Range
  <2>1. i + 1 \in DOMAIN q /\ Tail(q)[i] = q[i + 1]
    BY <1>1, <1>2
  <2> QED BY <2>1 DEF Range
<1>5. Head(q) \in Range(q)
  <2>1. 1 \in DOMAIN q /\ Head(q) = q[1]
    BY <1>1
  <2> QED BY <2>1 DEF Range
<1>6. \A t \in Range(q) : t \in Trade
  BY RangeSize
<1> QED BY <1>2, <1>4, <1>5, <1>6 DEF BuyTargets, Trade

\* Room does not shrink when no more is held or bought.
LEMMA RoomStays ==
    ASSUME NEW own, NEW out, NEW q, NEW own1, NEW out1, NEW q1, Room(own, out, q),
           BuyTargets(q) \in SUBSET Equity,
           (OwnedOf(own1) \ out1) \union BuyTargets(q1)
              \in SUBSET ((OwnedOf(own) \ out) \union BuyTargets(q))
    PROVE  Room(own1, out1, q1)
<1> DEFINE A == (OwnedOf(own) \ out) \union BuyTargets(q)
           B == (OwnedOf(own1) \ out1) \union BuyTargets(q1)
<1>1. A \in SUBSET Equity
  BY DEF OwnedOf
<1>2. B \in SUBSET A /\ Cardinality(A) <= TopK
  BY DEF Room
<1> HIDE DEF A, B
<1>3. IsFiniteSet(A) /\ Cardinality(A) \in Nat
  BY <1>1, BackParameters, FS_Subset, FS_CardinalityType
<1>4. Cardinality(B) <= Cardinality(A) /\ Cardinality(B) \in Nat
  BY <1>2, <1>3, FS_Subset, FS_CardinalityType
<1>5. Cardinality(B) <= TopK
  BY <1>2, <1>3, <1>4, BackParameters
<1> QED BY <1>5 DEF Room, B

LEMMA BacktestStarts == BacktestInit => BacktestInv
<1> SUFFICES ASSUME BacktestInit PROVE BacktestInv
  OBVIOUS
<1> USE DEF BacktestInit
<1>1. /\ InitCash \in Nat /\ MaxBars \in Nat /\ Lot \in Nat /\ NDrop \in Nat /\ TopK \in Nat
      /\ TickCost \in Nat
  <2>1. PICK p \in Prices : TRUE
    BY BackParameters
  <2>2. TickCost \in Nat
    BY TickIs
  <2> QED BY <2>2, BackParameters
<1>2. BacktestTypeOK
  BY <1>1 DEF BacktestTypeOK
<1>3. InBar /\ Owing /\ CashCovered
  BY <1>1 DEF InBar, Owing, CashCovered
<1>4. WholeLots(owned)
  <2>1. 0 = 0 * Lot
    BY <1>1
  <2> QED BY <2>1 DEF WholeLots
<1>5. Cardinality(dropped) <= NDrop
  BY <1>1, FS_EmptySet
<1>6. Room(owned, dropped, trades)
  <2>1. OwnedOf(owned) = {} /\ BuyTargets(trades) = {}
    BY NoTargets DEF OwnedOf
  <2>2. (OwnedOf(owned) \ dropped) \union BuyTargets(trades) = {}
    BY <2>1
  <2>3. Cardinality({}) <= TopK
    BY <1>1, FS_EmptySet
  <2> QED BY <2>2, <2>3 DEF Room
<1> QED BY <1>2, <1>3, <1>4, <1>5, <1>6 DEF BacktestInv

LEMMA BarStarts ==
    ASSUME BacktestInv, NEW rank \in SetToSeqs(Equity), NEW p \in Prices,
           NEW tradable \in SUBSET Equity, StartBar(rank, p, tradable)
    PROVE  BacktestInv'
<1> USE DEF BacktestInv
<1> DEFINE d == Decision(rank, p, tradable)
<1>1. /\ owned' = owned /\ bars' = bars /\ purse' = purse /\ pending' = pending /\ bar' = bar
      /\ settle' = settle /\ parallel' = parallel /\ price' = p /\ open' = tradable
      /\ dropped' = Drop(rank) /\ dealt' = [s \in Equity |-> 0] /\ bar < MaxBars
      /\ trades' = IF parallel THEN BuysFirst(d) ELSE d
  BY DEF StartBar
<1>2. /\ Drop(rank) \in SUBSET Owned /\ Cardinality(Drop(rank)) <= NDrop
      /\ Pick(rank) \in Seq(Equity)
      /\ Cardinality((Owned \ Drop(rank)) \union Range(Pick(rank))) <= TopK
  <2>1. dropped \in SUBSET Equity /\ trades \in Seq(Trade)
    BY DEF BacktestTypeOK
  <2> QED BY <2>1, DropIs
<1>3. d \in Seq(Trade) /\ BuyTargets(d) \in SUBSET Range(Pick(rank))
  <2>1. owned \in [Equity -> Nat] /\ purse \in Int
    BY DEF BacktestTypeOK
  <2> QED BY <1>2, <2>1, DecisionIs
<1> HIDE DEF d
<1>4. trades' \in Seq(Trade) /\ BuyTargets(trades') \in SUBSET Range(Pick(rank))
  <2>1. BuysFirst(d) \in Seq(Trade) /\ Range(BuysFirst(d)) \in SUBSET Range(d)
    BY <1>3, BuysFirstIs
  <2>2. BuyTargets(BuysFirst(d)) \in SUBSET BuyTargets(d)
    BY <2>1 DEF BuyTargets
  <2>3. CASE parallel
    BY <1>1, <1>3, <2>1, <2>2, <2>3
  <2>4. CASE ~parallel
    BY <1>1, <1>3, <2>4
  <2> QED BY <2>3, <2>4
<1>5. p \in Nat \ {0}
  BY BackParameters
<1>6. BacktestTypeOK'
  <2>1. Drop(rank) \in SUBSET Equity
    BY <1>2 DEF Owned
  <2>2. [s \in Equity |-> 0] \in [Equity -> Nat]
    OBVIOUS
  <2> QED BY <1>1, <1>4, <2>1, <2>2 DEF BacktestTypeOK
<1>7. InBar'
  BY <1>1, <1>5 DEF InBar
<1>8. WholeLots(owned')
  BY <1>1
<1>9. Owing' /\ CashCovered'
  BY <1>1 DEF Owing, CashCovered
<1>10. Cardinality(dropped') <= NDrop
  BY <1>1, <1>2
<1>11. Room(owned', dropped', trades')
  <2> DEFINE A == (Owned \ Drop(rank)) \union Range(Pick(rank))
             B == (OwnedOf(owned') \ dropped') \union BuyTargets(trades')
  <2>1. B \in SUBSET A
    BY <1>1, <1>4 DEF Owned, OwnedOf
  <2>2. A \in SUBSET Equity
    BY <1>2, RangeSize DEF Owned
  <2> HIDE DEF B
  <2>3. Cardinality(A) <= TopK
    BY <1>2
  <2> HIDE DEF A
  <2>4. IsFiniteSet(A) /\ Cardinality(A) \in Nat
    BY <2>2, BackParameters, FS_Subset, FS_CardinalityType
  <2>5. Cardinality(B) <= Cardinality(A) /\ Cardinality(B) \in Nat
    BY <2>1, <2>4, FS_Subset, FS_CardinalityType
  <2>6. Cardinality(B) <= TopK
    BY <2>3, <2>4, <2>5, BackParameters
  <2> QED BY <2>6 DEF B, Room
<1> QED BY <1>6, <1>7, <1>8, <1>9, <1>10, <1>11

LEMMA SaleKeeps ==
    ASSUME BacktestInv, DealSell
    PROVE  BacktestInv'
<1> USE DEF BacktestInv
<1> DEFINE t == Head(trades)
           s == t.of
           have == owned[s]
           a == SellAmount(t.amount, dealt[s], have, purse, price)
           gain == IF a = 0 THEN 0 ELSE Val(a, price) - Cost(a, price)
<1>1. /\ trades # <<>>
      /\ owned' = [owned EXCEPT ![s] = @ - a]
      /\ bars' = [bars EXCEPT ![s] = IF a = have THEN 0 ELSE @]
      /\ dealt' = [dealt EXCEPT ![s] = @ + a]
      /\ IF settle = "cash" THEN pending' = pending + gain /\ purse' = purse
                            ELSE purse' = purse + gain /\ pending' = pending
      /\ trades' = Tail(trades)
      /\ settle' = settle /\ parallel' = parallel /\ price' = price /\ open' = open
      /\ bar' = bar /\ dropped' = dropped
  BY DEF DealSell
<1>2. /\ t \in Trade /\ Tail(trades) \in Seq(Trade)
      /\ BuyTargets(Tail(trades)) \in SUBSET BuyTargets(trades)
      /\ BuyTargets(trades) \in SUBSET Equity
  <2>1. trades \in Seq(Trade)
    BY DEF BacktestTypeOK
  <2> QED BY <1>1, <2>1, TailTargets
<1> HIDE DEF t
<1>3. s \in Equity /\ t.amount \in Nat
  BY <1>2 DEF Trade
<1> HIDE DEF s
<1>4. /\ owned \in [Equity -> Nat] /\ bars \in [Equity -> Nat] /\ dealt \in [Equity -> Nat]
      /\ purse \in Int /\ pending \in Int /\ have \in Nat /\ dealt[s] \in Nat /\ price \in Prices
  BY <1>1, <1>3 DEF BacktestTypeOK, InBar
<1>5. PICK k \in Nat : have = k * Lot
  BY <1>3 DEF WholeLots
<1> HIDE DEF have
<1>6. /\ a \in 0..have /\ (\E j \in Nat : have - a = j * Lot)
      /\ a = 0 \/ purse + Val(a, price) - Cost(a, price) >= 0
      /\ a = 0 \/ (SalesPay => Val(a, price) - Cost(a, price) >= 0)
  BY <1>3, <1>4, <1>5, SellIs
<1> HIDE DEF a
<1>7. a \in Nat /\ TickCost \in Nat /\ have - a \in Nat
  BY <1>4, <1>6, TickIs
<1>8. Val(a, price) \in Nat /\ Cost(a, price) \in Nat
  BY <1>4, <1>7, CostIs
<1>9. /\ gain \in Int /\ (SalesPay => gain >= 0)
      /\ gain = 0 \/ purse + gain >= 0
  <2> DEFINE x == Val(a, price)
             y == Cost(a, price)
  <2>1. x \in Nat /\ y \in Nat /\ (a = 0 \/ purse + x - y >= 0) /\ (a = 0 \/ (SalesPay => x - y >= 0))
    BY <1>6, <1>8
  <2>2. gain = IF a = 0 THEN 0 ELSE x - y
    OBVIOUS
  <2> HIDE DEF x, y, gain
  <2> QED BY <1>4, <2>1, <2>2
<1> HIDE DEF gain
<1>10. owned' \in [Equity -> Nat] /\ owned'[s] = have - a /\ \A q \in Equity \ {s} : owned'[q] = owned[q]
  BY <1>1, <1>3, <1>4, <1>7 DEF have
<1>11. BacktestTypeOK'
  <2>1. purse' \in Int /\ pending' \in Int
    BY <1>1, <1>4, <1>9
  <2>2. bars' \in [Equity -> Nat]
    BY <1>1, <1>3, <1>4
  <2>3. dealt' \in [Equity -> Nat]
    BY <1>1, <1>3, <1>4, <1>7
  <2> QED BY <1>1, <1>2, <1>10, <2>1, <2>2, <2>3 DEF BacktestTypeOK
<1>12. InBar'
  BY <1>1 DEF InBar
<1>13. WholeLots(owned')
  BY <1>6, <1>10 DEF WholeLots
<1>14. SalesPay' = SalesPay /\ TickCost' = TickCost
  BY DEF SalesPay, TickCost
<1>15. Owing' /\ CashCovered'
  <2>1. settle \in {"no", "cash"}
    BY DEF BacktestTypeOK
  <2>2. CASE settle = "cash"
    BY <1>1, <1>4, <1>9, <1>14, <2>2 DEF Owing, CashCovered
  <2>3. CASE settle = "no"
    BY <1>1, <1>4, <1>7, <1>9, <1>14, <2>3 DEF Owing, CashCovered
  <2> QED BY <2>1, <2>2, <2>3
<1>16. Cardinality(dropped') <= NDrop
  BY <1>1
<1>17. Room(owned', dropped', trades')
  <2>1. OwnedOf(owned') \in SUBSET OwnedOf(owned)
    <3>1. ASSUME NEW q \in Equity, owned'[q] > 0 PROVE owned[q] > 0
      <4>1. CASE q = s
        BY <1>4, <1>7, <1>10, <3>1, <4>1 DEF have
      <4>2. CASE q # s
        BY <1>10, <3>1, <4>2
      <4> QED BY <4>1, <4>2
    <3> QED BY <3>1 DEF OwnedOf
  <2>2. (OwnedOf(owned') \ dropped') \union BuyTargets(trades')
           \in SUBSET ((OwnedOf(owned) \ dropped) \union BuyTargets(trades))
    BY <1>1, <1>2, <2>1
  <2> QED BY <1>2, <2>2, RoomStays
<1> QED BY <1>11, <1>12, <1>13, <1>15, <1>16, <1>17

LEMMA PurchaseKeeps ==
    ASSUME BacktestInv, DealBuy
    PROVE  BacktestInv'
<1> USE DEF BacktestInv
<1> DEFINE t == Head(trades)
           s == t.of
           a == BuyAmount(t.amount, dealt[s], purse, price)
<1>1. /\ trades # <<>> /\ t.way = "buy"
      /\ owned' = [owned EXCEPT ![s] = @ + a]
      /\ dealt' = [dealt EXCEPT ![s] = @ + a]
      /\ purse' = IF a = 0 THEN purse ELSE purse - Val(a, price) - Cost(a, price)
      /\ trades' = Tail(trades)
      /\ bars' = bars /\ pending' = pending
      /\ settle' = settle /\ parallel' = parallel /\ price' = price /\ open' = open
      /\ bar' = bar /\ dropped' = dropped
  BY DEF DealBuy
<1>2. /\ t \in Trade /\ Tail(trades) \in Seq(Trade)
      /\ BuyTargets(Tail(trades)) \in SUBSET BuyTargets(trades)
      /\ s \in BuyTargets(trades) /\ BuyTargets(trades) \in SUBSET Equity
  <2>1. trades \in Seq(Trade)
    BY DEF BacktestTypeOK
  <2> QED BY <1>1, <2>1, TailTargets
<1> HIDE DEF t
<1>3. s \in Equity /\ t.amount \in Nat
  BY <1>2 DEF Trade
<1> HIDE DEF s
<1>4. /\ owned \in [Equity -> Nat] /\ dealt \in [Equity -> Nat]
      /\ purse \in Int /\ pending \in Int /\ dealt[s] \in Nat /\ price \in Prices
  BY <1>1, <1>3 DEF BacktestTypeOK, InBar
<1>5. /\ a \in Nat /\ (\E k \in Nat : a = k * Lot)
      /\ a = 0 \/ purse - Val(a, price) - Cost(a, price) >= -TickCost
  BY <1>3, <1>4, BuyIs
<1> HIDE DEF a
<1>6. Val(a, price) \in Nat /\ Cost(a, price) \in Nat
  BY <1>4, <1>5, CostIs
<1>7. purse' \in Int /\ (purse' = purse \/ purse' >= -TickCost)
  <2> DEFINE x == Val(a, price)
             y == Cost(a, price)
  <2>1. x \in Nat /\ y \in Nat /\ (a = 0 \/ purse - x - y >= -TickCost)
    BY <1>5, <1>6
  <2>2. purse' = IF a = 0 THEN purse ELSE purse - x - y
    BY <1>1
  <2> HIDE DEF x, y
  <2> QED BY <1>4, <2>1, <2>2
<1>8. owned' \in [Equity -> Nat] /\ owned'[s] = owned[s] + a
      /\ \A q \in Equity \ {s} : owned'[q] = owned[q]
  BY <1>1, <1>3, <1>4, <1>5
<1>9. BacktestTypeOK'
  <2>1. dealt' \in [Equity -> Nat]
    BY <1>1, <1>3, <1>4, <1>5
  <2> QED BY <1>1, <1>2, <1>7, <1>8, <2>1 DEF BacktestTypeOK
<1>10. InBar'
  BY <1>1 DEF InBar
<1>11. WholeLots(owned')
  <2>1. PICK k \in Nat : a = k * Lot
    BY <1>5
  <2>2. PICK j \in Nat : owned[s] = j * Lot
    BY <1>3 DEF WholeLots
  <2>3. owned'[s] = (j + k) * Lot /\ j + k \in Nat
    <3>1. Lot \in Nat
      BY BackParameters
    <3>2. (j + k) * Lot = j * Lot + k * Lot
      BY <3>1
    <3> QED BY <1>8, <2>1, <2>2, <3>2
  <2> QED BY <1>8, <2>3 DEF WholeLots
<1>12. SalesPay' = SalesPay /\ TickCost' = TickCost
  BY DEF SalesPay, TickCost
<1>13. Owing' /\ CashCovered'
  BY <1>1, <1>7, <1>12 DEF Owing, CashCovered
<1>14. Cardinality(dropped') <= NDrop
  BY <1>1
<1>15. Room(owned', dropped', trades')
  <2>1. OwnedOf(owned') \in SUBSET (OwnedOf(owned) \union {s})
    BY <1>8 DEF OwnedOf
  <2>2. (OwnedOf(owned') \ dropped') \union BuyTargets(trades')
           \in SUBSET ((OwnedOf(owned) \ dropped) \union BuyTargets(trades))
    BY <1>1, <1>2, <2>1
  <2> QED BY <1>2, <2>2, RoomStays
<1> QED BY <1>9, <1>10, <1>11, <1>13, <1>14, <1>15

LEMMA BarEnds ==
    ASSUME BacktestInv, EndBar
    PROVE  BacktestInv'
<1> USE DEF BacktestInv
<1>1. /\ price # 0 /\ trades = <<>> /\ trades' = <<>>
      /\ bars' = [s \in Equity |-> IF owned[s] > 0 THEN bars[s] + 1 ELSE 0]
      /\ purse' = purse + pending /\ pending' = 0 /\ bar' = bar + 1 /\ price' = 0 /\ open' = {}
      /\ dealt' = [s \in Equity |-> 0] /\ owned' = owned /\ dropped' = dropped
      /\ settle' = settle /\ parallel' = parallel
  BY DEF EndBar
<1>2. /\ bars \in [Equity -> Nat] /\ purse \in Int /\ pending \in Int /\ MaxBars \in Nat
      /\ bar \in 0..MaxBars /\ bar < MaxBars /\ TickCost \in Nat
  <2>1. PICK p \in Prices : TRUE
    BY BackParameters
  <2>2. TickCost \in Nat
    BY TickIs
  <2> QED BY <1>1, <2>2, BackParameters DEF BacktestTypeOK, InBar
<1>3. BacktestTypeOK'
  <2>1. bars' \in [Equity -> Nat]
    BY <1>1, <1>2
  <2>2. dealt' \in [Equity -> Nat]
    BY <1>1
  <2>3. bar' \in 0..MaxBars /\ purse' \in Int /\ pending' \in Int
    BY <1>1, <1>2
  <2> QED BY <1>1, <2>1, <2>2, <2>3 DEF BacktestTypeOK
<1>4. InBar'
  BY <1>1 DEF InBar
<1>5. SalesPay' = SalesPay /\ TickCost' = TickCost
  BY DEF SalesPay, TickCost
<1>6. Owing' /\ CashCovered'
  BY <1>1, <1>2, <1>5 DEF Owing, CashCovered
<1>7. WholeLots(owned') /\ Cardinality(dropped') <= NDrop /\ Room(owned', dropped', trades')
  BY <1>1
<1> QED BY <1>3, <1>4, <1>6, <1>7

\* The invariant bounds what is held.
LEMMA HoldingsAreBounded == BacktestInv => HoldingsBounded
<1> SUFFICES ASSUME BacktestInv PROVE HoldingsBounded
  OBVIOUS
<1> DEFINE room == (OwnedOf(owned) \ dropped) \union BuyTargets(trades)
           keep == Owned \ dropped
<1>1. room \in SUBSET Equity /\ keep \in SUBSET room
  <2>1. trades \in Seq(Trade)
    BY DEF BacktestInv, BacktestTypeOK
  <2>2. BuyTargets(trades) \in SUBSET Equity
    BY <2>1, TailTargets, NoTargets
  <2> QED BY <2>2 DEF Owned, OwnedOf
<1>2. Cardinality(room) <= TopK
  BY DEF BacktestInv, Room
<1> HIDE DEF room
<1>3. IsFiniteSet(room) /\ Cardinality(room) \in Nat
  BY <1>1, BackParameters, FS_Subset, FS_CardinalityType
<1>4. Cardinality(keep) <= Cardinality(room)
  BY <1>1, <1>3, FS_Subset
<1>5. IsFiniteSet(Owned) /\ Cardinality(Owned) \in Nat
  <2>1. Owned \in SUBSET Equity
    BY DEF Owned
  <2> QED BY <2>1, BackParameters, FS_Subset, FS_CardinalityType
<1>6. IsFiniteSet(keep) /\ Cardinality(keep) = Cardinality(Owned) - Cardinality(Owned \intersect dropped)
  BY <1>5, FS_Difference
<1>7. Cardinality(Owned \intersect dropped) \in Nat
  BY <1>5, FS_Intersection, FS_CardinalityType
<1>8. Owned \intersect dropped = dropped \intersect Owned
  OBVIOUS
<1> DEFINE x == Cardinality(Owned)
           y == Cardinality(dropped \intersect Owned)
           z == Cardinality(room)
           k == Cardinality(keep)
<1>9. x \in Nat /\ y \in Nat /\ z \in Nat /\ z <= TopK /\ k <= z /\ k = x - y /\ TopK \in Nat
  BY <1>2, <1>3, <1>4, <1>5, <1>6, <1>7, <1>8, BackParameters
<1> HIDE DEF x, y, z, k
<1>10. x <= TopK + y
  BY <1>9
<1> QED BY <1>10 DEF HoldingsBounded, x, y

LEMMA BacktestNextKeeps == BacktestInv /\ [BacktestNext]_backtestVars => BacktestInv'
<1> SUFFICES ASSUME BacktestInv, [BacktestNext]_backtestVars
             PROVE  BacktestInv'
  OBVIOUS
<1>1. ASSUME NEW rank \in SetToSeqs(Equity), NEW p \in Prices,
             NEW tradable \in SUBSET Equity, StartBar(rank, p, tradable)
      PROVE  BacktestInv'
  BY <1>1, BarStarts
<1>2. CASE DealSell
  BY <1>2, SaleKeeps
<1>3. CASE DealBuy
  BY <1>3, PurchaseKeeps
<1>4. CASE EndBar
  BY <1>4, BarEnds
<1>5. CASE UNCHANGED backtestVars
  <2>1. /\ settle' = settle /\ parallel' = parallel /\ owned' = owned /\ bars' = bars
        /\ purse' = purse /\ pending' = pending /\ trades' = trades /\ dealt' = dealt
        /\ price' = price /\ open' = open /\ bar' = bar /\ dropped' = dropped
    BY <1>5 DEF backtestVars
  <2>2. BacktestTypeOK' /\ InBar' /\ Owing' /\ CashCovered'
    BY <2>1 DEF BacktestInv, BacktestTypeOK, InBar, Owing, CashCovered
  <2> QED BY <2>1, <2>2 DEF BacktestInv
<1> QED BY <1>1, <1>2, <1>3, <1>4, <1>5 DEF BacktestNext

\* A portfolio is overdrawn by no more than a tick of its cash, and holds no more than topk
\* stocks and those that were to be dropped (TopkDropoutStrategy.generate_trade_decision,
\* Exchange.deal_order and the settlement of SimulatorExecutor).
THEOREM PortfolioIsSound == BacktestSpec => []PortfolioSound
<1>1. BacktestInv => PortfolioSound
  BY HoldingsAreBounded DEF BacktestInv, PortfolioSound
<1> QED BY <1>1, BacktestStarts, BacktestNextKeeps, PTL DEF BacktestSpec

-----------------------------------------------------------------------------
(* The type invariant of Recording.                                        *)

\* The n-th call of the queue still has its place in the store: f counts the calls that
\* will have reached it at most.
Credit(q, a, l) ==
    \E f \in [0..Len(q) -> Nat] :
        /\ a <= f[0] /\ f[Len(q)] <= l
        /\ \A i, j \in 0..Len(q) : i <= j => f[i] <= f[j]
        /\ \A i \in 1..Len(q) : q[i] = "log" => f[i - 1] < f[i]

RecordingTypeInv ==
    /\ \A r \in Run : logged[r] <= MaxCalls /\ Credit(calls[r], applied[r], logged[r])
    /\ mishaps \subseteq {"raised", "nested", "left"}

LEMMA CreditBegins == Credit(<<>>, 0, 0)
<1> DEFINE f == [i \in 0..0 |-> 0]
<1>1. Len(<<>>) = 0
  BY EmptySeq
<1>2. f \in [0..0 -> Nat] /\ f[0] = 0
  OBVIOUS
<1> HIDE DEF f
<1> QED BY <1>1, <1>2 DEF Credit

LEMMA CreditBounds ==
    ASSUME NEW q \in Seq(Calls), NEW a \in Nat, NEW l \in Nat, Credit(q, a, l)
    PROVE  a <= l
<1>1. Len(q) \in Nat
  BY LenProperties
<1> QED BY <1>1 DEF Credit

LEMMA CreditGrows ==
    ASSUME NEW q \in Seq(Calls), NEW a \in Nat, NEW l \in Nat, NEW c \in Calls, NEW m \in Nat,
           Credit(q, a, l), m = l + 1 \/ (c # "log" /\ m = l)
    PROVE  Credit(Append(q, c), a, m)
<1>1. Len(q) \in Nat
  BY LenProperties
<1>2. PICK f \in [0..Len(q) -> Nat] :
        /\ a <= f[0] /\ f[Len(q)] <= l
        /\ \A i, j \in 0..Len(q) : i <= j => f[i] <= f[j]
        /\ \A i \in 1..Len(q) : q[i] = "log" => f[i - 1] < f[i]
  BY DEF Credit
<1> DEFINE p == Append(q, c)
           n == Len(q)
           g == [i \in 0..n + 1 |-> IF i = n + 1 THEN m ELSE f[i]]
<1>3. /\ Len(p) = n + 1 /\ p[n + 1] = c
      /\ \A i \in 1..n : p[i] = q[i]
  BY QueueGrows
<1>4. /\ g \in [0..n + 1 -> Nat] /\ g[n + 1] = m
      /\ \A i \in 0..n : g[i] = f[i]
  BY <1>1, <1>2
<1>5. \A i \in 0..n : f[i] \in Nat /\ f[i] <= m
  BY <1>1, <1>2
<1> HIDE DEF p, n, g
<1>6. n \in Nat
  BY <1>1 DEF n
<1>7. a <= g[0] /\ g[n + 1] <= m
  BY <1>2, <1>4, <1>6
<1>8. ASSUME NEW i \in 0..n + 1, NEW j \in 0..n + 1, i <= j PROVE g[i] <= g[j]
  <2>1. CASE j = n + 1 /\ i = n + 1
    BY <2>1, <1>4
  <2>2. CASE j = n + 1 /\ i # n + 1
    <3>1. i \in 0..n /\ g[j] = m
      BY <1>4, <1>6, <2>2
    <3> QED BY <3>1, <1>4, <1>5
  <2>3. CASE j # n + 1
    <3>1. i \in 0..n /\ j \in 0..n
      BY <1>6, <1>8, <2>3
    <3> QED BY <3>1, <1>2, <1>4, <1>8 DEF n
  <2> QED BY <2>1, <2>2, <2>3
<1>9. ASSUME NEW i \in 1..n + 1, p[i] = "log" PROVE g[i - 1] < g[i]
  <2>1. CASE i = n + 1
    <3>1. c = "log" /\ m = l + 1 /\ i - 1 = n
      BY <1>3, <1>6, <1>9, <2>1 DEF n
    <3>2. g[i - 1] = f[n] /\ g[i] = m /\ f[n] \in Nat /\ f[n] <= l
      BY <1>2, <1>4, <1>5, <1>6, <2>1, <3>1 DEF n
    <3> QED BY <3>1, <3>2
  <2>2. CASE i # n + 1
    <3>1. i \in 1..n /\ i - 1 \in 0..n /\ i \in 0..n
      BY <1>6, <2>2
    <3>2. q[i] = "log"
      BY <1>3, <1>9, <3>1 DEF n
    <3> QED BY <3>1, <3>2, <1>2, <1>4 DEF n
  <2> QED BY <2>1, <2>2
<1> QED BY <1>3, <1>4, <1>7, <1>8, <1>9 DEF Credit, p

LEMMA CreditShrinks ==
    ASSUME NEW q \in Seq(Calls), NEW a \in Nat, NEW l \in Nat, NEW b \in Nat, q # <<>>,
           Credit(q, a, l), b = a \/ (Head(q) = "log" /\ b = a + 1)
    PROVE  Credit(Tail(q), b, l)
<1>2. PICK f \in [0..Len(q) -> Nat] :
        /\ a <= f[0] /\ f[Len(q)] <= l
        /\ \A i, j \in 0..Len(q) : i <= j => f[i] <= f[j]
        /\ \A i \in 1..Len(q) : q[i] = "log" => f[i - 1] < f[i]
  BY DEF Credit
<1> DEFINE p == Tail(q)
           n == Len(q) - 1
           g == [i \in 0..n |-> f[i + 1]]
<1>1. /\ n \in Nat /\ Len(q) = n + 1
      /\ Len(p) = n /\ Head(q) = q[1]
      /\ \A i \in 1..n : p[i] = q[i + 1]
  BY QueueShrinks
<1>3. /\ g \in [0..n -> Nat]
      /\ \A i \in 0..n : g[i] = f[i + 1] /\ i + 1 \in 0..n + 1
  BY <1>1, <1>2
<1> HIDE DEF p, n, g
<1>4. b <= g[0] /\ g[n] <= l
  <2>1. f[0] \in Nat /\ f[1] \in Nat /\ f[0] <= f[1] /\ (Head(q) = "log" => f[0] < f[1])
    BY <1>1, <1>2
  <2>2. g[0] = f[1] /\ g[n] = f[n + 1]
    BY <1>1, <1>3
  <2> QED BY <1>1, <1>2, <2>1, <2>2
<1>5. ASSUME NEW i \in 0..n, NEW j \in 0..n, i <= j PROVE g[i] <= g[j]
  <2>1. g[i] = f[i + 1] /\ g[j] = f[j + 1] /\ i + 1 \in 0..Len(q) /\ j + 1 \in 0..Len(q)
    BY <1>1, <1>3
  <2> QED BY <1>2, <1>5, <2>1
<1>6. ASSUME NEW i \in 1..n, p[i] = "log" PROVE g[i - 1] < g[i]
  <2>1. i - 1 \in 0..n /\ i \in 0..n /\ i + 1 \in 1..Len(q) /\ (i + 1) - 1 = i /\ (i - 1) + 1 = i
    BY <1>1
  <2>2. q[i + 1] = "log"
    BY <1>1, <1>6
  <2>3. f[i] < f[i + 1]
    BY <1>2, <2>1, <2>2
  <2>4. g[i - 1] = f[i] /\ g[i] = f[i + 1]
    BY <1>3, <2>1
  <2> QED BY <2>3, <2>4
<1> QED BY <1>1, <1>3, <1>4, <1>5, <1>6 DEF Credit, p

LEMMA RecordingTypeInit == RecordingInit => RecordingTypeInv
BY CreditBegins, RecordingAssumption DEF RecordingInit, RecordingTypeInv

LEMMA CallerTakesTypes ==
    ASSUME RecordingShape, RecordingTypeInv, NEW r \in Run, NEW raises \in BOOLEAN,
           CallerTakes(r, raises)
    PROVE  RecordingTypeInv'
<1>1. /\ calls[r] # <<>> /\ calls' = [calls EXCEPT ![r] = Tail(calls[r])] /\ logged' = logged
      /\ calls[r] \in Seq(Calls) /\ applied[r] \in Nat /\ logged[r] \in Nat
  BY DEF CallerTakes, RecordingShape
<1>2. /\ mishaps' \subseteq {"raised", "nested", "left"}
      /\ \A s \in Run \ {r} : applied'[s] = applied[s]
      /\ applied'[r] \in Nat
      /\ applied'[r] = applied[r] \/ (Head(calls[r]) = "log" /\ applied'[r] = applied[r] + 1)
  <2>0. applied \in [Run -> Nat] /\ mishaps \subseteq {"raised", "nested", "left"}
    BY DEF RecordingShape, RecordingTypeInv
  <2>1. CASE Head(calls[r]) = STOP_MARK
    BY <2>0, <2>1 DEF CallerTakes, STOP_MARK
  <2>2. CASE Head(calls[r]) # STOP_MARK /\ Head(calls[r]) = "log" /\ raises
    BY <2>0, <2>2 DEF CallerTakes
  <2>3. CASE Head(calls[r]) # STOP_MARK /\ ~(Head(calls[r]) = "log" /\ raises)
    <3>1. mishaps' = mishaps /\ applied' = [applied EXCEPT ![r] = applied[r] + 1]
      BY <2>3 DEF CallerTakes
    <3>2. Head(calls[r]) = calls[r][1] /\ 1 \in 1..Len(calls[r])
      BY <1>1, QueueShrinks
    <3>3. calls[r][1] \in Calls
      BY <1>1, <3>2, ElementOfSeq
    <3>4. Head(calls[r]) = "log"
      BY <2>3, <3>2, <3>3 DEF Calls
    <3> QED BY <1>1, <2>0, <3>1, <3>4
  <2> QED BY <2>1, <2>2, <2>3
<1>3. ASSUME NEW s \in Run PROVE logged'[s] <= MaxCalls /\ Credit(calls'[s], applied'[s], logged'[s])
  <2>1. CASE s = r
    <3>1. Credit(Tail(calls[r]), applied'[r], logged[r])
      BY <1>1, <1>2, CreditShrinks DEF RecordingTypeInv
    <3>2. calls'[r] = Tail(calls[r])
      BY <1>1 DEF RecordingShape
    <3> QED BY <1>1, <2>1, <3>1, <3>2 DEF RecordingTypeInv
  <2>2. CASE s # r
    <3>1. calls'[s] = calls[s] /\ applied'[s] = applied[s]
      BY <1>1, <1>2, <2>2 DEF RecordingShape
    <3> QED BY <1>1, <3>1 DEF RecordingTypeInv
  <2> QED BY <2>1, <2>2
<1> QED BY <1>2, <1>3 DEF RecordingTypeInv

LEMMA RecordingTypeNext ==
    ASSUME RecordingShape, RecordingTypeInv, [RecordingNext]_recordingVars
    PROVE  RecordingTypeInv'
<1>1. ASSUME UNCHANGED <<calls, logged, applied>>, mishaps' \subseteq {"raised", "nested", "left"}
      PROVE  RecordingTypeInv'
  BY <1>1 DEF RecordingTypeInv
<1>2. ASSUME NEW r \in Run, NEW c \in Calls, UNCHANGED <<applied, mishaps>>,
             calls' = [calls EXCEPT ![r] = Append(calls[r], c)],
             \/ c = "log" /\ logged[r] < MaxCalls /\ logged' = [logged EXCEPT ![r] = logged[r] + 1]
             \/ c = STOP_MARK /\ logged' = logged
      PROVE  RecordingTypeInv'
  <2>1. /\ calls[r] \in Seq(Calls) /\ applied[r] \in Nat /\ logged[r] \in Nat
        /\ Credit(calls[r], applied[r], logged[r])
    BY DEF RecordingShape, RecordingTypeInv
  <2>2. /\ logged'[r] \in Nat /\ logged'[r] <= MaxCalls
        /\ logged'[r] = logged[r] + 1 \/ (c # "log" /\ logged'[r] = logged[r])
    <3>1. CASE c = "log" /\ logged[r] < MaxCalls /\ logged' = [logged EXCEPT ![r] = logged[r] + 1]
      BY <3>1, <2>1, RecordingAssumption DEF RecordingShape
    <3>2. CASE c = STOP_MARK /\ logged' = logged
      BY <3>2, <2>1 DEF STOP_MARK, RecordingTypeInv
    <3> QED BY <1>2, <3>1, <3>2
  <2>3. Credit(Append(calls[r], c), applied[r], logged'[r])
    BY <2>1, <2>2, CreditGrows
  <2>4. calls'[r] = Append(calls[r], c) /\ applied'[r] = applied[r]
    BY <1>2 DEF RecordingShape
  <2>5. ASSUME NEW s \in Run, s # r PROVE calls'[s] = calls[s] /\ applied'[s] = applied[s] /\ logged'[s] = logged[s]
    BY <1>2, <2>5 DEF RecordingShape
  <2>6. ASSUME NEW s \in Run PROVE logged'[s] <= MaxCalls /\ Credit(calls'[s], applied'[s], logged'[s])
    <3>1. CASE s = r
      BY <2>2, <2>3, <2>4, <3>1
    <3>2. CASE s # r
      BY <2>5, <3>2 DEF RecordingTypeInv
    <3> QED BY <3>1, <3>2
  <2> QED BY <1>2, <2>6 DEF RecordingTypeInv
<1>3. mishaps \subseteq {"raised", "nested", "left"}
  BY DEF RecordingTypeInv
<1>4. ASSUME NEW r \in Run, StartExp(r) PROVE RecordingTypeInv'
  BY <1>1, <1>3, <1>4 DEF StartExp
<1>5. CASE LogCall
  <2>1. /\ active \in Run /\ logged[active] < MaxCalls
        /\ calls' = [calls EXCEPT ![active] = Append(calls[active], "log")]
        /\ logged' = [logged EXCEPT ![active] = logged[active] + 1]
        /\ UNCHANGED <<applied, mishaps>>
    BY <1>5 DEF LogCall, RecordingShape
  <2>2. "log" \in Calls
    BY DEF Calls
  <2> QED BY <1>2, <2>1, <2>2
<1>6. ASSUME NEW s \in {"FINISHED", "FAILED"}, EndExp(s) PROVE RecordingTypeInv'
  <2>1. active \in Run /\ UNCHANGED <<applied, mishaps, logged>>
    BY <1>6 DEF EndExp, RecordingShape
  <2>2. CASE caller[active] = "none"
    BY <1>1, <1>3, <1>6, <2>1, <2>2 DEF EndExp
  <2>3. CASE caller[active] # "none"
    <3>1. calls' = [calls EXCEPT ![active] = Append(calls[active], STOP_MARK)]
      BY <1>6, <2>3 DEF EndExp
    <3>2. STOP_MARK \in Calls
      BY DEF Calls
    <3> QED BY <1>2, <2>1, <3>1, <3>2
  <2> QED BY <2>2, <2>3
<1>7. CASE Waited \/ Atexit
  BY <1>1, <1>3, <1>7 DEF Waited, Atexit
<1>8. CASE MainEnds
  BY <1>1, <1>3, <1>8 DEF MainEnds
<1>9. ASSUME NEW r \in Run, CallerLeaves(r) PROVE RecordingTypeInv'
  BY <1>1, <1>3, <1>9 DEF CallerLeaves
<1>10. CASE UNCHANGED recordingVars
  BY <1>1, <1>3, <1>10 DEF recordingVars
<1> QED
  BY <1>4, <1>5, <1>6, <1>7, <1>8, <1>9, <1>10, CallerTakesTypes DEF RecordingNext, CallerStep

\* No run ever has more results in the store than there can be calls, and its queue holds
\* logging calls and stop marks, whoever starts, raises, ends or leaves a run.
THEOREM RecordingTypeCorrect == RecordingSpec => []RecordingTypeOK
<1>1. RecordingInit => RecordingShape /\ RecordingTypeInv
  BY ShapeInit, RecordingTypeInit
<1>2. RecordingShape /\ RecordingTypeInv /\ [RecordingNext]_recordingVars => RecordingShape' /\ RecordingTypeInv'
  BY ShapeStep, RecordingTypeNext
<1>3. RecordingShape /\ RecordingTypeInv => RecordingTypeOK
  <2> SUFFICES ASSUME RecordingShape, RecordingTypeInv PROVE RecordingTypeOK
    OBVIOUS
  <2>1. \A r \in Run : applied[r] <= logged[r] /\ logged[r] <= MaxCalls
    BY CreditBounds DEF RecordingShape, RecordingTypeInv
  <2>2. logged \in [Run -> 0..MaxCalls] /\ applied \in [Run -> 0..MaxCalls]
    BY <2>1, RecordingAssumption DEF RecordingShape
  <2>3. \A r \in Run : calls[r] \in Seq({"log", STOP_MARK})
    BY DEF RecordingShape, Calls
  <2> QED BY <2>2, <2>3 DEF RecordingTypeOK, RecordingShape, RecordingTypeInv
<1> QED
  BY <1>1, <1>2, <1>3, PTL DEF RecordingSpec

-----------------------------------------------------------------------------
(* The type invariant of FiniteEnv.                                        *)

SeedsInRange == \A e \in Env : seed[e] <= NumSeeds

LEMMA Retyped ==
    ASSUME NEW q \in Seq(Nat), NEW S, \A i \in 1..Len(q) : q[i] \in S
    PROVE  q \in Seq(S)
<1>1. Len(q) \in Nat /\ q \in [1..Len(q) -> Nat]
  BY LenProperties
<1>2. q \in [1..Len(q) -> S]
  BY <1>1
<1> QED BY <1>1, <1>2

LEMMA QueuesTyped ==
    ASSUME FiniteInv
    PROVE  /\ \A i \in 1..Len(pipe) : pipe[i] \in Seeds
           /\ \A i \in 1..Len(buffer) : buffer[i] \in Seeds
           /\ \A i \in 1..Len(finished) : finished[i] \in Seeds
<1>1. Len(pipe) \in Nat /\ Len(buffer) \in Nat /\ produced \in Nat /\ produced <= NumSeeds /\ NumSeeds \in Nat
  BY FiniteEnvAssumption, LenProperties DEF FiniteInv, FiniteShape
<1>2. SeedsTaken \in Nat /\ SeedsTaken + Len(pipe) + Len(buffer) = produced
  BY <1>1 DEF FiniteInv, SeedsInOrder, SeedsTaken
<1>3. \A i \in 1..Len(pipe) : pipe[i] \in Seeds
  BY <1>1, <1>2 DEF FiniteInv, SeedsInOrder, Seeds
<1>4. \A i \in 1..Len(buffer) : buffer[i] \in Seeds
  BY <1>1, <1>2 DEF FiniteInv, SeedsInOrder, Seeds
<1>5. ASSUME NEW i \in 1..Len(finished) PROVE finished[i] \in Seeds
  <2>1. finished[i] \in Nat /\ i \in DOMAIN finished
    BY ElementOfSeq, LenProperties DEF FiniteInv, FiniteShape
  <2>2. finished[i] \in 1..SeedsTaken
    BY <2>1 DEF FiniteInv, OneEach, Finished
  <2> QED BY <1>1, <1>2, <2>1, <2>2 DEF Seeds
<1> QED BY <1>3, <1>4, <1>5

LEMMA SeedsInRangeNext ==
    ASSUME FiniteInv, SeedsInRange, [FiniteNext]_finiteVars
    PROVE  SeedsInRange'
<1>0. NumSeeds \in Nat /\ seed \in [Env -> Nat]
  BY FiniteEnvAssumption DEF FiniteInv, FiniteShape
<1>1. ASSUME UNCHANGED seed PROVE SeedsInRange'
  BY <1>1 DEF SeedsInRange
<1>2. ASSUME NEW e \in Env, TakeSeed(e) PROVE SeedsInRange'
  <2>1. pipe # <<>> /\ seed' = [seed EXCEPT ![e] = Head(pipe)] /\ pipe \in Seq(Nat)
    BY <1>2 DEF TakeSeed, FiniteInv, FiniteShape
  <2>2. Len(pipe) \in Nat \ {0} /\ Head(pipe) = pipe[1]
    BY <2>1, LenProperties, EmptySeq
  <2>3. Head(pipe) \in Seeds
    BY <2>2, QueuesTyped
  <2> QED BY <1>0, <2>1, <2>3 DEF SeedsInRange, Seeds
<1>3. ASSUME NEW e \in Env, EpisodeEnds(e) PROVE SeedsInRange'
  BY <1>0, <1>3 DEF EpisodeEnds, SeedsInRange
<1>4. ASSUME NEW e \in Env, NEW f \in Env, EpisodesEnd(e, f) PROVE SeedsInRange'
  BY <1>0, <1>4 DEF EpisodesEnd, SeedsInRange
<1>5. CASE Produce \/ ProducerEnds \/ Feed \/ ResetReturns \/ UNCHANGED finiteVars
  BY <1>1, <1>5 DEF Produce, ProducerEnds, Feed, ResetReturns, finiteVars
<1>6. ASSUME NEW e \in Env, FindNothing(e) \/ GiveUp(e) PROVE SeedsInRange'
  BY <1>1, <1>6 DEF FindNothing, GiveUp
<1> QED
  BY <1>2, <1>3, <1>4, <1>5, <1>6 DEF FiniteNext

LEMMA SeedsInRangeInit == FiniteInit => SeedsInRange
BY FiniteEnvAssumption DEF FiniteInit, SeedsInRange

LEMMA FiniteTyped == FiniteInv /\ SeedsInRange => FiniteTypeOK
<1> SUFFICES ASSUME FiniteInv, SeedsInRange PROVE FiniteTypeOK
  OBVIOUS
<1>1. buffer \in Seq(Nat) /\ pipe \in Seq(Nat) /\ finished \in Seq(Nat)
  BY DEF FiniteInv, FiniteShape
<1>2. buffer \in Seq(Seeds) /\ pipe \in Seq(Seeds) /\ finished \in Seq(Seeds)
  BY <1>1, QueuesTyped, Retyped
<1>3. produced \in 0..NumSeeds /\ seed \in [Env -> 0..NumSeeds]
  BY FiniteEnvAssumption DEF FiniteInv, FiniteShape, SeedsInRange
<1> QED BY <1>2, <1>3 DEF FiniteTypeOK, FiniteInv, FiniteShape

\* The queue, the environments and the episodes that are over hold seeds of the dataset.
THEOREM FiniteTypeCorrect == FiniteSpec => []FiniteTypeOK
<1>1. FiniteInv /\ SeedsInRange /\ [FiniteNext]_finiteVars => SeedsInRange'
  BY SeedsInRangeNext
<1> QED BY <1>1, InitInv, SeedsInRangeInit, FiniteNextKeeps, FiniteTyped, PTL DEF FiniteSpec

-----------------------------------------------------------------------------
(* The type invariant of OnlineRolling.                                    *)

\* A recorder predicts one day at least, that its predictions can be continued from.
HeldRecorders == {r \in Recorders : r.preds # {}}

OnlineTypeInv ==
    /\ day <= LastDay
    /\ recorders \in Seq(HeldRecorders) /\ Len(recorders) <= MaxRecorders
    /\ trained \subseteq DOMAIN recorders
    /\ signals \subseteq SignalRows

OnlineTyped == OnlineShape /\ OnlineTypeInv

LEMMA DaysAre ==
    ASSUME OnlineTyped
    PROVE  /\ day \in 1..LastDay /\ LastDay \in Nat \ {0} /\ SegmentOf(day) \in Segments
           /\ SegmentOf(day) \in Nat
           /\ \A k \in Nat : k <= SegmentOf(day) => k \in Segments
<1>1. day \in Nat \ {0} /\ day \in 1..LastDay /\ LastDay \in Nat \ {0}
  BY OnlineAssumption DEF OnlineTyped, OnlineShape, OnlineTypeInv
<1>2. SegmentOf(day) \in Nat /\ SegmentOf(LastDay) \in Nat /\ SegmentOf(day) <= SegmentOf(LastDay)
  BY <1>1, SegmentsFollow, SegmentBegins
<1> QED BY <1>1, <1>2 DEF Segments

LEMMA RecorderTyped ==
    ASSUME OnlineTyped, NEW k \in Nat, k <= SegmentOf(day)
    PROVE  Recorder(k) \in HeldRecorders
<1>1. day \in 1..LastDay /\ day \in Nat \ {0} /\ LastDay \in Nat /\ k \in Segments
  BY DaysAre DEF OnlineTyped, OnlineShape
<1>2. Start(k) \in Nat \ {0} /\ SegmentOf(Start(k)) = k /\ Start(k) <= day
  BY <1>1, StartType, SegmentBegins
<1> DEFINE P == {d \in 1..day : SegmentOf(d) = k}
<1>3. P \in SUBSET (1..LastDay) /\ P # {}
  BY <1>1, <1>2
<1> HIDE DEF P
<1>4. [segment |-> k, preds |-> P, online |-> FALSE] \in Recorders
  BY <1>1, <1>3 DEF Recorders
<1> QED BY <1>3, <1>4 DEF HeldRecorders, Recorder, P

LEMMA PlacesAre ==
    ASSUME OnlineTyped
    PROVE  /\ Len(recorders) \in Nat /\ DOMAIN recorders = 1..Len(recorders)
           /\ \A i \in 1..Len(recorders) :
                 /\ recorders[i] \in HeldRecorders /\ recorders[i].segment \in Segments
                 /\ recorders[i].preds \in SUBSET (1..LastDay) /\ recorders[i].preds # {}
                 /\ recorders[i].online \in BOOLEAN
<1>1. recorders \in Seq(HeldRecorders)
  BY DEF OnlineTyped, OnlineTypeInv
<1>2. Len(recorders) \in Nat /\ DOMAIN recorders = 1..Len(recorders)
  BY <1>1, LenProperties
<1>3. ASSUME NEW i \in 1..Len(recorders) PROVE recorders[i] \in HeldRecorders
  BY <1>1, ElementOfSeq
<1>4. \A r \in HeldRecorders : /\ r.segment \in Segments /\ r.preds \in SUBSET (1..LastDay)
                               /\ r.preds # {} /\ r.online \in BOOLEAN
  BY DEF HeldRecorders, Recorders
<1> QED BY <1>2, <1>3, <1>4

LEMMA TrainTypes ==
    ASSUME OnlineTyped, NEW from \in Nat, Train(from, SegmentOf(day)),
           UNCHANGED <<day, signals>>
    PROVE  OnlineTypeInv'
<1> DEFINE L == Len(recorders)
           t == SegmentOf(day) + 1
           New(n) == [i \in 1..n |-> Recorder(from + i - 1)]
<1>1. L \in Nat /\ t \in Nat /\ recorders \in Seq(HeldRecorders) /\ MaxRecorders \in Nat
  BY PlacesAre, DaysAre, OnlineAssumption DEF OnlineTyped, OnlineTypeInv
<1>2. PICK n \in 0..(t - from) :
         /\ L + t - from <= MaxRecorders
         /\ recorders' = recorders \o New(n)
         /\ trained' = (L + 1)..(L + n) \/ trained' = {}
  BY DEF Train
<1>3. n \in Nat /\ n <= t - from
  BY <1>1, <1>2
<1>4. ASSUME NEW i \in 1..n PROVE Recorder(from + i - 1) \in HeldRecorders
  <2>1. from + i - 1 \in Nat /\ from + i - 1 <= SegmentOf(day)
    BY <1>1, <1>3, DaysAre
  <2> QED BY <2>1, RecorderTyped
<1>5. New(n) \in Seq(HeldRecorders) /\ Len(New(n)) = n
  <2>1. New(n) \in [1..n -> HeldRecorders]
    BY <1>4
  <2>2. New(n) \in Seq(HeldRecorders)
    BY <1>3, <2>1
  <2> QED BY <1>3, <2>1, <2>2, LenProperties
<1> HIDE DEF New
<1>6. recorders' \in Seq(HeldRecorders) /\ Len(recorders') = L + n
  BY <1>1, <1>2, <1>5, ConcatProperties
<1>7. DOMAIN recorders' = 1..(L + n)
  BY <1>6, LenProperties
<1>8. trained' \subseteq DOMAIN recorders'
  BY <1>1, <1>2, <1>3, <1>7
<1>9. Len(recorders') <= MaxRecorders
  BY <1>1, <1>2, <1>3, <1>6
<1> QED BY <1>6, <1>8, <1>9 DEF OnlineTyped, OnlineTypeInv

\* A step that changes recorders where they are.
LEMMA RemadeTypes ==
    ASSUME OnlineTyped, NEW q, recorders' = q, DOMAIN q = DOMAIN recorders,
           q = [i \in DOMAIN recorders |-> q[i]],
           \A i \in DOMAIN recorders : q[i] \in HeldRecorders,
           UNCHANGED <<day, trained, signals>>
    PROVE  OnlineTypeInv'
<1>1. Len(recorders) \in Nat /\ DOMAIN recorders = 1..Len(recorders)
  BY PlacesAre
<1>2. q \in [1..Len(recorders) -> HeldRecorders]
  BY <1>1
<1>3. q \in Seq(HeldRecorders)
  BY <1>1, <1>2
<1>4. Len(q) = Len(recorders)
  BY <1>1, <1>2, <1>3, LenProperties
<1> QED BY <1>3, <1>4 DEF OnlineTyped, OnlineTypeInv

LEMMA TagTyped ==
    ASSUME NEW r \in HeldRecorders, NEW b \in BOOLEAN
    PROVE  [r EXCEPT !.online = b] \in HeldRecorders
BY DEF HeldRecorders, Recorders

LEMMA MoreTyped ==
    ASSUME OnlineTyped, NEW r \in HeldRecorders
    PROVE  [r EXCEPT !.preds = r.preds \union (Max(r.preds) + 1)..day] \in HeldRecorders
<1>1. r \in Recorders /\ r.preds \in SUBSET (1..LastDay) /\ r.preds # {}
  BY DEF HeldRecorders, Recorders
<1>2. day \in 1..LastDay /\ LastDay \in Nat
  BY DaysAre
<1>3. r.preds \subseteq 0..LastDay
  BY <1>1, <1>2
<1>4. Max(r.preds) \in r.preds
  BY <1>1, <1>2, <1>3, MaxIsGreatest
<1> DEFINE P == r.preds \union (Max(r.preds) + 1)..day
<1>5. P \in SUBSET (1..LastDay) /\ P # {}
  BY <1>1, <1>2, <1>4
<1> HIDE DEF P
<1>6. [r EXCEPT !.preds = P] \in Recorders /\ [r EXCEPT !.preds = P].preds = P
  BY <1>1, <1>5 DEF Recorders
<1> QED BY <1>5, <1>6 DEF HeldRecorders, P

LEMMA TagsType ==
    ASSUME OnlineTyped, TagOffline \/ TagOnline \/ UpdatePredictions
    PROVE  OnlineTypeInv'
<1>1. DOMAIN recorders = 1..Len(recorders) /\ UNCHANGED <<day, trained, signals>>
  BY PlacesAre DEF TagOffline, TagOnline, UpdatePredictions
<1>2. \A i \in DOMAIN recorders : recorders[i] \in HeldRecorders /\ recorders[i].online \in BOOLEAN
  BY <1>1, PlacesAre
<1>3. CASE TagOffline
  <2> DEFINE q == [i \in DOMAIN recorders |-> [recorders[i] EXCEPT !.online = FALSE]]
  <2>1. \A i \in DOMAIN recorders : q[i] \in HeldRecorders
    BY <1>2, TagTyped
  <2>2. DOMAIN q = DOMAIN recorders /\ q = [i \in DOMAIN recorders |-> q[i]] /\ recorders' = q
    BY <1>3 DEF TagOffline
  <2> HIDE DEF q
  <2> QED BY <1>1, <2>1, <2>2, RemadeTypes
<1>4. CASE TagOnline
  <2> DEFINE q == [i \in DOMAIN recorders |->
                     [recorders[i] EXCEPT !.online = recorders[i].online \/ i \in trained]]
  <2>1. ASSUME NEW i \in DOMAIN recorders PROVE q[i] \in HeldRecorders
    <3>1. (recorders[i].online \/ i \in trained) \in BOOLEAN
      BY <1>2, Zenon
    <3>2. q[i] = [recorders[i] EXCEPT !.online = recorders[i].online \/ i \in trained]
      BY <2>1, Zenon
    <3> QED BY <1>2, <2>1, <3>1, <3>2, TagTyped
  <2>2. DOMAIN q = DOMAIN recorders /\ q = [i \in DOMAIN recorders |-> q[i]] /\ recorders' = q
    BY <1>4 DEF TagOnline
  <2> HIDE DEF q
  <2> QED BY <1>1, <2>1, <2>2, RemadeTypes
<1>5. CASE UpdatePredictions
  <2> DEFINE More(r) == [r EXCEPT !.preds = r.preds \union (Max(r.preds) + 1)..day]
             q == [i \in DOMAIN recorders |->
                     IF recorders[i].online THEN More(recorders[i]) ELSE recorders[i]]
  <2>0. \A r \in HeldRecorders : More(r) \in HeldRecorders
    BY MoreTyped
  <2>2. recorders' = q
    BY <1>5 DEF UpdatePredictions
  <2> HIDE DEF More
  <2>1. \A i \in DOMAIN recorders : q[i] \in HeldRecorders
    BY <1>2, <2>0
  <2>3. DOMAIN q = DOMAIN recorders /\ q = [i \in DOMAIN recorders |-> q[i]]
    OBVIOUS
  <2> HIDE DEF q
  <2> QED BY <1>1, <2>1, <2>2, <2>3, RemadeTypes
<1> QED BY <1>3, <1>4, <1>5

LEMMA RowsTyped ==
    ASSUME OnlineTyped, NEW d \in Nat \ {0}
    PROVE  RowsFrom(d) \subseteq SignalRows
<1> DEFINE Owners(c) == {i \in Collected : c \in recorders[i].preds}
<1>1. ASSUME NEW c \in d..day, Owners(c) # {}
      PROVE  [day |-> c, segment |-> Owner(Owners(c))] \in SignalRows
  <2> DEFINE own == Owners(c)
             S == {recorders[i].segment : i \in own}
  <2>1. own \subseteq 1..Len(recorders) /\ own # {}
    BY <1>1, PlacesAre DEF Collected
  <2> HIDE DEF own
  <2>2. S \subseteq Segments /\ S # {}
    BY <2>1, PlacesAre
  <2>3. SegmentOf(LastDay) \in Nat
    BY DaysAre, SegmentBegins
  <2>4. Max(S) \in S
    BY <2>2, <2>3, MaxIsGreatest DEF Segments
  <2>5. Owner(own) \in Segments
    BY <2>2, <2>4 DEF Owner
  <2>6. c \in 1..LastDay
    BY <1>1, DaysAre
  <2> QED BY <2>5, <2>6 DEF SignalRows, own
<1>2. RowsFrom(d) = {[day |-> c, segment |-> Owner(Owners(c))] : c \in {c \in d..day : Owners(c) # {}}}
  BY Zenon DEF RowsFrom
<1> HIDE DEF Owners
<1> QED BY <1>1, <1>2

LEMMA SignalsType ==
    ASSUME OnlineTyped, PrepareSignals
    PROVE  OnlineTypeInv'
<1>1. UNCHANGED <<day, recorders, trained>>
  BY DEF PrepareSignals, recordersVars
<1>2. signals \subseteq SignalRows
  BY DEF OnlineTyped, OnlineTypeInv
<1>3. signals' \subseteq SignalRows
  <2>1. CASE signals = {}
    <3>1. signals' = RowsFrom(1)
      BY <2>1 DEF PrepareSignals
    <3> QED BY <3>1, RowsTyped
  <2>2. CASE signals # {}
    <3>1. signals' = signals \union RowsFrom(Max(SignalDays))
      BY <2>2 DEF PrepareSignals
    <3>2. SignalDays \subseteq 1..LastDay /\ SignalDays # {} /\ LastDay \in Nat
      BY <1>2, <2>2, DaysAre DEF SignalDays, SignalRows
    <3>3. SignalDays \subseteq 0..LastDay
      BY <3>2
    <3>4. Max(SignalDays) \in 1..LastDay
      <4>1. Max(SignalDays) \in SignalDays
        BY <3>2, <3>3, MaxIsGreatest, Zenon
      <4> QED BY <3>2, <4>1, Zenon
    <3>5. Max(SignalDays) \in Nat \ {0}
      BY <3>2, <3>4
    <3> QED BY <1>2, <3>1, <3>5, RowsTyped
  <2> QED BY <2>1, <2>2
<1> QED BY <1>1, <1>3 DEF OnlineTyped, OnlineTypeInv

LEMMA OnlineTypeNext ==
    ASSUME OnlineTyped, [OnlineNext]_onlineVars
    PROVE  OnlineTypeInv'
<1>1. CASE NewTradingDay
  <2>1. day' = day + 1 /\ day < LastDay /\ UNCHANGED <<recorders, trained, signals>>
    BY <1>1 DEF NewTradingDay, recordersVars
  <2>2. day' <= LastDay
    BY <2>1, DaysAre
  <2> QED BY <2>1, <2>2 DEF OnlineTyped, OnlineTypeInv
<1>2. CASE FirstTrain
  <2>1. Train(0, SegmentOf(day)) /\ UNCHANGED <<day, signals>>
    BY <1>2 DEF FirstTrain
  <2> QED BY <2>1, TrainTypes
<1>3. CASE Routine
  <2>1. UNCHANGED <<day, signals>>
    BY <1>3 DEF Routine
  <2>2. CASE Online = {}
    <3>1. trained' = {} /\ recorders' = recorders
      BY <1>3, <2>2 DEF Routine
    <3> QED BY <2>1, <3>1 DEF OnlineTyped, OnlineTypeInv
  <2>3. CASE Online # {}
    <3> DEFINE S == {recorders[i].segment : i \in Online}
    <3>1. Online \subseteq 1..Len(recorders)
      BY PlacesAre DEF Online
    <3>2. S \subseteq Segments /\ S # {}
      BY <2>3, <3>1, PlacesAre
    <3>3. SegmentOf(LastDay) \in Nat
      BY DaysAre, SegmentBegins
    <3>4. Max(S) \in S
      BY <3>2, <3>3, MaxIsGreatest DEF Segments
    <3>7. Max(S) \in Segments
      BY <3>2, <3>4, Zenon
    <3>5. Max(S) + 1 \in Nat
      BY <3>3, <3>7 DEF Segments
    <3>6. Train(Max(S) + 1, SegmentOf(day))
      BY <1>3, <2>3 DEF Routine
    <3> HIDE DEF S
    <3> QED BY <2>1, <3>5, <3>6, TrainTypes
  <2> QED BY <2>2, <2>3
<1>4. CASE RunFails
  BY <1>4 DEF RunFails, recordersVars, OnlineTyped, OnlineTypeInv
<1>5. CASE UNCHANGED onlineVars
  BY <1>5 DEF onlineVars, recordersVars, OnlineTyped, OnlineTypeInv
<1> QED
  BY <1>1, <1>2, <1>3, <1>4, <1>5, TagsType, SignalsType DEF OnlineNext

\* Recorders, the models of a run and the rows of the signals stay within the days and the
\* segments there are, whatever fails and whenever a routine is missed.
THEOREM OnlineTypeCorrect == OnlineSpec => []OnlineTypeOK
<1>1. OnlineInit => OnlineTyped
  <2> SUFFICES ASSUME OnlineInit PROVE OnlineTyped
    OBVIOUS
  <2>1. OnlineShape
    BY OnlineInits
  <2>2. recorders = <<>> /\ trained = {} /\ signals = {} /\ day <= LastDay
    BY OnlineAssumption DEF OnlineInit
  <2>3. recorders \in Seq(HeldRecorders) /\ Len(recorders) = 0
    BY <2>2, EmptySeq
  <2> QED BY <2>1, <2>2, <2>3, OnlineAssumption DEF OnlineTyped, OnlineTypeInv
<1>2. OnlineTyped /\ [OnlineNext]_onlineVars => OnlineTyped'
  <2> SUFFICES ASSUME OnlineTyped, [OnlineNext]_onlineVars PROVE OnlineShape' /\ OnlineTypeInv'
    BY DEF OnlineTyped
  <2>1. OnlineShape'
    BY OnlineShapeStep DEF OnlineTyped
  <2> QED BY <2>1, OnlineTypeNext
<1>3. OnlineTyped => OnlineTypeOK
  <2> SUFFICES ASSUME OnlineTyped PROVE OnlineTypeOK
    OBVIOUS
  <2>1. HeldRecorders \subseteq Recorders
    BY DEF HeldRecorders
  <2>2. recorders \in Seq(Recorders)
    <3>1. Len(recorders) \in Nat /\ recorders \in [1..Len(recorders) -> HeldRecorders]
      BY LenProperties DEF OnlineTyped, OnlineTypeInv
    <3>2. recorders \in [1..Len(recorders) -> Recorders]
      BY <2>1, <3>1
    <3> QED BY <3>1, <3>2
  <2>3. day \in 1..LastDay /\ served \in 0..LastDay
    BY DaysAre DEF OnlineTyped, OnlineShape
  <2> QED BY <2>2, <2>3 DEF OnlineTypeOK, OnlineTyped, OnlineTypeInv, OnlineShape
<1> QED BY <1>1, <1>2, <1>3, PTL DEF OnlineSpec

-----------------------------------------------------------------------------
(* The type invariant of PolicyTraining.                                   *)

TrainingTypeInv ==
    /\ files \in [1..MaxIters -> File]
    /\ latest \in LatestPth
    /\ kills \in 0..MaxKills

LEMMA SavedFile ==
    ASSUME TrainingShape
    PROVE  [is |-> "whole", of |-> [iter |-> iter, stop |-> stop, policy |-> policy]] \in File
BY DEF TrainingShape, File, Saved

LEMMA BeginSaveTypes ==
    ASSUME TrainingTypeInv, NEW i, BeginSave(i) \/ UNCHANGED files, UNCHANGED <<latest, kills>>
    PROVE  TrainingTypeInv'
<1>1. TornFile \in File
  BY DEF File
<1>2. files' \in [1..MaxIters -> File]
  BY <1>1 DEF TrainingTypeInv, BeginSave
<1> QED BY <1>2 DEF TrainingTypeInv

LEMMA TrainingTypeNext ==
    ASSUME TrainingShape, TrainingInv, TrainingTypeInv, [TrainingNext]_trainingVars
    PROVE  TrainingTypeInv'
<1>0. TornFile \in File /\ NoFile \in File /\ File \subseteq LatestPth
  BY DEF File, LatestPth
<1>1. ASSUME UNCHANGED <<files, latest, kills>> PROVE TrainingTypeInv'
  BY <1>1 DEF TrainingTypeInv
<1>2. CASE FitAgain \/ FitAnew
  BY <1>1, <1>2 DEF FitAgain, FitAnew, Fit, ckptVars
<1>3. CASE TrainVessel \/ ValidateUnmonitored \/ UNCHANGED trainingVars
  BY <1>1, <1>3 DEF TrainVessel, ValidateUnmonitored, trainingVars, ckptVars
<1>4. CASE \E reward \in 0..MaxReward : Validate(reward)
  BY <1>1, <1>4 DEF Validate, ckptVars
<1>5. CASE IterEnd \/ FitEnd
  BY <1>5, BeginSaveTypes DEF IterEnd, FitEnd
<1>6. CASE FileWritten
  BY <1>6, SavedFile DEF FileWritten, TrainingTypeInv
<1>7. CASE Unlink
  BY <1>0, <1>7 DEF Unlink, TrainingTypeInv
<1>8. CASE MakeLatest
  <2>0. UNCHANGED <<files, kills>>
    BY <1>8 DEF MakeLatest
  <2>1. CASE latest' = TornFile
    BY <1>0, <2>0, <2>1 DEF TrainingTypeInv
  <2>2. CASE latest' = [is |-> "link", to |-> iter]
    <3>1. iter \in 1..MaxIters
      BY <1>8, TrainingAssumption DEF MakeLatest, TrainingInv, SavesNow, TrainingShape, Saving
    <3> QED BY <2>0, <2>2, <3>1 DEF TrainingTypeInv, LatestPth
  <2>3. CASE latest' = Dangling
    BY <1>0, <2>0, <2>3 DEF TrainingTypeInv, LatestPth
  <2> QED BY <1>8, <2>1, <2>2, <2>3 DEF MakeLatest
<1>9. CASE Copied
  <2>1. iter \in 1..MaxIters /\ latest' = files[iter] /\ UNCHANGED <<files, kills>>
    BY <1>9, TrainingAssumption DEF Copied, TrainingInv, SavesNow, TrainingShape, Saving
  <2>2. files[iter] \in LatestPth
    BY <1>0, <2>1 DEF TrainingTypeInv
  <2> QED BY <2>1, <2>2 DEF TrainingTypeInv
<1>10. CASE KillFit
  BY <1>10, TrainingAssumption DEF KillFit, ckptVars, TrainingTypeInv
<1> QED
  BY <1>2, <1>3, <1>4, <1>5, <1>6, <1>7, <1>8, <1>9, <1>10 DEF TrainingNext

\* The checkpoints, latest.pth and the callbacks hold what they are declared to hold after
\* any number of fits, restores and kills: a link names an iteration there can be.
THEOREM TrainingTypeCorrect == TrainingSpec => []TrainingTypeOK
<1>1. TrainingInit => TrainingTypeInv
  BY TrainingAssumption DEF TrainingInit, TrainingTypeInv, File, LatestPth
<1>2. TrainingShape /\ TrainingInv /\ TrainingTypeInv /\ [TrainingNext]_trainingVars => TrainingTypeInv'
  BY TrainingTypeNext
<1>3. TrainingShape /\ TrainingTypeInv => TrainingTypeOK
  BY DEF TrainingShape, TrainingTypeInv, TrainingTypeOK, Rewards, TrainingRows
<1> QED BY <1>1, <1>2, <1>3, TrainingIsInductive, PTL DEF TrainingSpec

-----------------------------------------------------------------------------
(* The type invariants of NestedExecution and of the backtest.             *)

NestedTypeInv ==
    /\ parent.amount \in Amounts \union {0}
    /\ dates \in 0..MaxDates
    /\ level # "day" => dates < MaxDates

LEMMA NestedTypeNext ==
    ASSUME NestedTypeInv, [NestedNext]_nestedVars
    PROVE  NestedTypeInv'
<1>0. MaxDates \in Nat
  BY NestedAssumption
<1>1. CASE StartDay
  <2>1. level = "day" /\ level' = "coarse" /\ dates < MaxDates /\ dates' = dates
    BY <1>1 DEF StartDay
  <2>2. parent'.amount \in Amounts
    BY <1>1 DEF StartDay
  <2> QED BY <1>0, <2>1, <2>2 DEF NestedTypeInv
<1>2. CASE EndDay
  BY <1>0, <1>2 DEF EndDay, NestedTypeInv
<1>3. CASE SkipCoarse \/ SkipFine \/ UNCHANGED nestedVars
  BY <1>3 DEF SkipCoarse, SkipFine, nestedVars, NestedTypeInv
<1>4. CASE DecideCoarse
  BY <1>4 DEF DecideCoarse, InCoarseLoop, NestedTypeInv
<1>5. CASE EndCoarse
  BY <1>5 DEF EndCoarse, NestedTypeInv
<1>6. CASE ExecuteFine
  BY <1>6 DEF ExecuteFine, InFineLoop, NestedTypeInv
<1> QED
  BY <1>1, <1>2, <1>3, <1>4, <1>5, <1>6 DEF NestedNext

\* All amounts of the levels stay natural numbers, the steps within their calendars: no
\* strategy ever has less than nothing left, although it learns of its results late.
THEOREM NestedTypeCorrect == NestedSpec => []NestedTypeOK
<1>1. NestedInit => NestedInv /\ NestedTypeInv
  <2>1. NestedInit => NestedTypeInv
    BY NestedAssumption DEF NestedInit, NoParent, NestedTypeInv
  <2> QED BY <2>1, NestedInits
<1>2. NestedInv /\ NestedTypeInv /\ [NestedNext]_nestedVars => NestedInv' /\ NestedTypeInv'
  BY NestedIsInductive, NestedTypeNext
<1>3. NestedInv /\ NestedTypeInv => NestedTypeOK
  <2> SUFFICES ASSUME NestedInv, NestedTypeInv PROVE NestedTypeOK
    OBVIOUS
  <2>1. parent \in [side : {"buy", "sell"}, amount : Amounts \union {0}, first : FineBars,
                    last : FineBars, spare : {0, TradeUnit}]
    BY DEF NestedInv, NestedShape, OrderSet, NestedTypeInv
  <2>2. {cleft, fleft, cresult, fresult, part} \subseteq Nat
    BY DEF NestedInv, NestedShape
  <2> QED BY <2>1, <2>2 DEF NestedTypeOK, NestedTypeInv, NestedInv, NestedShape
<1> QED BY <1>1, <1>2, <1>3, PTL DEF NestedSpec

\* Cash, holdings and the orders of a bar stay what they are declared to be: no sale, clipped
\* by the volume and the lot as it is, leaves less than no shares of a stock.
THEOREM BacktestTypeCorrect == BacktestSpec => []BacktestTypeOK
<1>1. BacktestInv => BacktestTypeOK
  BY DEF BacktestInv
<1> QED BY <1>1, BacktestStarts, BacktestNextKeeps, PTL DEF BacktestSpec
=============================================================================
