--------------------------- MODULE TaskPoolProofs ---------------------------
(***************************************************************************)
(* What TaskPool guarantees for every set of tasks, definitions, workers   *)
(* and clients, every set of calls of run_task, and every priority bound;  *)
(* and what TrainerRM builds on it, for any trainers and workers.          *)
(***************************************************************************)
EXTENDS TrainerRM, TLAPS

-----------------------------------------------------------------------------
(* Type correctness.                                                       *)

\* Inside the with-block a process has a task and the arguments of its call;
\* at the fetch it has the arguments.
HeldOK ==
    \A w \in Worker : /\ Holding(w) => task[w] \in TaskId
                      /\ pc[w] # "idle" => call[w] \in Calls

TypeInv == TypeOK /\ HeldOK

LEMMA TypeInvInit == Init => TypeInv
  BY ConstantsAssumption
  DEF ConstantsAssumption, Init, TypeInv, TypeOK, HeldOK, Holding, Result

LEMMA TypeInvNext == TypeInv /\ [Next]_vars => TypeInv'
<1> SUFFICES ASSUME TypeInv, [Next]_vars
             PROVE  TypeInv'
  OBVIOUS
<1> USE DEF TypeInv, TypeOK, HeldOK, Holding
<1>1. ASSUME NEW c \in Client, NEW d \in TaskDef, CreateFind(c, d)
      PROVE  TypeInv'
  BY <1>1 DEF CreateFind, poolVars, workerVars
<1>2. ASSUME NEW c \in Client, NEW t \in TaskId, CreateInsert(c, t)
      PROVE  TypeInv'
  BY <1>2 DEF CreateInsert, Status, workerVars
<1>3. ASSUME NEW w \in Worker, NEW k \in Calls, StartRun(w, k)
      PROVE  TypeInv'
  BY <1>3 DEF StartRun, poolVars, clientVars
<1>4. ASSUME NEW w \in Worker, NEW t \in TaskId, Fetch(w, t)
      PROVE  TypeInv'
  BY <1>4 DEF Fetch, Status, clientVars
<1>5. ASSUME NEW w \in Worker, FetchNone(w)
      PROVE  TypeInv'
  BY <1>5 DEF FetchNone, poolVars, clientVars
<1>6. ASSUME NEW w \in Worker, FuncOk(w) \/ FuncRaise(w)
      PROVE  TypeInv'
  BY <1>6 DEF FuncOk, FuncRaise, poolVars, clientVars
<1>7. ASSUME NEW w \in Worker, CommitTaskRes(w) \/ CommitThenRaise(w)
      PROVE  TypeInv'
  <2>1. /\ task[w] \in TaskId
        /\ call[w] \in Calls
        /\ call[w].after \in {"part_done", "done"}
    BY <1>7, CallsAssumption DEF CallsAssumption, CommitTaskRes, CommitThenRaise
  <2>2. /\ status' \in [TaskId -> Status \cup {"absent", "removed"}]
        /\ res' \in [TaskId -> Result]
    BY <1>7, <2>1
    DEF CommitTaskRes, CommitThenRaise, ApplyCommit, Outcome, Result, Status
  <2>3. QED
    BY <1>7, <2>1, <2>2 DEF CommitTaskRes, CommitThenRaise, clientVars
<1>8. ASSUME NEW w \in Worker, ReturnTask(w)
      PROVE  TypeInv'
  <2>1. /\ task[w] \in TaskId
        /\ call[w].before \in {"waiting", "part_done"}
    BY <1>8, CallsAssumption DEF CallsAssumption, ReturnTask, LetGo
  <2>2. QED
    BY <1>8, <2>1 DEF ReturnTask, LetGo, Status, clientVars
<1>9. ASSUME NEW w \in Worker, Crash(w)
      PROVE  TypeInv'
  BY <1>9 DEF Crash, poolVars, clientVars
<1>10. ASSUME NEW q \in SUBSET TaskId, ResetWaiting(q)
       PROVE  TypeInv'
  BY <1>10 DEF ResetWaiting, Status, workerVars, clientVars
<1>11. ASSUME NEW t \in TaskId, Remove(t)
       PROVE  TypeInv'
  BY <1>11 DEF Remove, workerVars, clientVars
<1>12. ASSUME NEW t \in TaskId, NEW p \in 1..MaxPriority, Prioritize(t, p)
       PROVE  TypeInv'
  BY <1>12 DEF Prioritize, workerVars, clientVars
<1>13. CASE UNCHANGED vars
  BY <1>13 DEF vars, poolVars, workerVars, clientVars
<1>14. QED
  BY <1>1, <1>2, <1>3, <1>4, <1>5, <1>6, <1>7, <1>8, <1>9, <1>10, <1>11,
     <1>12, <1>13
  DEF Next, Create, RunTask, Fault, Operator

\* The state always has its type.
THEOREM TypeCorrect == Spec => []TypeOK
<1>1. TypeInv => TypeOK
  BY DEF TypeInv
<1>2. QED
  BY <1>1, TypeInvInit, TypeInvNext, PTL DEF Spec

-----------------------------------------------------------------------------
(* A status never claims a result the document does not hold.  No          *)
(* assumption on resets or lost replies: a late commit writes status and   *)
(* result together, and a task is only ever returned to "part_done" by a   *)
(* process that fetched it from there, when it had a result.               *)

ResultInv ==
    /\ ResultBacksStatus
    /\ \A w \in Worker :
          Holding(w) /\ call[w].before = "part_done" => res[task[w]] # "none"

LEMMA ResultInvInit == Init => ResultInv
  BY DEF Init, ResultInv, ResultBacksStatus, Holding

LEMMA ResultInvNext == TypeInv /\ ResultInv /\ [Next]_vars => ResultInv'
<1> SUFFICES ASSUME TypeInv, ResultInv, [Next]_vars
             PROVE  ResultInv'
  OBVIOUS
<1> USE DEF TypeInv, TypeOK, HeldOK, Holding, ResultInv, ResultBacksStatus
<1>1. ASSUME NEW c \in Client, NEW d \in TaskDef, CreateFind(c, d)
      PROVE  ResultInv'
  BY <1>1 DEF CreateFind, poolVars, workerVars
<1>2. ASSUME NEW c \in Client, NEW t \in TaskId, CreateInsert(c, t)
      PROVE  ResultInv'
  BY <1>2 DEF CreateInsert, workerVars
<1>3. ASSUME NEW w \in Worker, NEW k \in Calls, StartRun(w, k)
      PROVE  ResultInv'
  BY <1>3 DEF StartRun, poolVars, clientVars
<1>4. ASSUME NEW w \in Worker, NEW t \in TaskId, Fetch(w, t)
      PROVE  ResultInv'
  BY <1>4 DEF Fetch, Fetchable, clientVars
<1>5. ASSUME NEW w \in Worker, FetchNone(w)
      PROVE  ResultInv'
  BY <1>5 DEF FetchNone, poolVars, clientVars
<1>6. ASSUME NEW w \in Worker, FuncOk(w) \/ FuncRaise(w)
      PROVE  ResultInv'
  BY <1>6 DEF FuncOk, FuncRaise, poolVars, clientVars
<1>7. ASSUME NEW w \in Worker, CommitTaskRes(w) \/ CommitThenRaise(w)
      PROVE  ResultInv'
  <2>1. /\ task[w] \in TaskId
        /\ call[w].after \in {"part_done", "done"}
    BY <1>7, CallsAssumption
    DEF CallsAssumption, CommitTaskRes, CommitThenRaise
  <2>2. ResultBacksStatus'
    BY <1>7, <2>1
    DEF CommitTaskRes, CommitThenRaise, ApplyCommit, Outcome, Exists, Result
  <2>3. \A t \in TaskId : res[t] # "none" => res'[t] # "none"
    BY <1>7, <2>1
    DEF CommitTaskRes, CommitThenRaise, ApplyCommit, Outcome, Result
  <2>4. \A v \in Worker :
           Holding(v)' => Holding(v) /\ task'[v] = task[v] /\ call' = call
    BY <1>7 DEF CommitTaskRes, CommitThenRaise
  <2>5. QED
    BY <2>2, <2>3, <2>4
<1>8. ASSUME NEW w \in Worker, ReturnTask(w)
      PROVE  ResultInv'
  <2>1. /\ task[w] \in TaskId
        /\ call[w].before \in {"waiting", "part_done"}
        /\ call[w].before = "part_done" => res[task[w]] # "none"
    BY <1>8, CallsAssumption DEF CallsAssumption, ReturnTask, LetGo
  <2>2. QED
    BY <1>8, <2>1 DEF ReturnTask, LetGo, clientVars
<1>9. ASSUME NEW w \in Worker, Crash(w)
      PROVE  ResultInv'
  BY <1>9 DEF Crash, poolVars, clientVars
<1>10. ASSUME NEW q \in SUBSET TaskId, ResetWaiting(q)
       PROVE  ResultInv'
  BY <1>10 DEF ResetWaiting, workerVars, clientVars
<1>11. ASSUME NEW t \in TaskId, Remove(t)
       PROVE  ResultInv'
  BY <1>11 DEF Remove, workerVars, clientVars
<1>12. ASSUME NEW t \in TaskId, NEW p \in 1..MaxPriority, Prioritize(t, p)
       PROVE  ResultInv'
  BY <1>12 DEF Prioritize, workerVars, clientVars
<1>13. CASE UNCHANGED vars
  BY <1>13 DEF vars, poolVars, workerVars, clientVars
<1>14. QED
  BY <1>1, <1>2, <1>3, <1>4, <1>5, <1>6, <1>7, <1>8, <1>9, <1>10, <1>11,
     <1>12, <1>13
  DEF Next, Create, RunTask, Fault, Operator

\* "done" documents hold trained results and "part_done" documents at least
\* begun ones, under every fault the model has: task["res"] is there when
\* run_task reads it, and TrainerRM reads a finished result after wait().
THEOREM ResultsBackStatuses == Spec => []ResultBacksStatus
<1>1. ResultInv => ResultBacksStatus
  BY DEF ResultInv
<1>2. QED
  BY <1>1, TypeInvInit, TypeInvNext, ResultInvInit, ResultInvNext, PTL DEF Spec

-----------------------------------------------------------------------------
(* A task is used once, when the operator waits for live processes before  *)
(* resetting and the reply of a commit arrives.  A process that holds a    *)
(* task keeps it "running" (or the task was removed), so nobody else can   *)
(* fetch it; a trained result is only found in a document that is "done",  *)
(* which is not fetched either.                                            *)

LeaseInv ==
    /\ \A w \in Worker : Holding(w) => status[task[w]] \in {"running", "removed"}
    /\ \A v, w \in Worker : Holding(v) /\ Holding(w) /\ task[v] = task[w] => v = w
    /\ \A t \in TaskId : res[t] = "ended" => status[t] \in {"done", "removed"}
    /\ \A w \in Worker : Holding(w) => res[task[w]] # "ended"

LEMMA LeaseInvInit == Init => LeaseInv
  BY DEF Init, LeaseInv, Holding

\* All that clients and processes do, but for a commit whose reply is lost.
OrdinaryNext ==
    \/ Create
    \/ \E w \in Worker : \/ \E k \in Calls : StartRun(w, k)
                        \/ RunTask(w)
                        \/ FuncRaise(w)
                        \/ Crash(w)

LEMMA LeaseInvOrdinary == TypeInv /\ LeaseInv /\ [OrdinaryNext]_vars => LeaseInv'
<1> SUFFICES ASSUME TypeInv, LeaseInv, [OrdinaryNext]_vars
             PROVE  LeaseInv'
  OBVIOUS
<1> USE DEF TypeInv, TypeOK, HeldOK, Holding, LeaseInv
<1>1. ASSUME NEW c \in Client, NEW d \in TaskDef, CreateFind(c, d)
      PROVE  LeaseInv'
  BY <1>1 DEF CreateFind, poolVars, workerVars
<1>2. ASSUME NEW c \in Client, NEW t \in TaskId, CreateInsert(c, t)
      PROVE  LeaseInv'
  BY <1>2 DEF CreateInsert, workerVars
<1>3. ASSUME NEW w \in Worker, NEW k \in Calls, StartRun(w, k)
      PROVE  LeaseInv'
  BY <1>3 DEF StartRun, poolVars, clientVars
<1>4. ASSUME NEW w \in Worker, NEW t \in TaskId, Fetch(w, t)
      PROVE  LeaseInv'
  <2>1. status[t] \in {"waiting", "part_done"}
    BY <1>4, CallsAssumption DEF CallsAssumption, Fetch, Fetchable
  <2>2. \A v \in Worker : Holding(v) => task[v] # t
    BY <2>1
  <2>3. QED
    BY <1>4, <2>1, <2>2 DEF Fetch, clientVars
<1>5. ASSUME NEW w \in Worker, FetchNone(w)
      PROVE  LeaseInv'
  BY <1>5 DEF FetchNone, poolVars, clientVars
<1>6. ASSUME NEW w \in Worker, FuncOk(w) \/ FuncRaise(w)
      PROVE  LeaseInv'
  BY <1>6 DEF FuncOk, FuncRaise, poolVars, clientVars
<1>7. ASSUME NEW w \in Worker, CommitTaskRes(w)
      PROVE  LeaseInv'
  <2>1. /\ task[w] \in TaskId
        /\ call[w].after \in {"part_done", "done"}
    BY <1>7, CallsAssumption DEF CallsAssumption, CommitTaskRes
  <2>2. \A v \in Worker : Holding(v)' =>
           v # w /\ Holding(v) /\ task'[v] = task[v] /\ task[v] # task[w]
    BY <1>7, <2>1 DEF CommitTaskRes
  <2>3. \A t \in TaskId : t # task[w] => status'[t] = status[t] /\ res'[t] = res[t]
    BY <1>7, <2>1 DEF CommitTaskRes, ApplyCommit
  <2>4. res'[task[w]] = "ended" => status'[task[w]] \in {"done", "removed"}
    BY <1>7, <2>1 DEF CommitTaskRes, ApplyCommit, Outcome
  <2>5. QED
    BY <2>2, <2>3, <2>4
<1>8. ASSUME NEW w \in Worker, ReturnTask(w)
      PROVE  LeaseInv'
  <2>1. task[w] \in TaskId /\ res[task[w]] # "ended"
    BY <1>8 DEF ReturnTask, LetGo
  <2>2. \A v \in Worker : Holding(v)' =>
           v # w /\ Holding(v) /\ task'[v] = task[v] /\ task[v] # task[w]
    BY <1>8, <2>1 DEF ReturnTask, LetGo
  <2>3. /\ \A t \in TaskId : t # task[w] => status'[t] = status[t]
        /\ res' = res
    BY <1>8, <2>1 DEF ReturnTask, LetGo
  <2>4. QED
    BY <2>1, <2>2, <2>3
<1>9. ASSUME NEW w \in Worker, Crash(w)
      PROVE  LeaseInv'
  BY <1>9 DEF Crash, poolVars, clientVars
<1>10. CASE UNCHANGED vars
  BY <1>10 DEF vars, poolVars, workerVars, clientVars
<1>11. QED
  BY <1>1, <1>2, <1>3, <1>4, <1>5, <1>6, <1>7, <1>8, <1>9, <1>10
  DEF OrdinaryNext, Create, RunTask

LEMMA LeaseInvNext ==
  ASSUME ~ResetAnytime, ~ReplyMayBeLost
  PROVE  TypeInv /\ LeaseInv /\ [Next]_vars => LeaseInv'
<1> SUFFICES ASSUME TypeInv, LeaseInv, [Next]_vars
             PROVE  LeaseInv'
  OBVIOUS
<1>1. CASE [OrdinaryNext]_vars
  BY <1>1, LeaseInvOrdinary
<1>2. CASE Operator
  <2> USE DEF TypeInv, TypeOK, HeldOK, Holding, LeaseInv
  <2>1. ASSUME NEW q \in SUBSET TaskId, ResetWaiting(q)
        PROVE  LeaseInv'
    BY <2>1 DEF ResetWaiting, Holders, workerVars, clientVars
  <2>2. ASSUME NEW t \in TaskId, Remove(t)
        PROVE  LeaseInv'
    BY <2>2 DEF Remove, workerVars, clientVars
  <2>3. ASSUME NEW t \in TaskId, NEW p \in 1..MaxPriority, Prioritize(t, p)
        PROVE  LeaseInv'
    BY <2>3 DEF Prioritize, workerVars, clientVars
  <2>4. QED
    BY <1>2, <2>1, <2>2, <2>3 DEF Operator
<1>3. QED
  BY <1>1, <1>2 DEF Next, OrdinaryNext, Fault, CommitThenRaise

\* No two live processes work on one task, and none works on a task whose
\* training is finished: the promise of the module docstring, on the two
\* conditions without which it is broken.
THEOREM TasksUsedOnce ==
  ASSUME ~ResetAnytime, ~ReplyMayBeLost
  PROVE  Spec => []UsedOnce
<1>1. TypeInv /\ LeaseInv => UsedOnce
  BY DEF TypeInv, TypeOK, HeldOK, LeaseInv, UsedOnce, Holding
<1>2. TypeInv /\ LeaseInv /\ [Next]_vars => LeaseInv'
  BY LeaseInvNext
<1>3. QED
  BY <1>1, <1>2, TypeInvInit, TypeInvNext, LeaseInvInit, PTL DEF Spec

-----------------------------------------------------------------------------
(* The pool implements the board.  A step that moves no status across      *)
(* stages and changes no holder is a stutter of the board.                 *)

LEMMA StageValues ==
  /\ StageOf("absent") = "absent"
  /\ StageOf("waiting") = "open"
  /\ StageOf("part_done") = "open"
  /\ StageOf("running") = "claimed"
  /\ StageOf("done") = "finished"
  /\ StageOf("removed") = "withdrawn"
  BY DEF StageOf

\* Steps that leave the statuses alone and let nobody in or out.
LEMMA BoardStutter ==
  ASSUME UNCHANGED status,
         \A w \in Worker : Holding(w)' = Holding(w) /\ (Holding(w) => task'[w] = task[w])
  PROVE  UNCHANGED Board!vars
<1>1. \A t \in TaskId : Holders(t)' = Holders(t)
  BY DEF Holders
<1>2. \A t \in TaskId : StageOf(status[t])' = StageOf(status[t])
  OBVIOUS
<1>3. QED
  BY <1>1, <1>2 DEF Board!vars

\* A process that leaves the with-block was the only holder of its task, and
\* afterwards nobody is.
LEMMA BoardLetGo ==
  ASSUME TypeInv, LeaseInv, NEW w \in Worker, Holding(w),
         ~Holding(w)',
         \A v \in Worker \ {w} : Holding(v)' = Holding(v) /\ task'[v] = task[v]
  PROVE  /\ task[w] \in TaskId
         /\ Holders(task[w]) = {w}
         /\ \A t \in TaskId : Holders(t)' = IF t = task[w] THEN {} ELSE Holders(t)
  BY DEF TypeInv, HeldOK, LeaseInv, Holders

LEMMA BoardInit == Init => Board!Init
<1> SUFFICES ASSUME Init
             PROVE  Board!Init
  OBVIOUS
<1>1. \A t \in TaskId : StageOf(status[t]) = "absent" /\ Holders(t) = {}
  BY StageValues DEF Init, Holders, Holding
<1>2. QED
  BY <1>1 DEF Board!Init

LEMMA BoardOrdinary ==
  TypeInv /\ LeaseInv /\ [OrdinaryNext]_vars => [Board!Next]_Board!vars
<1> SUFFICES ASSUME TypeInv, LeaseInv, [OrdinaryNext]_vars
             PROVE  Board!Next \/ UNCHANGED Board!vars
  OBVIOUS
<1>1. ASSUME NEW c \in Client, NEW d \in TaskDef, CreateFind(c, d)
      PROVE  UNCHANGED Board!vars
  BY <1>1, BoardStutter DEF CreateFind, poolVars, workerVars, Holding
<1>2. ASSUME NEW c \in Client, NEW t \in TaskId, CreateInsert(c, t)
      PROVE  Board!Post(t)
  <2>1. \A u \in TaskId : Holders(u)' = Holders(u)
    BY <1>2 DEF CreateInsert, workerVars, Holders, Holding
  <2>2. \A u \in TaskId :
           StageOf(status[u])' = IF u = t THEN "open" ELSE StageOf(status[u])
    BY <1>2, StageValues DEF CreateInsert, TypeInv, TypeOK
  <2>3. StageOf(status[t]) = "absent"
    BY <1>2, StageValues DEF CreateInsert
  <2>4. QED
    BY <2>1, <2>2, <2>3 DEF Board!Post
<1>3. ASSUME NEW w \in Worker, NEW k \in Calls, StartRun(w, k)
      PROVE  UNCHANGED Board!vars
  BY <1>3, BoardStutter DEF StartRun, poolVars, Holding, TypeInv, TypeOK
<1>4. ASSUME NEW w \in Worker, NEW t \in TaskId, Fetch(w, t)
      PROVE  Board!Claim(w, t)
  <2>1. status[t] \in {"waiting", "part_done"}
    BY <1>4, CallsAssumption
    DEF CallsAssumption, Fetch, Fetchable, TypeInv, HeldOK
  <2>2. /\ Holders(t) = {}
        /\ \A u \in TaskId : w \notin Holders(u)
    BY <1>4, <2>1 DEF Fetch, Holders, Holding, LeaseInv
  <2>3. \A u \in TaskId : Holders(u)' = IF u = t THEN {w} ELSE Holders(u)
    BY <1>4, <2>2 DEF Fetch, Holders, Holding, TypeInv, TypeOK
  <2>4. /\ StageOf(status[t]) = "open"
        /\ \A u \in TaskId :
              StageOf(status[u])' = IF u = t THEN "claimed" ELSE StageOf(status[u])
    BY <1>4, <2>1, StageValues DEF Fetch, TypeInv, TypeOK
  <2>5. QED
    BY <2>2, <2>3, <2>4 DEF Board!Claim
<1>5. ASSUME NEW w \in Worker, FetchNone(w) \/ FuncOk(w) \/ FuncRaise(w)
      PROVE  UNCHANGED Board!vars
  BY <1>5, BoardStutter
  DEF FetchNone, FuncOk, FuncRaise, poolVars, Holding, TypeInv, TypeOK
<1>6. ASSUME NEW w \in Worker, CommitTaskRes(w) \/ ReturnTask(w)
      PROVE  \E t \in TaskId :
                Board!Finish(w, t) \/ Board!GiveBack(w, t) \/ Board!Abandon(w, t)
  <2> DEFINE t == task[w]
  <2>1. /\ Holding(w) /\ ~Holding(w)'
        /\ \A v \in Worker \ {w} : Holding(v)' = Holding(v) /\ task'[v] = task[v]
    BY <1>6 DEF CommitTaskRes, ReturnTask, LetGo, Holding, TypeInv, TypeOK
  <2>2. /\ t \in TaskId
        /\ Holders(t) = {w}
        /\ \A u \in TaskId : Holders(u)' = IF u = t THEN {} ELSE Holders(u)
    BY <2>1, BoardLetGo
  <2>3. CASE status[t] = "running"
    <3>1. PICK s \in {"waiting", "part_done", "done"} :
             status' = [status EXCEPT ![t] = s]
      BY <1>6, <2>2, <2>3, CallsAssumption
      DEF CallsAssumption, CommitTaskRes, ApplyCommit, ReturnTask, LetGo, Exists, Status,
          TypeInv, HeldOK
    <3>2. /\ StageOf(status[t]) = "claimed"
          /\ \A u \in TaskId : StageOf(status[u])' =
                IF u = t THEN StageOf(s) ELSE StageOf(status[u])
      BY <2>2, <2>3, <3>1, StageValues DEF TypeInv, TypeOK
    <3>3. CASE s = "done"
      BY <2>2, <3>2, <3>3, StageValues DEF Board!Finish
    <3>4. CASE s # "done"
      BY <2>2, <3>1, <3>2, <3>4, StageValues DEF Board!GiveBack
    <3>5. QED
      BY <3>3, <3>4
  <2>4. CASE status[t] # "running"
    <3>1. status' = status
      BY <1>6, <2>1, <2>2, <2>4
      DEF CommitTaskRes, ApplyCommit, ReturnTask, LetGo, Exists, Status, LeaseInv
    <3>2. \A u \in TaskId : StageOf(status[u])' = StageOf(status[u])
      BY <3>1
    <3>3. QED
      BY <2>2, <3>2 DEF Board!Abandon
  <2>5. QED
    BY <2>3, <2>4
<1>7. ASSUME NEW w \in Worker, Crash(w)
      PROVE  UNCHANGED Board!vars \/ \E t \in TaskId : Board!Abandon(w, t)
  <2>1. CASE ~Holding(w)
    BY <1>7, <2>1, BoardStutter DEF Crash, poolVars, Holding, TypeInv, TypeOK
  <2>2. CASE Holding(w)
    <3>1. /\ ~Holding(w)'
          /\ \A v \in Worker \ {w} : Holding(v)' = Holding(v) /\ task'[v] = task[v]
      BY <1>7 DEF Crash, Holding, TypeInv, TypeOK
    <3>2. /\ task[w] \in TaskId
          /\ Holders(task[w]) = {w}
          /\ \A u \in TaskId : Holders(u)' = IF u = task[w] THEN {} ELSE Holders(u)
      BY <2>2, <3>1, BoardLetGo
    <3>3. \A u \in TaskId : StageOf(status[u])' = StageOf(status[u])
      BY <1>7 DEF Crash, poolVars
    <3>4. Board!Abandon(w, task[w])
      BY <3>2, <3>3 DEF Board!Abandon
    <3>5. QED
      BY <3>2, <3>4
  <2>3. QED
    BY <2>1, <2>2
<1>8. CASE UNCHANGED vars
  BY <1>8, BoardStutter DEF vars, poolVars, workerVars, Holding
<1>9. QED
  BY <1>1, <1>2, <1>3, <1>4, <1>5, <1>6, <1>7, <1>8
  DEF OrdinaryNext, Create, RunTask, Board!Next

LEMMA BoardNext ==
  ASSUME ~ResetAnytime, ~ReplyMayBeLost
  PROVE  TypeInv /\ LeaseInv /\ [Next]_vars => [Board!Next]_Board!vars
<1> SUFFICES ASSUME TypeInv, LeaseInv, [Next]_vars
             PROVE  Board!Next \/ UNCHANGED Board!vars
  OBVIOUS
<1>1. CASE [OrdinaryNext]_vars
  BY <1>1, BoardOrdinary
<1>2. ASSUME NEW q \in SUBSET TaskId, ResetWaiting(q)
      PROVE  \E I \in SUBSET TaskId : Board!Reopen(I)
  <2> DEFINE I == {t \in q : status[t] = "running"}
  <2>1. \A t \in TaskId : Holders(t)' = Holders(t)
    BY <1>2 DEF ResetWaiting, workerVars, Holders, Holding
  <2>2. \A t \in I : StageOf(status[t]) = "claimed" /\ Holders(t) = {}
    BY <1>2, StageValues DEF ResetWaiting
  <2>3. \A t \in TaskId :
           StageOf(status[t])' = IF t \in I THEN "open" ELSE StageOf(status[t])
    BY <1>2, StageValues DEF ResetWaiting
  <2>4. Board!Reopen(I)
    BY <2>1, <2>2, <2>3 DEF Board!Reopen
  <2>5. QED
    BY <2>4
<1>3. ASSUME NEW t \in TaskId, Remove(t)
      PROVE  Board!Withdraw(t)
  <2>1. \A u \in TaskId : Holders(u)' = Holders(u)
    BY <1>3 DEF Remove, workerVars, Holders, Holding
  <2>2. /\ StageOf(status[t]) # "absent"
        /\ \A u \in TaskId :
              StageOf(status[u])' = IF u = t THEN "withdrawn" ELSE StageOf(status[u])
    BY <1>3, StageValues DEF Remove, Exists, Status, TypeInv, TypeOK
  <2>3. QED
    BY <2>1, <2>2 DEF Board!Withdraw
<1>4. ASSUME NEW t \in TaskId, NEW p \in 1..MaxPriority, Prioritize(t, p)
       PROVE  UNCHANGED Board!vars
  BY <1>4, BoardStutter DEF Prioritize, workerVars, Holding
<1>5. QED
  BY <1>1, <1>2, <1>3, <1>4 DEF Next, OrdinaryNext, Fault, Operator, CommitThenRaise, Board!Next

\* The pool implements TaskBoard: one owner at a time, a finished task stays
\* finished, and a task left "running" by a dead process is only reopened.
THEOREM PoolImplementsBoard ==
  ASSUME ~ResetAnytime, ~ReplyMayBeLost
  PROVE  Spec => ImplementsBoard
<1>1. TypeInv /\ LeaseInv /\ [Next]_vars => LeaseInv'
  BY LeaseInvNext
<1>2. TypeInv /\ LeaseInv /\ [Next]_vars => [Board!Next]_Board!vars
  BY BoardNext
<1>3. QED
  BY <1>1, <1>2, BoardInit, TypeInvInit, TypeInvNext, LeaseInvInit, PTL
  DEF Spec, ImplementsBoard, Board!Spec

\* A task that is done stays done until its document is removed: nobody trains it again.
DoneStaysDone ==
    [][\A t \in TaskId : status[t] = "done" => status'[t] \in {"done", "removed"}]_vars

\* The board never moves a finished item but to withdraw it, so neither does the pool,
\* late commits and late returns of tasks included.
THEOREM DoneIsForGood ==
  ASSUME ~ResetAnytime, ~ReplyMayBeLost
  PROVE  Spec => DoneStaysDone
<1>1. TypeInv /\ LeaseInv /\ [Next]_vars => LeaseInv'
  BY LeaseInvNext
<1>2. TypeInv /\ LeaseInv /\ [Next]_vars =>
         [\A t \in TaskId : status[t] = "done" => status'[t] \in {"done", "removed"}]_vars
  <2> SUFFICES ASSUME TypeInv, LeaseInv, [Next]_vars, NEW t \in TaskId, status[t] = "done"
               PROVE  status'[t] \in {"done", "removed"}
    OBVIOUS
  <2>1. StageOf(status[t]) = "finished"
    BY StageValues
  <2>2. StageOf(status[t])' \in {"finished", "withdrawn"}
    <3>1. Board!Next \/ UNCHANGED Board!vars
      BY BoardNext
    <3>2. CASE UNCHANGED Board!vars
      BY <2>1, <3>2 DEF Board!vars
    <3>3. ASSUME NEW u \in TaskId, Board!Post(u) \/ Board!Withdraw(u)
          PROVE  StageOf(status[t])' \in {"finished", "withdrawn"}
      BY <2>1, <3>3 DEF Board!Post, Board!Withdraw
    <3>4. ASSUME NEW w \in Worker, NEW u \in TaskId,
                 \/ Board!Claim(w, u) \/ Board!Finish(w, u)
                 \/ Board!GiveBack(w, u) \/ Board!Abandon(w, u)
          PROVE  StageOf(status[t])' \in {"finished", "withdrawn"}
      BY <2>1, <3>4 DEF Board!Claim, Board!Finish, Board!GiveBack, Board!Abandon
    <3>5. ASSUME NEW I \in SUBSET TaskId, Board!Reopen(I)
          PROVE  StageOf(status[t])' \in {"finished", "withdrawn"}
      BY <2>1, <3>5 DEF Board!Reopen
    <3>6. QED
      BY <3>1, <3>2, <3>3, <3>4, <3>5 DEF Board!Next
  <2>3. status'[t] \in Status \union {"absent", "removed"}
    <3>1. TypeInv'
      BY TypeInvNext
    <3>2. QED
      BY <3>1 DEF TypeInv, TypeOK
  <2>4. QED
    BY <2>2, <2>3, StageValues DEF Status
<1>3. QED
  BY <1>1, <1>2, TypeInvInit, TypeInvNext, LeaseInvInit, PTL DEF Spec, DoneStaysDone

-----------------------------------------------------------------------------
(* What holds whatever the operator does and whatever replies are lost.    *)

\* A process that lets go of a task, short of being killed, takes it out of
\* "running".
THEOREM LeasesAreReturned == Spec => LeaseReturned
<1>1. ASSUME TypeInv, Next, NEW w \in Worker, Holding(w), ~Holding(w)'
      PROVE  status'[task[w]] # "running" \/ Crash(w)
  <2> USE DEF TypeInv, TypeOK, HeldOK, Holding
  <2>1. ASSUME NEW v \in Worker, CommitTaskRes(v)
        PROVE  status'[task[w]] # "running"
    <3>1. v = w
      BY <1>1, <2>1 DEF CommitTaskRes
    <3>2. call[w].after \in {"part_done", "done"} /\ task[w] \in TaskId
      BY <1>1, CallsAssumption DEF CallsAssumption
    <3>3. QED
      BY <1>1, <2>1, <3>1, <3>2 DEF CommitTaskRes, ApplyCommit, Exists, Status
  <2>2. ASSUME NEW v \in Worker, ReturnTask(v)
        PROVE  status'[task[w]] # "running"
    <3>1. v = w
      BY <1>1, <2>2 DEF ReturnTask, LetGo
    <3>2. call[w].before \in {"waiting", "part_done"} /\ task[w] \in TaskId
      BY <1>1, CallsAssumption DEF CallsAssumption
    <3>3. QED
      BY <1>1, <2>2, <3>1, <3>2 DEF ReturnTask, LetGo, Exists, Status
  <2>3. ASSUME NEW v \in Worker, Crash(v)
        PROVE  Crash(w)
    <3>1. v = w
      BY <1>1, <2>3 DEF Crash
    <3>2. QED
      BY <2>3, <3>1
  <2>4. ASSUME NEW v \in Worker,
               \/ \E k \in Calls : StartRun(v, k)
               \/ \E t \in TaskId : Fetch(v, t)
               \/ FetchNone(v) \/ FuncOk(v) \/ FuncRaise(v) \/ CommitThenRaise(v)
        PROVE  FALSE
    BY <1>1, <2>4 DEF StartRun, Fetch, FetchNone, FuncOk, FuncRaise, CommitThenRaise
  <2>5. CASE Create
    BY <1>1, <2>5 DEF Create, CreateFind, CreateInsert, workerVars
  <2>6. CASE Operator
    BY <1>1, <2>6 DEF Operator, ResetWaiting, Remove, Prioritize, workerVars
  <2>7. QED
    BY <1>1, <2>1, <2>2, <2>3, <2>4, <2>5, <2>6 DEF Next, RunTask, Fault
<1>2. TypeInv /\ [Next]_vars =>
         [\A w \in Worker :
             Holding(w) /\ ~Holding(w)' => status'[task[w]] # "running" \/ Crash(w)]_vars
  BY <1>1
<1>3. QED
  BY <1>2, TypeInvInit, TypeInvNext, PTL DEF Spec, LeaseReturned

(***************************************************************************)
(* create_task looks up and inserts in two calls; with one client at a     *)
(* time nothing comes between them that could add its definition.          *)
(***************************************************************************)
DefsInv ==
    /\ NoDuplicateDefs
    /\ \A c \in Client : cpc[c] = "insert" => ~Known(cdef[c])

\* No document comes into being but by insert_task_def.
LEMMA ExistsBack ==
  ASSUME TypeInv, NEW w \in Worker, NEW t \in TaskId, Exists(t)',
         \/ \E k \in Calls : StartRun(w, k)
         \/ RunTask(w) \/ Fault(w)
  PROVE  Exists(t)
<1> USE DEF TypeInv, TypeOK, HeldOK, Holding, Exists
<1>1. CASE \E u \in TaskId : Fetch(w, u)
  BY <1>1, CallsAssumption DEF CallsAssumption, Fetch, Fetchable, Status
<1>2. CASE CommitTaskRes(w) \/ CommitThenRaise(w)
  BY <1>2 DEF CommitTaskRes, CommitThenRaise, ApplyCommit
<1>3. CASE ReturnTask(w)
  BY <1>3 DEF ReturnTask, LetGo
<1>4. CASE \/ \E k \in Calls : StartRun(w, k)
           \/ FetchNone(w) \/ FuncOk(w) \/ FuncRaise(w) \/ Crash(w)
  BY <1>4 DEF StartRun, FetchNone, FuncOk, FuncRaise, Crash, poolVars
<1>5. QED
  BY <1>1, <1>2, <1>3, <1>4 DEF RunTask, Fault

LEMMA DefsInvNext ==
  ASSUME \A c, e \in Client : c = e
  PROVE  TypeInv /\ DefsInv /\ [Next]_vars => DefsInv'
<1> SUFFICES ASSUME TypeInv, DefsInv, [Next]_vars
             PROVE  DefsInv'
  OBVIOUS
<1>1. ASSUME UNCHANGED <<def, clientVars>>, \A t \in TaskId : Exists(t)' => Exists(t)
      PROVE  DefsInv'
  BY <1>1 DEF DefsInv, NoDuplicateDefs, Known, clientVars
<1>2. ASSUME NEW c \in Client, NEW d \in TaskDef, CreateFind(c, d)
      PROVE  DefsInv'
  BY <1>2 DEF CreateFind, DefsInv, NoDuplicateDefs, Known, Exists, poolVars, TypeInv, TypeOK
<1>3. ASSUME NEW c \in Client, NEW t \in TaskId, CreateInsert(c, t)
      PROVE  DefsInv'
  <2>1. \A u \in TaskId : Exists(u)' /\ u # t => Exists(u) /\ def'[u] = def[u] /\ def[u] # cdef[c]
    BY <1>3 DEF CreateInsert, DefsInv, Known, Exists, TypeInv, TypeOK
  <2>2. def'[t] = cdef[c]
    BY <1>3 DEF CreateInsert, TypeInv, TypeOK
  <2>3. NoDuplicateDefs'
    BY <2>1, <2>2 DEF DefsInv, NoDuplicateDefs
  <2>4. \A e \in Client : cpc'[e] # "insert"
    BY <1>3 DEF CreateInsert, TypeInv, TypeOK
  <2>5. QED
    BY <2>3, <2>4 DEF DefsInv
<1>4. ASSUME NEW w \in Worker,
             \/ \E k \in Calls : StartRun(w, k)
             \/ RunTask(w) \/ Fault(w)
      PROVE  DefsInv'
  <2>1. UNCHANGED <<def, clientVars>>
    BY <1>4 DEF StartRun, RunTask, Fetch, FetchNone, FuncOk, CommitTaskRes, ReturnTask, LetGo,
                Fault, FuncRaise, CommitThenRaise, Crash, poolVars
  <2>2. QED
    BY <1>1, <1>4, <2>1, ExistsBack
<1>5. CASE Operator
  <2>1. UNCHANGED <<def, clientVars>>
    BY <1>5 DEF Operator, ResetWaiting, Remove, Prioritize
  <2>2. \A t \in TaskId : Exists(t)' => Exists(t)
    BY <1>5 DEF Operator, ResetWaiting, Remove, Prioritize, Exists, Status, TypeInv, TypeOK
  <2>3. QED
    BY <1>1, <2>1, <2>2
<1>6. CASE UNCHANGED vars
  BY <1>1, <1>6 DEF vars, poolVars, Exists
<1>7. QED
  BY <1>2, <1>3, <1>4, <1>5, <1>6 DEF Next, Create

\* create_task with one client at a time never stores a definition twice, also
\* when documents are removed and tasks run, return and fail meanwhile.
THEOREM NoDefinitionTwice ==
  ASSUME \A c, e \in Client : c = e
  PROVE  Spec => []NoDuplicateDefs
<1>1. Init => DefsInv
  BY DEF Init, DefsInv, NoDuplicateDefs, Exists, Status
<1>2. TypeInv /\ DefsInv /\ [Next]_vars => DefsInv'
  BY DefsInvNext
<1>3. DefsInv => NoDuplicateDefs
  BY DEF DefsInv
<1>4. QED
  BY <1>1, <1>2, <1>3, TypeInvInit, TypeInvNext, PTL DEF Spec

-----------------------------------------------------------------------------
(* Trainers on the pool.  A step of a trainer, of a worker() or of a       *)
(* failure is an ordinary step of the pool, so what holds there holds here. *)

TrainerTypeInv == TypeInv /\ TrainerTypeOK

LEMMA TrainerUsesPool ==
  TrainerTypeOK /\ [TrainerNext]_allVars => [OrdinaryNext]_vars
<1> SUFFICES ASSUME TrainerTypeOK, [TrainerNext]_allVars
             PROVE  [OrdinaryNext]_vars
  OBVIOUS
<1>1. ASSUME NEW x \in Trainer, TrainerStep(x)
      PROVE  [OrdinaryNext]_vars
  <2>1. x \in Worker /\ x \in Client
    BY TrainerAssumption DEF TrainerAssumption
  <2>2. CASE CallRunTask(x)
    <3>1. ids[x] \in SUBSET TaskId
      BY DEF TrainerTypeOK
    <3>2. CallOf(x) \in Calls
      BY <3>1, TrainerAssumption DEF TrainerAssumption, CallOf
    <3>3. QED
      BY <2>1, <2>2, <3>2 DEF CallRunTask, OrdinaryNext
  <2>3. CASE \/ \E d \in TaskDef : LookUp(x, d)
             \/ \E t \in TaskId : Insert(x, t)
    BY <2>1, <2>3 DEF LookUp, Insert, OrdinaryNext, Create
  <2>4. CASE StepRunTask(x) \/ RunTaskReturns(x) \/ RunTaskRaises(x)
    BY <2>1, <2>4 DEF StepRunTask, RunTaskReturns, RunTaskRaises, OrdinaryNext, RunTask
  <2>5. CASE \/ \E d \in TaskDef, t \in TaskId : Reuse(x, d, t)
             \/ \E t \in TaskId : ReadResult(x, t)
             \/ Created(x) \/ WaitOver(x) \/ Collected(x)
    BY <2>5 DEF Reuse, ReadResult, Created, WaitOver, Collected
  <2>6. QED
    BY <1>1, <2>2, <2>3, <2>4, <2>5 DEF TrainerStep
<1>2. ASSUME NEW w \in Worker \ Trainer, WorkerStep(w)
      PROVE  [OrdinaryNext]_vars
  BY <1>2, TrainerAssumption DEF TrainerAssumption, WorkerStep, OrdinaryNext
<1>3. ASSUME NEW w \in Worker, Raise(w) \/ Killed(w)
      PROVE  [OrdinaryNext]_vars
  BY <1>3 DEF Raise, Killed, OrdinaryNext
<1>4. CASE UNCHANGED allVars
  BY <1>4 DEF allVars
<1>5. QED
  BY <1>1, <1>2, <1>3, <1>4 DEF TrainerNext

LEMMA TrainerTypeInit == TrainerInit => TrainerTypeInv
  BY TypeInvInit, TrainerAssumption
  DEF TrainerAssumption, TrainerInit, TrainerTypeInv, TypeInv, TrainerTypeOK, Phases

LEMMA TrainerTypeNext == TrainerTypeInv /\ [TrainerNext]_allVars => TrainerTypeInv'
<1> SUFFICES ASSUME TrainerTypeInv, [TrainerNext]_allVars
             PROVE  TrainerTypeInv'
  OBVIOUS
<1>1. TypeInv'
  <2>1. [Next]_vars
    BY TrainerUsesPool DEF TrainerTypeInv, OrdinaryNext, Next, Fault
  <2>2. QED
    BY <2>1, TypeInvNext DEF TrainerTypeInv
<1>2. ASSUME NEW x \in Trainer, TrainerStep(x)
      PROVE  TrainerTypeInv'
  <2> USE DEF TrainerTypeInv, TrainerTypeOK, Goto, Phases
  <2>1. CASE \E d \in TaskDef, t \in TaskId : Reuse(x, d, t)
    BY <1>1, <2>1 DEF Reuse, TypeInv
  <2>2. CASE \E t \in TaskId : Insert(x, t)
    BY <1>1, <2>2 DEF Insert, TypeInv
  <2>3. CASE \E t \in TaskId : ReadResult(x, t)
    BY <1>1, <2>3 DEF ReadResult, TypeInv
  <2>4. CASE Created(x) \/ RunTaskReturns(x) \/ RunTaskRaises(x) \/ WaitOver(x)
    BY <1>1, <2>4 DEF Created, RunTaskReturns, RunTaskRaises, WaitOver, TypeInv
  <2>5. CASE Collected(x)
    <3>1. delay[x] \in BOOLEAN
      BY TrainerAssumption DEF TrainerAssumption
    <3>2. \E p \in {"trained", "wait", "end"} : Goto(x, p)
      BY <2>5, <3>1, TrainerAssumption DEF TrainerAssumption, Collected
    <3>3. QED
      BY <1>1, <2>5, <3>2 DEF Collected, TypeInv
  <2>6. CASE (\E d \in TaskDef : LookUp(x, d)) \/ CallRunTask(x) \/ StepRunTask(x)
    BY <1>1, <2>6 DEF LookUp, CallRunTask, StepRunTask, trainerVars, TypeInv
  <2>7. QED
    BY <1>2, <2>1, <2>2, <2>3, <2>4, <2>5, <2>6 DEF TrainerStep
<1>3. ASSUME NEW w \in Worker, WorkerStep(w) \/ Raise(w) \/ Killed(w)
      PROVE  TrainerTypeInv'
  BY <1>1, <1>3 DEF WorkerStep, Raise, Killed, Goto, Phases, trainerVars, TrainerTypeInv,
                    TrainerTypeOK, TypeInv
<1>4. CASE UNCHANGED allVars
  BY <1>1, <1>4 DEF allVars, trainerVars, TrainerTypeInv, TrainerTypeOK, TypeInv
<1>5. QED
  BY <1>2, <1>3, <1>4 DEF TrainerNext

\* Without an operator documents stay, and done ones stay done.
LEMMA DoneStays ==
  ASSUME TypeInv, LeaseInv, [OrdinaryNext]_vars, NEW t \in TaskId, Exists(t)
  PROVE  Exists(t)' /\ (status[t] = "done" => status'[t] = "done")
<1> USE DEF TypeInv, TypeOK, HeldOK, Holding, Exists
<1>1. CASE Create
  BY <1>1 DEF Create, CreateFind, CreateInsert, Status, poolVars
<1>2. ASSUME NEW w \in Worker, NEW u \in TaskId, Fetch(w, u)
      PROVE  Exists(t)' /\ (status[t] = "done" => status'[t] = "done")
  BY <1>2, CallsAssumption DEF CallsAssumption, Fetch, Fetchable, Status
<1>3. ASSUME NEW w \in Worker, CommitTaskRes(w) \/ ReturnTask(w)
      PROVE  Exists(t)' /\ (status[t] = "done" => status'[t] = "done")
  <2>1. /\ status[task[w]] \in {"running", "removed"}
        /\ call[w].after \in {"part_done", "done"}
        /\ call[w].before \in {"waiting", "part_done"}
    BY <1>3, CallsAssumption DEF CallsAssumption, LeaseInv, CommitTaskRes, ReturnTask, LetGo
  <2>2. QED
    BY <1>3, <2>1 DEF CommitTaskRes, ApplyCommit, ReturnTask, LetGo, Status
<1>4. ASSUME NEW w \in Worker,
             \/ \E k \in Calls : StartRun(w, k)
             \/ FetchNone(w) \/ FuncOk(w) \/ FuncRaise(w) \/ Crash(w)
      PROVE  UNCHANGED status
  BY <1>4 DEF StartRun, FetchNone, FuncOk, FuncRaise, Crash, poolVars
<1>5. CASE UNCHANGED vars
  BY <1>5 DEF vars, poolVars
<1>6. QED
  BY <1>1, <1>2, <1>3, <1>4, <1>5 DEF OrdinaryNext, RunTask

(***************************************************************************)
(* What a trainer knows: its tasks are in the pool, and once it has waited *)
(* for them they are done, which they stay.                                *)
(***************************************************************************)
WaitedFor(x) == phase[x] = "trained" \/ (phase[x] = "collect" /\ ~delay[x])

TrainerInv ==
    \A x \in Trainer :
        /\ \A t \in ids[x] : Exists(t)
        /\ unread[x] \subseteq ids[x]
        /\ WaitedFor(x) => \A t \in ids[x] : status[t] = "done"
        /\ phase[x] = "keyerror" => delay[x]

TrainerAllInv == TrainerTypeInv /\ ResultInv /\ LeaseInv /\ TrainerInv

LEMMA TrainerInvInit == TrainerInit => TrainerAllInv
  BY TrainerTypeInit, ResultInvInit, LeaseInvInit
  DEF TrainerInit, TrainerAllInv, TrainerInv, WaitedFor

LEMMA TrainerInvNext == TrainerAllInv /\ [TrainerNext]_allVars => TrainerInv'
<1> SUFFICES ASSUME TrainerAllInv, [TrainerNext]_allVars
             PROVE  TrainerInv'
  OBVIOUS
<1> USE DEF TrainerAllInv, TrainerTypeInv, TrainerInv, WaitedFor
<1>1. \A t \in TaskId : Exists(t) => Exists(t)' /\ (status[t] = "done" => status'[t] = "done")
  BY TrainerUsesPool, DoneStays
<1>2. \A x \in Trainer : ids[x] \subseteq TaskId
  BY DEF TrainerTypeOK
<1>3. ASSUME NEW x \in Trainer,
             \A y \in Trainer : /\ ids'[y] = ids[y]
                                /\ unread'[y] \subseteq ids[y]
                                /\ delay'[y] = delay[y]
                                /\ y # x => phase'[y] = phase[y],
             \/ phase'[x] = phase[x]
             \/ phase'[x] \notin {"trained", "collect", "keyerror"}
             \/ phase'[x] = "collect" /\ delay[x]
             \/ phase'[x] \in {"collect", "trained"} /\ \A t \in ids[x] : status[t] = "done"
             \/ phase'[x] = "keyerror" /\ delay[x]
      PROVE  TrainerInv'
  <2>1. ASSUME NEW y \in Trainer
        PROVE  /\ \A t \in ids'[y] : Exists(t)'
               /\ unread'[y] \subseteq ids'[y]
               /\ phase'[y] = "keyerror" => delay'[y]
    BY <1>1, <1>2, <1>3
  <2>2. ASSUME NEW y \in Trainer, WaitedFor(y)', NEW t \in ids'[y]
        PROVE  status'[t] = "done"
    <3>1. t \in TaskId /\ Exists(t)
      BY <1>2, <1>3, <2>2
    <3>2. status[t] = "done"
      BY <1>3, <2>2
    <3>3. QED
      BY <1>1, <3>1, <3>2
  <2>3. QED
    BY <2>1, <2>2
<1>4. ASSUME NEW x \in Trainer, TrainerStep(x)
      PROVE  TrainerInv'
  <2> USE DEF TrainerTypeOK, Goto
  <2>1. ASSUME NEW d \in TaskDef, NEW t \in TaskId, Reuse(x, d, t)
        PROVE  TrainerInv'
    BY <1>1, <1>2, <2>1 DEF Reuse
  <2>2. ASSUME NEW t \in TaskId, Insert(x, t)
        PROVE  TrainerInv'
    <3>1. Exists(t)'
      BY <2>2 DEF Insert, CreateInsert, Exists, Status, TypeInv, TypeOK
    <3>2. QED
      BY <1>1, <1>2, <2>2, <3>1 DEF Insert
  <2>3. ASSUME NEW t \in TaskId, ReadResult(x, t)
        PROVE  TrainerInv'
    <3>1. ~delay[x] => status[t] = "done"
      BY <2>3 DEF ReadResult
    <3>2. ~delay[x] => res[t] # "none"
      BY <3>1 DEF ResultInv, ResultBacksStatus
    <3>3. QED
      BY <1>3, <2>3, <3>2 DEF ReadResult
  <2>4. CASE WaitOver(x)
    <3>1. \A t \in ids[x] : status[t] = "done"
      BY <1>2, <2>4 DEF WaitOver, Undone, Exists, Status
    <3>2. QED
      BY <1>3, <2>4, <3>1 DEF WaitOver
  <2>5. CASE Collected(x)
    <3>1. delay[x] \in BOOLEAN
      BY TrainerAssumption DEF TrainerAssumption
    <3>2. \/ ~delay[x] /\ Goto(x, "trained")
          \/ delay[x] /\ (Goto(x, "wait") \/ Goto(x, "end"))
      BY <2>5, <3>1, TrainerAssumption DEF TrainerAssumption, Collected
    <3>3. QED
      BY <1>3, <2>5, <3>2 DEF Collected
  <2>6. CASE RunTaskReturns(x)
    BY <1>3, <2>6 DEF RunTaskReturns
  <2>7. CASE Created(x) \/ RunTaskRaises(x)
    BY <1>3, <2>7 DEF Created, RunTaskRaises
  <2>8. CASE (\E d \in TaskDef : LookUp(x, d)) \/ CallRunTask(x) \/ StepRunTask(x)
    BY <1>3, <2>8 DEF LookUp, CallRunTask, StepRunTask, trainerVars
  <2>9. QED
    BY <1>4, <2>1, <2>2, <2>3, <2>4, <2>5, <2>6, <2>7, <2>8 DEF TrainerStep
<1>5. ASSUME NEW w \in Worker, Killed(w), w \in Trainer
      PROVE  TrainerInv'
  BY <1>3, <1>5 DEF Killed, Goto, TrainerTypeOK
<1>6. ASSUME UNCHANGED <<delay, phase, ids, unread>>
      PROVE  TrainerInv'
  BY <1>1, <1>2, <1>6
<1>7. QED
  BY <1>4, <1>5, <1>6 DEF TrainerNext, WorkerStep, Raise, Killed, allVars, trainerVars

LEMMA TrainerAllNext == TrainerAllInv /\ [TrainerNext]_allVars => TrainerAllInv'
<1> SUFFICES ASSUME TrainerAllInv, [TrainerNext]_allVars
             PROVE  TrainerAllInv'
  OBVIOUS
<1>1. [OrdinaryNext]_vars
  BY TrainerUsesPool DEF TrainerAllInv, TrainerTypeInv
<1>2. [Next]_vars
  BY <1>1 DEF OrdinaryNext, Next, Fault
<1>3. ResultInv'
  BY <1>2, ResultInvNext DEF TrainerAllInv, TrainerTypeInv
<1>4. LeaseInv'
  BY <1>1, LeaseInvOrdinary DEF TrainerAllInv, TrainerTypeInv
<1>5. TrainerTypeInv'
  BY TrainerTypeNext DEF TrainerAllInv
<1>6. QED
  BY <1>3, <1>4, <1>5, TrainerInvNext DEF TrainerAllInv

\* What train() and end_train() return has been trained, by whichever of the
\* trainers and workers on the pool, and however many of them raised or died.
THEOREM TrainedIsDone == TrainerSpec => []TrainedMeansDone
<1>1. TrainerAllInv => TrainedMeansDone
  BY DEF TrainerAllInv, TrainerTypeInv, TrainerTypeOK, TrainerInv, WaitedFor, ResultInv,
         ResultBacksStatus, TrainedMeansDone
<1>2. QED
  BY <1>1, TrainerInvInit, TrainerAllNext, PTL DEF TrainerSpec

\* TrainerRM.train finds a result in every task it reads, also beside trainers
\* that delay.
THEOREM ResultsAreThere == TrainerSpec => []ResultIsThere
<1>1. TrainerAllInv => ResultIsThere
  BY DEF TrainerAllInv, TrainerInv, ResultIsThere
<1>2. QED
  BY <1>1, TrainerInvInit, TrainerAllNext, PTL DEF TrainerSpec

\* Trainers and workers are clients of the pool that never reset it: each of their steps,
\* raising and dying ones too, is one the pool allows.
THEOREM TrainersUsePool == TrainerSpec => Spec
<1>1. TrainerInit => Init
  BY DEF TrainerInit
<1>2. TrainerAllInv /\ [TrainerNext]_allVars => [Next]_vars
  BY TrainerUsesPool DEF TrainerAllInv, TrainerTypeInv, OrdinaryNext, Next, Fault
<1>3. QED
  BY <1>1, <1>2, TrainerInvInit, TrainerAllNext, PTL DEF TrainerSpec, Spec

\* With trainers and workers alone on the pool, a task is used once, its result backs its
\* status, and the pool is the board to them, whoever raises or dies: it takes an operator
\* or a commit whose reply is lost to break the promise of the module docstring.
THEOREM TrainersKeepPromise == TrainerSpec => [](UsedOnce /\ ResultBacksStatus) /\ ImplementsBoard
<1>1. TrainerAllInv => UsedOnce /\ ResultBacksStatus
  BY DEF TrainerAllInv, TrainerTypeInv, TypeInv, TypeOK, HeldOK, LeaseInv, UsedOnce, Holding, ResultInv
<1>2. TrainerAllInv /\ [TrainerNext]_allVars => [Board!Next]_Board!vars
  BY TrainerUsesPool, BoardOrdinary DEF TrainerAllInv, TrainerTypeInv
<1>3. TrainerInit => Board!Init
  BY BoardInit DEF TrainerInit
<1>4. QED
  BY <1>1, <1>2, <1>3, TrainerInvInit, TrainerAllNext, PTL
  DEF TrainerSpec, ImplementsBoard, Board!Spec
=============================================================================
