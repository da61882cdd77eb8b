------------------------------ MODULE TrainerRM ------------------------------
(***************************************************************************)
(* TrainerRM and DelayTrainerRM of quant_master/model/trainer.py over a    *)
(* shared task pool: train() creates its tasks, runs those nobody else     *)
(* fetched, (waits for the others,) and reads every result back;           *)
(* DelayTrainerRM only begins its tasks in train() and finishes them, and  *)
(* waits, in end_train().  Several trainers, and worker() processes, work  *)
(* on one pool at a time.  Nobody operates the pool here.                  *)
(***************************************************************************)
EXTENDS TaskPool

CONSTANTS
    Trainer,     \* processes that call train() and then end_train()
    TasksOf,     \* TasksOf[x]: the definitions x trains
    DelayModes,  \* the values "delay" starts from: who is a DelayTrainerRM
    SkipRunTask, \* the skip_run_task argument
    WorkerCalls  \* the calls of run_task made by worker()

ASSUME TrainerAssumption ==
    /\ Trainer \subseteq Worker \cap Client
    /\ \A b \in {"waiting", "part_done"}, a \in {"part_done", "done"}, q \in SUBSET TaskId :
          [before |-> b, after |-> a, query |-> q] \in Calls
    /\ TasksOf \in [Trainer -> SUBSET TaskDef]
    /\ DelayModes \subseteq [Trainer -> BOOLEAN]
    /\ SkipRunTask \in BOOLEAN
    /\ WorkerCalls \subseteq Calls

VARIABLES
    delay,   \* delay[x]: x is a DelayTrainerRM
    phase,   \* phase[x]: how far train() and end_train() have come
    todo,    \* todo[x]: definitions still to create
    ids,     \* ids[x]: the _id_list of create_task
    unread,  \* unread[x]: ids whose result train() has not read yet
    mishap   \* auxiliary: some task_func has raised or some process was killed

trainerVars == <<delay, phase, todo, ids, unread, mishap>>
allVars     == <<vars, trainerVars>>

Phases == {"create", "run", "wait", "collect", "end", "trained", "failed", "keyerror"}

TrainerTypeOK ==
    /\ TypeOK
    /\ delay \in DelayModes
    /\ phase \in [Trainer -> Phases]
    /\ todo \in [Trainer -> SUBSET TaskDef]
    /\ ids \in [Trainer -> SUBSET TaskId]
    /\ unread \in [Trainer -> SUBSET TaskId]
    /\ mishap \in BOOLEAN

TrainerInit ==
    /\ Init
    /\ delay \in DelayModes
    /\ phase = [x \in Trainer |-> "create"]
    /\ todo = TasksOf
    /\ ids = [x \in Trainer |-> {}]
    /\ unread = [x \in Trainer |-> {}]
    /\ mishap = FALSE

Goto(x, p) == phase' = [phase EXCEPT ![x] = p]

-----------------------------------------------------------------------------
(* create_task, one definition after the other.                            *)

\* The definition is in the pool already: take over its _id.
Reuse(x, d, t) ==
    /\ phase[x] = "create" /\ cpc[x] = "idle"
    /\ d \in todo[x]
    /\ Exists(t) /\ def[t] = d
    /\ todo' = [todo EXCEPT ![x] = @ \ {d}]
    /\ ids' = [ids EXCEPT ![x] = @ \cup {t}]
    /\ UNCHANGED <<vars, delay, phase, unread, mishap>>

LookUp(x, d) ==
    /\ phase[x] = "create"
    /\ d \in todo[x]
    /\ CreateFind(x, d)
    /\ UNCHANGED trainerVars

Insert(x, t) ==
    /\ phase[x] = "create"
    /\ CreateInsert(x, t)
    /\ todo' = [todo EXCEPT ![x] = @ \ {cdef[x]}]
    /\ ids' = [ids EXCEPT ![x] = @ \cup {t}]
    /\ UNCHANGED <<delay, phase, unread, mishap>>

\* All ids are known.  A DelayTrainerRM never skips the preparation.
Created(x) ==
    /\ phase[x] = "create" /\ todo[x] = {} /\ cpc[x] = "idle"
    /\ Goto(x, IF SkipRunTask /\ ~delay[x] THEN "wait" ELSE "run")
    /\ UNCHANGED <<vars, delay, todo, ids, unread, mishap>>

-----------------------------------------------------------------------------
(* The run_task call inside train(), or inside end_train().                *)

\* Wrong variant: end_train does not ask for the begun tasks.
CallOfWaiting(x) ==
    [before |-> "waiting",
     after  |-> IF phase[x] = "run" /\ delay[x] THEN "part_done" ELSE "done",
     query  |-> ids[x]]

CallOf(x) ==
    [before |-> IF phase[x] = "end" THEN "part_done" ELSE "waiting",
     after  |-> IF phase[x] = "run" /\ delay[x] THEN "part_done" ELSE "done",
     query  |-> ids[x]]

CallRunTask(x) ==
    /\ phase[x] \in {"run", "end"}
    /\ StartRun(x, CallOf(x))
    /\ UNCHANGED trainerVars

StepRunTask(x) ==
    /\ \/ \E t \in TaskId : Fetch(x, t)
       \/ FuncOk(x)
       \/ CommitTaskRes(x)
    /\ UNCHANGED trainerVars

\* Wrong variant: no trainer waits after its own run_task.
ReturnsWithoutWait(x) ==
    /\ FetchNone(x)
    /\ Goto(x, "collect")
    /\ unread' = [unread EXCEPT ![x] = ids[x]]
    /\ UNCHANGED <<delay, todo, ids, mishap>>

\* train() waits unless is_delay(): a DelayTrainerRM reads the results of
\* its preparation at once, and waits at the end of end_train().
RunTaskReturns(x) ==
    /\ FetchNone(x)
    /\ IF phase[x] = "run" /\ delay[x]
       THEN /\ Goto(x, "collect")
            /\ unread' = [unread EXCEPT ![x] = ids[x]]
       ELSE /\ Goto(x, "wait")
            /\ UNCHANGED unread
    /\ UNCHANGED <<delay, todo, ids, mishap>>

\* run_task re-raises what task_func raised, and train() does not catch it.
RunTaskRaises(x) ==
    /\ ReturnTask(x)
    /\ Goto(x, "failed")
    /\ UNCHANGED <<delay, todo, ids, unread, mishap>>

-----------------------------------------------------------------------------
(* wait and the reading of the results.                                    *)

\* Wrong variant: running tasks are not counted.
UndoneNotRunning(x) == {t \in ids[x] : status[t] \in {"waiting", "part_done"}}

Undone(x) == {t \in ids[x] : status[t] \in {"waiting", "running", "part_done"}}

WaitOver(x) ==
    /\ phase[x] = "wait"
    /\ Undone(x) = {}
    /\ IF delay[x]
       THEN Goto(x, "trained") /\ UNCHANGED unread
       ELSE Goto(x, "collect") /\ unread' = [unread EXCEPT ![x] = ids[x]]
    /\ UNCHANGED <<vars, delay, todo, ids, mishap>>

\* tm.re_query(_id)["res"]
ReadResult(x, t) ==
    /\ phase[x] = "collect"
    /\ t \in unread[x]
    /\ IF res[t] = "none"
       THEN Goto(x, "keyerror") /\ UNCHANGED unread
       ELSE UNCHANGED phase /\ unread' = [unread EXCEPT ![x] = @ \ {t}]
    /\ UNCHANGED <<vars, delay, todo, ids, mishap>>

\* train() returns its recorders.  TrainerRM is done; end_train of a
\* DelayTrainerRM runs what it began, or leaves that to worker().
Collected(x) ==
    /\ phase[x] = "collect"
    /\ unread[x] = {}
    /\ Goto(x, CASE ~delay[x]                -> "trained"
                 [] delay[x] /\ SkipRunTask  -> "wait"
                 [] delay[x] /\ ~SkipRunTask -> "end")
    /\ UNCHANGED <<vars, delay, todo, ids, unread, mishap>>

-----------------------------------------------------------------------------
(* Failures, and the worker() processes.                                   *)

Raise(w) ==
    /\ FuncRaise(w)
    /\ mishap' = TRUE
    /\ UNCHANGED <<delay, phase, todo, ids, unread>>

Killed(w) ==
    /\ Crash(w)
    /\ mishap' = TRUE
    /\ IF w \in Trainer THEN Goto(w, "failed") ELSE UNCHANGED phase
    /\ UNCHANGED <<delay, todo, ids, unread>>

WorkerStep(w) ==
    /\ RunTask(w) \/ \E k \in WorkerCalls : StartRun(w, k)
    /\ UNCHANGED trainerVars

TrainerStep(x) ==
    \/ \E d \in TaskDef : LookUp(x, d) \/ \E t \in TaskId : Reuse(x, d, t)
    \/ \E t \in TaskId : Insert(x, t) \/ ReadResult(x, t)
    \/ Created(x)
    \/ CallRunTask(x) \/ StepRunTask(x) \/ RunTaskReturns(x) \/ RunTaskRaises(x)
    \/ WaitOver(x) \/ Collected(x)

TrainerNext ==
    \/ \E x \in Trainer : TrainerStep(x)
    \/ \E w \in Worker \ Trainer : WorkerStep(w)
    \/ \E w \in Worker : Raise(w) \/ Killed(w)

\* Trainers run; a worker() that was started keeps working until it runs
\* out of tasks, but nobody has to start one.
TrainerSpec ==
    /\ TrainerInit
    /\ [][TrainerNext]_allVars
    /\ \A x \in Trainer : WF_allVars(TrainerStep(x))
    /\ \A w \in Worker \ Trainer : WF_allVars(RunTask(w) /\ UNCHANGED trainerVars)

-----------------------------------------------------------------------------

\* When train() and end_train() have returned, every task of the trainer is
\* done and holds a trained result, whoever trained it.
TrainedMeansDone ==
    \A x \in Trainer : phase[x] = "trained" =>
        \A t \in ids[x] : status[t] = "done" /\ res[t] = "ended"

\* TrainerRM.train never reads a task that has no result yet.  DelayTrainerRM.train
\* does: it does not wait for a task another trainer is still preparing.
ResultIsThere ==
    \A x \in Trainer : ~delay[x] => phase[x] # "keyerror"

\* As long as nothing raises and nobody is killed, every train() and
\* end_train() comes to its end: no trainer waits for ever for a task that
\* another trainer or a worker() has fetched.
TrainEnds ==
    \A x \in Trainer : <>(mishap \/ phase[x] \in {"trained", "keyerror"})
=============================================================================
