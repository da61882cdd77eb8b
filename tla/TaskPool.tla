------------------------------ MODULE TaskPool ------------------------------
(***************************************************************************)
(* The task pool of quant_master/workflow/task/manage.py: the MongoDB      *)
(* collection a TaskManager works on, the clients that insert task         *)
(* definitions (create_task), the processes that fetch, run and commit     *)
(* tasks (run_task around safe_fetch_task), and the operator who resets,   *)
(* removes and re-prioritises tasks from the command line.                 *)
(*                                                                         *)
(* Every call on the collection (find_one, insert_one,                     *)
(* find_one_and_update, update_one, update_many, delete_many) is one       *)
(* atomic step; everything between two calls may interleave.               *)
(***************************************************************************)
EXTENDS Naturals, FiniteSets

CONSTANTS
    TaskId,        \* the ObjectIds insert_one may hand out
    TaskDef,       \* task definitions
    Worker,        \* processes that call run_task
    Client,        \* processes that call create_task
    Calls,         \* the arguments run_task is called with: before_status,
                   \* after_status and the ids the query is restricted to
    MaxPriority,   \* bound on the priorities the operator sets
    NoTask, NoDef, NoCall, \* "nothing held", "no definition", "not in run_task"
    ResetAnytime,  \* may reset_waiting hit a task a live process is running?
    ReplyMayBeLost \* may commit_task_res raise after its update was applied?

Status == {"waiting", "running", "part_done", "done"}

\* What task_func leaves in "res": nothing, a begun recorder, a trained one.
Result == {"none", "begun", "ended"}

ASSUME ConstantsAssumption ==
    /\ NoTask \notin TaskId
    /\ NoDef \notin TaskDef
    /\ MaxPriority \in Nat
    /\ NoCall \notin Calls
    /\ ResetAnytime \in BOOLEAN
    /\ ReplyMayBeLost \in BOOLEAN

\* The four situations the docstring of run_task allows.
ASSUME CallsAssumption ==
    Calls \subseteq [before : {"waiting", "part_done"},
                    after  : {"part_done", "done"},
                    query  : SUBSET TaskId]

VARIABLES
    status,   \* status[t]: the document's status; "absent" before, "removed" after it exists
    def,      \* def[t]: its task definition
    res,      \* res[t]: its stored result
    priority, \* priority[t]: 0 when the field is not set
    pc,       \* pc[w]: where process w is in run_task
    task,     \* task[w]: the task fetched by w
    call,     \* call[w]: the arguments of its call
    cpc,      \* cpc[c]: "idle", or "insert" between find_one and insert_one
    cdef      \* cdef[c]: the definition client c is creating

poolVars   == <<status, def, res, priority>>
workerVars == <<pc, task, call>>
clientVars == <<cpc, cdef>>
vars       == <<poolVars, workerVars, clientVars>>

Exists(t) == status[t] \in Status

\* w is inside the with-block of safe_fetch_task.
Holding(w) == pc[w] \in {"func", "commit", "return"}

Holders(t) == {w \in Worker : Holding(w) /\ task[w] = t}

TypeOK ==
    /\ status \in [TaskId -> Status \cup {"absent", "removed"}]
    /\ def \in [TaskId -> TaskDef \cup {NoDef}]
    /\ res \in [TaskId -> Result]
    /\ priority \in [TaskId -> 0..MaxPriority]
    /\ pc \in [Worker -> {"idle", "fetch", "func", "commit", "return"}]
    /\ task \in [Worker -> TaskId \cup {NoTask}]
    /\ call \in [Worker -> Calls \cup {NoCall}]
    /\ cpc \in [Client -> {"idle", "insert"}]
    /\ cdef \in [Client -> TaskDef \cup {NoDef}]

Init ==
    /\ status = [t \in TaskId |-> "absent"]
    /\ def = [t \in TaskId |-> NoDef]
    /\ res = [t \in TaskId |-> "none"]
    /\ priority = [t \in TaskId |-> 0]
    /\ pc = [w \in Worker |-> "idle"]
    /\ task = [w \in Worker |-> NoTask]
    /\ call = [w \in Worker |-> NoCall]
    /\ cpc = [c \in Client |-> "idle"]
    /\ cdef = [c \in Client |-> NoDef]

-----------------------------------------------------------------------------
(* create_task: look the definition up, then insert it; two calls.         *)

Known(d) == \E t \in TaskId : Exists(t) /\ def[t] = d

\* Wrong variant: the definition is inserted without being looked up.
CreateUnchecked(c, d) ==
    /\ cpc[c] = "idle"
    /\ cpc' = [cpc EXCEPT ![c] = "insert"]
    /\ cdef' = [cdef EXCEPT ![c] = d]
    /\ UNCHANGED <<poolVars, workerVars>>

\* find_one({"filter": t}) answers None.  (A definition it finds is only
\* given its _id back; nothing changes.)
CreateFind(c, d) ==
    /\ cpc[c] = "idle"
    /\ ~Known(d)
    /\ cpc' = [cpc EXCEPT ![c] = "insert"]
    /\ cdef' = [cdef EXCEPT ![c] = d]
    /\ UNCHANGED <<poolVars, workerVars>>

\* insert_task_def: a new document under a new ObjectId.
CreateInsert(c, t) ==
    /\ cpc[c] = "insert"
    /\ status[t] = "absent"
    /\ status' = [status EXCEPT ![t] = "waiting"]
    /\ def' = [def EXCEPT ![t] = cdef[c]]
    /\ cpc' = [cpc EXCEPT ![c] = "idle"]
    /\ cdef' = [cdef EXCEPT ![c] = NoDef]
    /\ UNCHANGED <<res, priority, workerVars>>

-----------------------------------------------------------------------------
(* run_task: fetch, run, commit, until nothing is left to fetch.           *)

StartRun(w, k) ==
    /\ pc[w] = "idle"
    /\ pc' = [pc EXCEPT ![w] = "fetch"]
    /\ call' = [call EXCEPT ![w] = k]
    /\ UNCHANGED <<task, poolVars, clientVars>>

\* Wrong variant: the query also matches what is being run.
FetchableOrRunning(w) ==
    {t \in call[w].query : status[t] \in {call[w].before, "running"}}

Fetchable(w) == {t \in call[w].query : status[t] = call[w].before}

\* fetch_task: one find_one_and_update, the highest priority first.
Fetch(w, t) ==
    /\ pc[w] = "fetch"
    /\ t \in Fetchable(w)
    /\ \A u \in Fetchable(w) : priority[u] <= priority[t]
    /\ status' = [status EXCEPT ![t] = "running"]
    /\ pc' = [pc EXCEPT ![w] = "func"]
    /\ task' = [task EXCEPT ![w] = t]
    /\ UNCHANGED <<def, res, priority, call, clientVars>>

\* The fetch answers None: the loop breaks and run_task returns.
FetchNone(w) ==
    /\ pc[w] = "fetch"
    /\ Fetchable(w) = {}
    /\ pc' = [pc EXCEPT ![w] = "idle"]
    /\ call' = [call EXCEPT ![w] = NoCall]
    /\ UNCHANGED <<task, poolVars, clientVars>>

FuncOk(w) ==
    /\ pc[w] = "func"
    /\ pc' = [pc EXCEPT ![w] = "commit"]
    /\ UNCHANGED <<task, call, poolVars, clientVars>>

\* An exception, or a KeyboardInterrupt, inside the with-block before the
\* commit's update is applied.
FuncRaise(w) ==
    /\ pc[w] \in {"func", "commit"}
    /\ pc' = [pc EXCEPT ![w] = "return"]
    /\ UNCHANGED <<task, call, poolVars, clientVars>>

\* Wrong variant: the status is committed in the place of the result.
OutcomeSwapped(k) == k.after

Outcome(k) == IF k.after = "done" THEN "ended" ELSE "begun"

\* Wrong variant: the status is set, the result is left for a later call.
ApplyStatusOnly(w) ==
    /\ status' = IF Exists(task[w])
                 THEN [status EXCEPT ![task[w]] = call[w].after]
                 ELSE status
    /\ UNCHANGED res

\* Wrong variant: the result is set, the status is left as it is.
ApplyResultOnly(w) ==
    /\ res' = IF Exists(task[w])
              THEN [res EXCEPT ![task[w]] = Outcome(call[w])]
              ELSE res
    /\ UNCHANGED status

\* update_one({"_id": ...}, {"$set": {"status", "res"}}): whatever the status
\* is now; a document that has been removed matches nothing.
ApplyCommit(w) ==
    LET t == task[w] IN
    IF Exists(t)
    THEN /\ status' = [status EXCEPT ![t] = call[w].after]
         /\ res' = [res EXCEPT ![t] = Outcome(call[w])]
    ELSE UNCHANGED <<status, res>>

CommitTaskRes(w) ==
    /\ pc[w] = "commit"
    /\ ApplyCommit(w)
    /\ pc' = [pc EXCEPT ![w] = "fetch"]
    /\ task' = [task EXCEPT ![w] = NoTask]
    /\ UNCHANGED <<def, priority, call, clientVars>>

\* The update is applied, but the call raises (its reply is lost, or the
\* interrupt arrives before the with-block is left): the handler runs.
CommitThenRaise(w) ==
    /\ ReplyMayBeLost
    /\ pc[w] = "commit"
    /\ ApplyCommit(w)
    /\ pc' = [pc EXCEPT ![w] = "return"]
    /\ UNCHANGED <<def, priority, task, call, clientVars>>

\* The with-block is left by an exception: the task gets status s.
LetGo(w, s) ==
    /\ pc[w] = "return"
    /\ status' = IF Exists(task[w]) THEN [status EXCEPT ![task[w]] = s] ELSE status
    /\ pc' = [pc EXCEPT ![w] = "idle"]
    /\ task' = [task EXCEPT ![w] = NoTask]
    /\ call' = [call EXCEPT ![w] = NoCall]
    /\ UNCHANGED <<def, res, priority, clientVars>>

\* Wrong variant: the task is returned to after_status.
ReturnToAfter(w) == LetGo(w, call[w].after)

\* The handler of safe_fetch_task: return_task to before_status, re-raise.
ReturnTask(w) == LetGo(w, call[w].before)

\* The process is killed, or its return_task fails, or the answer to its
\* fetch is lost (the fetch is outside the try), or the consumer of a
\* task_fetcher_iter abandons it (GeneratorExit is not caught).
Crash(w) ==
    /\ pc[w] # "idle"
    /\ pc' = [pc EXCEPT ![w] = "idle"]
    /\ task' = [task EXCEPT ![w] = NoTask]
    /\ call' = [call EXCEPT ![w] = NoCall]
    /\ UNCHANGED <<poolVars, clientVars>>

-----------------------------------------------------------------------------
(* The operator's commands.                                                *)

\* Wrong variant: the query lacks its default status.
ResetAll(q) ==
    /\ \E t \in q : status[t] = "running"
    /\ \A t \in q : Holders(t) = {}
    /\ status' = [t \in TaskId |-> IF t \in q /\ Exists(t) THEN "waiting" ELSE status[t]]
    /\ UNCHANGED <<def, res, priority, workerVars, clientVars>>

\* reset_waiting on the ids in q.  The code resets every RUNNING task; the
\* operator who waits for the live processes first is ~ResetAnytime.
ResetWaiting(q) ==
    /\ \E t \in q : status[t] = "running"
    /\ ResetAnytime \/ \A t \in q : Holders(t) = {}
    /\ status' = [t \in TaskId |->
                    IF t \in q /\ status[t] = "running" THEN "waiting" ELSE status[t]]
    /\ UNCHANGED <<def, res, priority, workerVars, clientVars>>

Remove(t) ==
    /\ Exists(t)
    /\ status' = [status EXCEPT ![t] = "removed"]
    /\ UNCHANGED <<def, res, priority, workerVars, clientVars>>

Prioritize(t, p) ==
    /\ Exists(t)
    /\ priority' = [priority EXCEPT ![t] = p]
    /\ UNCHANGED <<status, def, res, workerVars, clientVars>>

-----------------------------------------------------------------------------

Create  == \E c \in Client : \/ \E d \in TaskDef : CreateFind(c, d)
                             \/ \E t \in TaskId : CreateInsert(c, t)

RunTask(w) == \/ \E t \in TaskId : Fetch(w, t)
              \/ FetchNone(w)
              \/ FuncOk(w)
              \/ CommitTaskRes(w)
              \/ ReturnTask(w)

Fault(w) == FuncRaise(w) \/ CommitThenRaise(w) \/ Crash(w)

Operator == \/ \E q \in SUBSET TaskId : ResetWaiting(q)
            \/ \E t \in TaskId : Remove(t)
            \/ \E t \in TaskId, p \in 1..MaxPriority : Prioritize(t, p)

Next == \/ Create
        \/ \E w \in Worker : \/ \E k \in Calls : StartRun(w, k)
                             \/ RunTask(w)
                             \/ Fault(w)
        \/ Operator

Spec == Init /\ [][Next]_vars

\* A process inside run_task keeps running; nothing forces anyone to start
\* one, to fail, or to operate the pool.
FairSpec == Spec /\ \A w \in Worker : WF_vars(RunTask(w))

-----------------------------------------------------------------------------
(* Properties.                                                             *)

\* A document that says "done" holds a trained result and one that says
\* "part_done" holds at least a begun one, whatever late commits, returns,
\* resets and crashes did: run_task reads task["res"] of a PART_DONE task,
\* and TrainerRM reads the result of every task that wait() let through.
ResultBacksStatus ==
    \A t \in TaskId : /\ status[t] = "done" => res[t] = "ended"
                      /\ status[t] = "part_done" => res[t] # "none"

\* "ensure every task will be used only once": no two live processes work on
\* one task, and no process works on a task whose training is finished.
UsedOnce ==
    /\ \A v, w \in Worker : Holding(v) /\ Holding(w) /\ task[v] = task[w] => v = w
    /\ \A w \in Worker : Holding(w) => res[task[w]] # "ended"

\* create_task finds a definition it has already inserted: one document per
\* definition.
NoDuplicateDefs ==
    \A t, u \in TaskId : Exists(t) /\ Exists(u) /\ def[t] = def[u] => t = u

\* A process that lets go of a task, short of being killed, takes it out of
\* "running": safe_fetch_task leaves no task behind.
LeaseReturned ==
    [][\A w \in Worker :
          Holding(w) /\ ~Holding(w)' => status'[task[w]] # "running" \/ Crash(w)]_vars
-----------------------------------------------------------------------------
(* The pool implements the abstract board: the status is its stage, the    *)
(* processes inside safe_fetch_task are its owners.                        *)

StageOf(s) == [absent    |-> "absent",  waiting |-> "open",     part_done |-> "open",
               running   |-> "claimed", done    |-> "finished", removed   |-> "withdrawn"][s]

Board == INSTANCE TaskBoard
            WITH Item   <- TaskId,
                 Agent  <- Worker,
                 stage  <- [t \in TaskId |-> StageOf(status[t])],
                 owners <- [t \in TaskId |-> Holders(t)]

\* With an operator who waits for live processes before resetting, and
\* replies that arrive, the pool keeps the promise of its module docstring.
ImplementsBoard == Board!Spec

=============================================================================
