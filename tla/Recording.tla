------------------------------ MODULE Recording ------------------------------
(***************************************************************************)
(* Experiments and recorders of one process (quant_master/workflow:        *)
(* __init__.py, expm.py, exp.py, recorder.py): R.start makes a recorder    *)
(* active and starts its run, calls that log go through an AsyncCaller     *)
(* (utils/paral.py), a thread with a queue, and R.end_exp waits for it     *)
(* before it ends the run.  The process may end with a run that is still   *)
(* active.  MLflow, which allows one active run, is external.              *)
(***************************************************************************)
EXTENDS Naturals, Sequences, FiniteSets

CONSTANTS
    Run,     \* runs, each with the recorder that starts it
    MaxCalls \* bound on the logging calls of a run

NoRun == "none"
STOP_MARK == "__STOP"

ASSUME RecordingAssumption == MaxCalls \in Nat /\ NoRun \notin Run

VARIABLES
    main,     \* the main thread: "on", "ending" (waits for a caller), "over" (the
              \* interpreter joins the threads), "exit" (atexit has run)
    ending,   \* the status end_exp was called with
    active,   \* recorder of the active experiment; NoRun
    mlflow,   \* the active run of MLflow; NoRun
    status,   \* status[r] of a run
    caller,   \* caller[r]: its thread: "none", "running", "stopped", "died"
    calls,    \* calls[r]: the queue: "log" or STOP_MARK
    logged,   \* auxiliary: logging calls of r that have returned
    applied,  \* calls that have reached the store
    mishaps   \* auxiliary: "raised" (a call), "nested" (a start), "left" (a run not ended)

recordingVars == <<main, ending, active, mlflow, status, caller, calls, logged, applied, mishaps>>

RecordingTypeOK ==
    /\ main \in {"on", "ending", "over", "exit"}
    /\ ending \in {"FINISHED", "FAILED"}
    /\ active \in Run \union {NoRun} /\ mlflow \in Run \union {NoRun}
    /\ status \in [Run -> {"new", "RUNNING", "FINISHED", "FAILED"}]
    /\ caller \in [Run -> {"none", "running", "stopped", "died"}]
    /\ \A r \in Run : calls[r] \in Seq({"log", STOP_MARK})
    /\ logged \in [Run -> 0..MaxCalls] /\ applied \in [Run -> 0..MaxCalls]
    /\ mishaps \subseteq {"raised", "nested", "left"}

RecordingInit ==
    /\ main = "on" /\ ending = "FINISHED"
    /\ active = NoRun /\ mlflow = NoRun
    /\ status = [r \in Run |-> "new"]
    /\ caller = [r \in Run |-> "none"]
    /\ calls = [r \in Run |-> <<>>]
    /\ logged = [r \in Run |-> 0] /\ applied = [r \in Run |-> 0]
    /\ mishaps = {}

-----------------------------------------------------------------------------
(* The main thread.                                                        *)

\* start_exp and start_run: the recorder is active before MLflow starts its run,
\* and stays so when MLflow refuses because another run is active.
StartExp(r) ==
    /\ main = "on" /\ status[r] = "new"
    /\ active' = r
    /\ IF mlflow = NoRun
       THEN /\ mlflow' = r
            /\ status' = [status EXCEPT ![r] = "RUNNING"]
            /\ caller' = [caller EXCEPT ![r] = "running"]
            /\ UNCHANGED mishaps
       ELSE /\ mishaps' = mishaps \union {"nested"}
            /\ UNCHANGED <<mlflow, status, caller>>
    /\ UNCHANGED <<main, ending, calls, logged, applied>>

\* log_params, log_metrics and set_tags of the active recorder (async_dec); a
\* thread that has died takes calls as well.  Without a caller there is no run id,
\* and the call raises.
LogCall ==
    /\ main = "on" /\ active # NoRun
    /\ caller[active] # "none"
    /\ logged[active] < MaxCalls
    /\ calls' = [calls EXCEPT ![active] = Append(@, "log")]
    /\ logged' = [logged EXCEPT ![active] = @ + 1]
    /\ UNCHANGED <<main, ending, active, mlflow, status, caller, applied, mishaps>>

\* end_exp, end and end_run up to the wait: by the end of the with-block, its
\* exception, or the hook for uncaught ones.
EndExp(s) ==
    /\ main = "on" /\ active # NoRun
    /\ ending' = s
    /\ main' = "ending"
    /\ calls' = IF caller[active] = "none" THEN calls
                ELSE [calls EXCEPT ![active] = Append(@, STOP_MARK)]
    /\ UNCHANGED <<active, mlflow, status, caller, logged, applied, mishaps>>

EndRun(s) ==
    /\ status' = [r \in Run |-> IF r = mlflow THEN s ELSE status[r]]
    /\ mlflow' = NoRun
    /\ active' = NoRun

\* Wrong variant: the run is ended without waiting for its calls.
WaitNot ==
    /\ main = "ending"
    /\ EndRun(ending)
    /\ main' = "on"
    /\ UNCHANGED <<ending, caller, calls, logged, applied, mishaps>>

\* wait: the thread has ended, and mlflow.end_run ends what is active there.
Waited ==
    /\ main = "ending"
    /\ caller[active] # "running"
    /\ EndRun(ending)
    /\ main' = "on"
    /\ UNCHANGED <<ending, caller, calls, logged, applied, mishaps>>

\* The script is at its end.
MainEnds ==
    /\ main = "on"
    /\ main' = "over"
    /\ mishaps' = IF active = NoRun THEN mishaps ELSE mishaps \union {"left"}
    /\ UNCHANGED <<ending, active, mlflow, status, caller, calls, logged, applied>>

\* experiment_exit_handler has registered end_exp for atexit, which runs when the
\* other threads have ended; it finds no caller to wait for.
Atexit ==
    /\ main = "over" /\ \A r \in Run : caller[r] # "running"
    /\ main' = "exit"
    /\ IF active = NoRun THEN UNCHANGED <<status, mlflow, active>> ELSE EndRun("FINISHED")
    /\ UNCHANGED <<ending, caller, calls, logged, applied, mishaps>>

-----------------------------------------------------------------------------
(* AsyncCaller.run                                                         *)

\* raises: the call does, and the thread with it.  The main thread may end between
\* the look at it and the take.
CallerTakes(r, raises) ==
    /\ caller[r] = "running" /\ main # "exit"
    /\ calls[r] # <<>>
    /\ calls' = [calls EXCEPT ![r] = Tail(@)]
    /\ CASE Head(calls[r]) = STOP_MARK ->
              /\ caller' = [caller EXCEPT ![r] = "stopped"]
              /\ UNCHANGED <<applied, mishaps>>
         [] Head(calls[r]) = "log" /\ raises ->
              /\ caller' = [caller EXCEPT ![r] = "died"]
              /\ mishaps' = mishaps \union {"raised"}
              /\ UNCHANGED applied
         [] OTHER ->
              /\ applied' = [applied EXCEPT ![r] = @ + 1]
              /\ UNCHANGED <<caller, mishaps>>
    /\ UNCHANGED <<main, ending, active, mlflow, status, logged>>

\* Wrong variant: it does not watch the main thread.
CallerLeavesNever(r) ==
    /\ caller[r] = "running" /\ main = "exit"
    /\ caller' = [caller EXCEPT ![r] = "stopped"]
    /\ UNCHANGED <<main, ending, active, mlflow, status, calls, logged, applied, mishaps>>

\* It watches the main thread, and leaves what is in the queue.
CallerLeaves(r) ==
    /\ caller[r] = "running" /\ main = "over"
    /\ caller' = [caller EXCEPT ![r] = "stopped"]
    /\ UNCHANGED <<main, ending, active, mlflow, status, calls, logged, applied, mishaps>>

CallerStep(r) == (\E raises \in BOOLEAN : CallerTakes(r, raises)) \/ CallerLeaves(r)

RecordingNext ==
    \/ \E r \in Run : StartExp(r) \/ CallerStep(r)
    \/ LogCall
    \/ \E s \in {"FINISHED", "FAILED"} : EndExp(s)
    \/ Waited \/ MainEnds \/ Atexit

RecordingSpec == RecordingInit /\ [][RecordingNext]_recordingVars

\* Threads run on, and a script comes to an end.
RecordingFairness ==
    /\ WF_recordingVars(Waited) /\ WF_recordingVars(Atexit)
    /\ \A r \in Run : WF_recordingVars(CallerStep(r))

-----------------------------------------------------------------------------
\* Properties.

\* A run that counts as finished has all its results, although they are written
\* behind its back, unless a call has raised, a second run was started beside it,
\* or the script has left it open ("Waiting Queue should go before mlflow.end_run").
LogsComplete ==
    mishaps = {} => \A r \in Run : status[r] = "FINISHED" => applied[r] = logged[r]

\* Whatever has happened, nobody waits for a caller for ever, and no run of a process
\* that has come to its end is still running.
RunsEnd ==
    /\ main = "ending" ~> main # "ending"
    /\ main = "over" ~> \A r \in Run : status[r] # "RUNNING"
=============================================================================
