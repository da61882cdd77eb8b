------------------------------- MODULE FiniteEnv -------------------------------
(***************************************************************************)
(* Evaluation of a policy over a finite set of seeds (quant_master/rl):    *)
(* a producer thread puts the seeds into a DataQueue, environments in       *)
(* processes of their own take them (EnvWrapper.reset), and a               *)
(* FiniteVectorEnv resets and steps the environments for a collector that   *)
(* asks for infinitely many steps (TrainingVessel.test).                   *)
(*                                                                         *)
(* The queue is a multiprocessing.Queue: put leaves the item in a buffer,   *)
(* from which a feeder thread moves it into the pipe that get reads.  The   *)
(* collector (tianshou) steps all environments together and resets those    *)
(* whose episode is over.                                                  *)
(***************************************************************************)
EXTENDS Naturals, Sequences, Functions, FiniteSets

CONSTANTS
    Env,        \* environments
    NumSeeds,   \* length of the dataset
    QueueSize   \* queue_maxsize

ASSUME FiniteEnvAssumption ==
    /\ Env # {} /\ IsFiniteSet(Env)
    /\ NumSeeds \in Nat /\ QueueSize \in Nat \ {0}

VARIABLES
    produced, \* seeds put so far: 1..produced, in the order of the data loader
    buffer,   \* put, and not yet in the pipe
    pipe,     \* what get can read
    done,     \* _done
    failed,   \* the dataset raised in the producer thread
    env,      \* env[e]: "get" (in DataQueue.get), "empty" (get found nothing in time),
              \* "has" (a seed), "exhausted" (it answered with a nan observation)
    seed,     \* seed[e]: what it plays with; 0 without one
    point,    \* the vector env: "reset" (waits for the environments in waits), "step", "over"
    waits,    \* the environments of the reset
    alive,    \* _alive_env_ids
    finished, \* the seeds of the episodes that are over, in their order
    crossed   \* auxiliary: an environment gave up while a seed was on its way

producerVars == <<produced, buffer, done, failed>>
vectorVars   == <<point, waits, alive, finished>>
finiteVars   == <<producerVars, pipe, env, seed, vectorVars, crossed>>

Seeds == 1..NumSeeds

FiniteTypeOK ==
    /\ produced \in 0..NumSeeds
    /\ buffer \in Seq(Seeds) /\ pipe \in Seq(Seeds) /\ finished \in Seq(Seeds)
    /\ done \in BOOLEAN /\ failed \in BOOLEAN /\ crossed \in BOOLEAN
    /\ env \in [Env -> {"get", "empty", "has", "exhausted"}]
    /\ seed \in [Env -> 0..NumSeeds]
    /\ point \in {"reset", "step", "over"}
    /\ waits \subseteq Env /\ alive \subseteq Env

\* The collector begins with a reset of all environments.
FiniteInit ==
    /\ produced = 0 /\ buffer = <<>> /\ pipe = <<>>
    /\ done = FALSE /\ failed = FALSE /\ crossed = FALSE
    /\ env = [e \in Env |-> "get"]
    /\ seed = [e \in Env |-> 0]
    /\ point = "reset" /\ waits = Env /\ alive = Env
    /\ finished = <<>>

-----------------------------------------------------------------------------
(* The queue.                                                              *)

\* Wrong variant: one seed more than there are.
ProduceOneMore ==
    /\ ~done /\ produced <= NumSeeds
    /\ Len(buffer) + Len(pipe) < QueueSize
    /\ produced' = produced + 1
    /\ buffer' = Append(buffer, produced + 1)
    /\ UNCHANGED <<pipe, done, failed, env, seed, vectorVars, crossed>>

\* _producer: put blocks while the queue is full.
Produce ==
    /\ ~done /\ produced < NumSeeds
    /\ Len(buffer) + Len(pipe) < QueueSize
    /\ produced' = produced + 1
    /\ buffer' = Append(buffer, produced + 1)
    /\ UNCHANGED <<pipe, done, failed, env, seed, vectorVars, crossed>>

\* The finally of _producer, after the last seed or an exception of the dataset.
ProducerEnds ==
    /\ ~done
    /\ done' = TRUE
    /\ failed' = (produced < NumSeeds)
    /\ UNCHANGED <<produced, buffer, pipe, env, seed, vectorVars, crossed>>

Feed ==
    /\ buffer # <<>>
    /\ pipe' = Append(pipe, Head(buffer))
    /\ buffer' = Tail(buffer)
    /\ UNCHANGED <<produced, done, failed, env, seed, vectorVars, crossed>>

\* DataQueue.get in EnvWrapper.reset.
TakeSeed(e) ==
    /\ env[e] = "get" /\ pipe # <<>>
    /\ seed' = [seed EXCEPT ![e] = Head(pipe)]
    /\ pipe' = Tail(pipe)
    /\ env' = [env EXCEPT ![e] = "has"]
    /\ UNCHANGED <<producerVars, vectorVars, crossed>>

FindNothing(e) ==
    /\ env[e] = "get" /\ pipe = <<>>
    /\ env' = [env EXCEPT ![e] = "empty"]
    /\ UNCHANGED <<producerVars, pipe, seed, vectorVars, crossed>>

\* Wrong variant: done is not asked for.
GivesUpAlways == TRUE

\* Wrong variant: get waits for ever.
GivesUpNever == FALSE

\* get goes on as long as the producer has not ended.
GivesUp == done

GiveUp(e) ==
    /\ env[e] = "empty"
    /\ env' = [env EXCEPT ![e] = IF GivesUp THEN "exhausted" ELSE "get"]
    /\ crossed' = (crossed \/ (GivesUp /\ (buffer # <<>> \/ pipe # <<>>)))
    /\ UNCHANGED <<producerVars, pipe, seed, vectorVars>>

-----------------------------------------------------------------------------
(* The vector environment.                                                 *)

\* Wrong variant: the whole request is dropped when one environment is exhausted.
StillAliveTogether(stopped) == IF stopped = {} THEN alive ELSE alive \ waits

\* The environments with a nan observation are never called again.
StillAlive(stopped) == alive \ stopped

\* FiniteVectorEnv.reset, when all answers are there.  It raises StopIteration when
\* no environment is left, which collector_guard takes for the end.
ResetReturns ==
    /\ point = "reset"
    /\ \A e \in waits : env[e] \in {"has", "exhausted"}
    /\ alive' = StillAlive({e \in waits : env[e] = "exhausted"})
    /\ point' = IF alive' = {} THEN "over" ELSE "step"
    /\ waits' = {}
    /\ UNCHANGED <<producerVars, pipe, env, seed, finished, crossed>>

\* FiniteVectorEnv.step, up to the one after which an episode is over.  An exhausted
\* environment is stepped as well, but not called.
EpisodeEnds(e) ==
    /\ point = "step" /\ e \in alive
    /\ point' = "reset" /\ waits' = {e}
    /\ finished' = Append(finished, seed[e])
    /\ seed' = [seed EXCEPT ![e] = 0]
    /\ env' = [env EXCEPT ![e] = "get"]
    /\ UNCHANGED <<producerVars, pipe, alive, crossed>>

\* Two at once.
EpisodesEnd(e, f) ==
    /\ point = "step" /\ {e, f} \subseteq alive /\ e # f
    /\ point' = "reset" /\ waits' = {e, f}
    /\ finished' = Append(Append(finished, seed[e]), seed[f])
    /\ seed' = [seed EXCEPT ![e] = 0, ![f] = 0]
    /\ env' = [env EXCEPT ![e] = "get", ![f] = "get"]
    /\ UNCHANGED <<producerVars, pipe, alive, crossed>>

FiniteNext ==
    \/ Produce \/ ProducerEnds \/ Feed
    \/ \E e \in Env : TakeSeed(e) \/ FindNothing(e) \/ GiveUp(e) \/ EpisodeEnds(e)
    \/ \E e, f \in Env : EpisodesEnd(e, f)
    \/ ResetReturns

\* The producer, its feeder and the environments are threads and processes that go
\* on; every episode is finite.
FiniteFairness ==
    /\ WF_finiteVars(Produce) /\ WF_finiteVars(produced = NumSeeds /\ ProducerEnds)
    /\ WF_finiteVars(Feed)
    /\ \A e \in Env : /\ WF_finiteVars(TakeSeed(e)) /\ WF_finiteVars(FindNothing(e))
                      /\ WF_finiteVars(GiveUp(e))
    /\ WF_finiteVars(ResetReturns)
    /\ WF_finiteVars(\E e \in Env : EpisodeEnds(e))

FiniteSpec == FiniteInit /\ [][FiniteNext]_finiteVars /\ FiniteFairness

-----------------------------------------------------------------------------
\* Properties.

\* Every seed is consumed by exactly one environment: when the evaluation is over,
\* each seed the producer has put has had one episode, and all have unless the dataset
\* raised.  Left out is a get that times out with a seed on its way.
SeedsOnce ==
    /\ IsInjective(finished)
    /\ point = "over" /\ ~crossed =>
          Range(finished) = IF failed THEN 1..produced ELSE Seeds

\* The collector's endless loop ends: no environment waits for a seed for ever.
CollectEnds == <>(point = "over")
=============================================================================
