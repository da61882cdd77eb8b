------------------------------ MODULE MCServices ------------------------------
(***************************************************************************)
(* The components that share no state, one at a time: focus says which of  *)
(* them moves, and the others stay as they began.                          *)
(***************************************************************************)
EXTENDS DailyPipeline, LivePredictions, CacheLock, Caches, Positions, TopkBacktest, Recording,
        Features, FiniteEnv, Models, DumpBin, NestedExecution,
        PitStore, YahooUpdate, PersonalPool

CONSTANT Focus \* components to check
VARIABLE focus

rest == <<phase, targets, book, runs, astray>>

mcorders == [stock : Stock, side : {"buy", "sell"}, lots : 1..2, whole : BOOLEAN]
mcbatches == UNION {[1..n -> mcorders] : n \in 1..2}

\* A component that does not move begins in one way only.
MCInit ==
    /\ focus \in Focus
    /\ PipelineInit
    /\ focus \notin {"batch", "daily"} => kind = CHOOSE k \in Adapter : TRUE
    /\ focus \notin {"batch", "daily"} => dry /\ validate
    /\ PredictInit
    /\ LockInit /\ (focus # "lock" => mode = (CHOOSE m \in LockModes : TRUE) /\ content = "dataset")
    /\ CacheInit
    /\ PositionsInit
    /\ BacktestInit /\ (focus # "backtest" => settle = "no" /\ parallel)
    /\ RecordingInit
    /\ IF focus = "expression"
       THEN ExpressionInit /\ stored.first <= 1 /\ stored.last >= MaxDay - 1
       ELSE /\ tree = Feature /\ answer = Unanswered
            /\ stored = [first |-> 0, last |-> MaxDay] /\ asks = stored
    /\ FiniteInit
    /\ OnlineInit /\ (focus # "online" => day = Min(FirstDays))
    /\ DumpInit
    /\ PitInit
    /\ YahooInit /\ (focus # "splice" => reportsHalts)
    /\ PoolInit /\ (focus # "pool" => today = 1)
    \* The segment ends with the data, flt_data drops one sample at most, and the calendar
    \* has all days or those of the frame.
    /\ IF focus = "sampler"
       THEN /\ SamplerInit /\ segment.last = LastRow /\ segment.first \in {1, LastRow}
            /\ inferDays \in {1..LastRow, {r.day : r \in frame}}
            /\ frame \ keep \subseteq {[day |-> LastRow - 1, stock |-> 1]}
       ELSE /\ inferDays = 1..LastRow /\ frame = {} /\ keep = {} /\ segment = [first |-> 1, last |-> LastRow]
            /\ fill = "none" /\ reply = NoReply
    /\ focus # "prepare" => pipeline = [shared |-> <<>>, infer |-> <<>>, learn |-> <<>>, append |-> TRUE]
    /\ PreparationInit
    /\ focus = "prepare" => /\ pipeline.shared \in {<<>>, <<"norm">>}
                            /\ Len(pipeline.infer) + Len(pipeline.learn) <= 2
    /\ focus # "train" => opts = [valEvery |-> 1, saveEvery |-> 1, patience |-> 0,
                                  restore |-> TRUE, save_latest |-> "link", relative |-> FALSE]
    /\ TrainingInit
    /\ focus = "train" => /\ opts.valEvery = 1 /\ opts.patience <= 1
                          /\ opts.save_latest = "copy" => ~opts.relative
    /\ UniverseInit
    /\ NestedInit /\ (focus # "nested" => splitter = "twap")

\* The pages, the worker and the days that are claimed are checked under "health"; here
\* a snapshot stays fresh and says what the closes have.
MCPredictNext ==
    \/ /\ SyncStep \/ \E r \in Reader : RequestScans(r) \/ RequestStores(r)
       /\ claims' = {} /\ ~job'.doubtful /\ scan'[Syncer] = 0 /\ (refreshing' => worker' # "none")
       /\ UNCHANGED <<predictRequestVars, storeVars>>
    \/ \E r \in Reader :
          \/ \E wanted \in 2..(Today + 1) : Resolve(r, wanted)
          \/ LoadDataset(r) \/ Predict(r)
          \/ ReadHistory(r) \/ ShowPredictions(r) \/ ReadFile(r) \/ KeepHistory(r)
          \/ OpenHistory(r) \/ Persist(r) \/ PersistRaises(r)
    \/ ReloadRegistry \/ ServerRestarts

Batch    == focus = "batch" /\ ExecNext(mcbatches) /\ UNCHANGED rest
Daily    == focus = "daily" /\ PipelineNext
Health   == focus = "health" /\ HealthNext /\ UNCHANGED <<predictRequestVars, storeVars>>
Predicts == focus = "predict" /\ MCPredictNext
Locks    == focus = "lock" /\ LockNext
Caches   == focus = "cache" /\ CacheNext
Edit     == focus = "positions" /\ PositionsNext
Backtest == focus = "backtest" /\ BacktestNext
Nested   == focus = "nested" /\ NestedNext
Record   == focus = "record" /\ RecordingNext
Ask      == focus = "expression" /\ ExpressionNext
Collect  == focus = "collect" /\ FiniteNext
Serve    == focus = "online" /\ OnlineNext
\* A run after one that was torn, or had a csv file with a day missing or doubled, is not
\* asked about.
Dump     == focus = "dump" /\ ~torn /\ ~gapped /\ ~doubled /\ DumpNext

Look     == focus = "pit" /\ PitNext
Splice   == focus = "splice" /\ YahooNext
\* One update may overlap another one, or three follow each other.
Select   == focus = "pool" /\ PoolNext /\ (raced' => started' <= 2)
Sample   == focus = "sampler" /\ SamplerNext
Prepare  == focus = "prepare" /\ PreparationNext
Fitting  == focus = "train" /\ TrainingNext
Universe == focus = "universe" /\ UniverseNext

\* Components in three groups, to say what stays as it is.
liveVars == <<pipelineVars, predictVars, positionsVars>>
tableVars == <<samplerVars, preparationVars, universeVars>>
dataVars == <<lockVars, cacheVars, expressionVars, dumpVars, pitVars, yahooVars, poolVars, tableVars>>
researchVars == <<backtestVars, nestedVars, recordingVars, finiteVars, onlineVars, trainingVars>>

MCNext ==
    /\ UNCHANGED focus
    /\ \/ /\ UNCHANGED <<dataVars, researchVars>>
          /\ \/ (Batch \/ Daily) /\ UNCHANGED <<predictVars, positionsVars>>
             \/ (Health \/ Predicts) /\ UNCHANGED <<pipelineVars, positionsVars>>
             \/ Edit /\ UNCHANGED <<pipelineVars, predictVars>>
       \/ /\ UNCHANGED <<liveVars, researchVars>>
          /\ \/ Locks /\ UNCHANGED <<cacheVars, expressionVars, dumpVars, pitVars, yahooVars, poolVars, tableVars>>
             \/ Caches /\ UNCHANGED <<lockVars, expressionVars, dumpVars, pitVars, yahooVars, poolVars, tableVars>>
             \/ Ask /\ UNCHANGED <<lockVars, cacheVars, dumpVars, pitVars, yahooVars, poolVars, tableVars>>
             \/ Dump /\ UNCHANGED <<lockVars, cacheVars, expressionVars, pitVars, yahooVars, poolVars, tableVars>>
             \/ Look /\ UNCHANGED <<lockVars, cacheVars, expressionVars, dumpVars, yahooVars, poolVars, tableVars>>
             \/ Splice /\ UNCHANGED <<lockVars, cacheVars, expressionVars, dumpVars, pitVars, poolVars, tableVars>>
             \/ Select /\ UNCHANGED <<lockVars, cacheVars, expressionVars, dumpVars, pitVars, yahooVars, tableVars>>
             \/ /\ UNCHANGED <<lockVars, cacheVars, expressionVars, dumpVars, pitVars, yahooVars, poolVars>>
                /\ \/ Sample /\ UNCHANGED <<preparationVars, universeVars>>
                   \/ Prepare /\ UNCHANGED <<samplerVars, universeVars>>
                   \/ Universe /\ UNCHANGED <<samplerVars, preparationVars>>
       \/ /\ UNCHANGED <<liveVars, dataVars>>
          /\ \/ Backtest /\ UNCHANGED <<nestedVars, recordingVars, finiteVars, onlineVars, trainingVars>>
             \/ Nested /\ UNCHANGED <<backtestVars, recordingVars, finiteVars, onlineVars, trainingVars>>
             \/ Record /\ UNCHANGED <<backtestVars, nestedVars, finiteVars, onlineVars, trainingVars>>
             \/ Collect /\ UNCHANGED <<backtestVars, nestedVars, recordingVars, onlineVars, trainingVars>>
             \/ Serve /\ UNCHANGED <<backtestVars, nestedVars, recordingVars, finiteVars, trainingVars>>
             \/ Fitting /\ UNCHANGED <<backtestVars, nestedVars, recordingVars, finiteVars, onlineVars>>

MCSpec == MCInit /\ [][MCNext]_<<focus, liveVars, dataVars, researchVars>>
               /\ (focus = "health" => HealthFairness)
               /\ (focus = "record" => RecordingFairness)
               /\ (focus = "collect" => FiniteFairness)

TypeOK ==
    /\ PipelineTypeOK /\ PredictTypeOK /\ LockTypeOK /\ CacheTypeOK /\ PositionsTypeOK
    /\ BacktestTypeOK /\ RecordingTypeOK /\ FiniteTypeOK /\ OnlineTypeOK /\ DumpTypeOK
    /\ NestedTypeOK /\ PitTypeOK /\ YahooTypeOK /\ PoolTypeOK /\ SamplerTypeOK
    /\ PreparationTypeOK /\ TrainingTypeOK /\ UniverseTypeOK

CatchUp == focus = "health" => SnapshotCatchesUp

EvaluationEnds == focus = "collect" => CollectEnds
=============================================================================
