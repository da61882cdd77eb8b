---------------------------- MODULE ServicesProofs ----------------------------
(***************************************************************************)
(* MCServices for any number of nodes, days, symbols and calls: it begins  *)
(* as each component does, and each of its steps is a step of one          *)
(* component that the others do not notice, so all that is proved of a     *)
(* component by itself holds where they are checked together.              *)
(***************************************************************************)
EXTENDS MCServices, LiveProofs, CacheProofs, DataProofs, ResearchProofs

-----------------------------------------------------------------------------
(* The beginning.                                                          *)

LEMMA SamplerBegins == MCInit => SamplerInit
<1> SUFFICES ASSUME MCInit PROVE SamplerInit
  OBVIOUS
<1>1. CASE focus = "sampler"
  BY <1>1 DEF MCInit
<1>2. CASE focus # "sampler"
  <2>1. /\ frame = {} /\ keep = {} /\ segment = [first |-> 1, last |-> LastRow]
        /\ fill = "none" /\ reply = NoReply /\ inferDays = 1..LastRow
    BY <1>2 DEF MCInit
  <2>2. LastRow \in Nat /\ 1 \in 1..LastRow /\ LastRow \in 1..LastRow /\ 1 <= LastRow
    BY SamplerParameters
  <2>3. inferDays \in SUBSET (1..LastRow) /\ inferDays # {}
    BY <2>1, <2>2
  <2> QED BY <2>1, <2>2, <2>3 DEF SamplerInit, Fills
<1> QED BY <1>1, <1>2

LEMMA ServicesBegin ==
    MCInit => /\ PipelineInit /\ PredictInit /\ PositionsInit
              /\ LockInit /\ CacheInit /\ UniverseInit
              /\ DumpInit /\ PitInit /\ YahooInit /\ PoolInit
              /\ SamplerInit /\ PreparationInit
              /\ BacktestInit /\ NestedInit /\ RecordingInit /\ FiniteInit /\ OnlineInit
              /\ TrainingInit
BY SamplerBegins DEF MCInit

-----------------------------------------------------------------------------
(* The steps.                                                              *)

\* Batches are executed by themselves, or in the daily run.
BatchStep == [ExecNext(mcbatches) /\ UNCHANGED rest]_pipelineVars

LiveMoves ==
    /\ focus = "batch" => BatchStep
    /\ focus # "batch" => [PipelineNext]_pipelineVars
    /\ [PredictNext]_predictVars
    /\ [PositionsNext]_positionsVars

DataMoves ==
    /\ [LockNext]_lockVars
    /\ [CacheNext]_cacheVars
    /\ [ExpressionNext]_expressionVars
    /\ [DumpNext]_dumpVars
    /\ [PitNext]_pitVars
    /\ [YahooNext]_yahooVars
    /\ [PoolNext]_poolVars
    /\ [SamplerNext]_samplerVars
    /\ [PreparationNext]_preparationVars
    /\ [UniverseNext]_universeVars

ResearchMoves ==
    /\ [BacktestNext]_backtestVars
    /\ [NestedNext]_nestedVars
    /\ [RecordingNext]_recordingVars
    /\ [FiniteNext]_finiteVars
    /\ [OnlineNext]_onlineVars
    /\ [TrainingNext]_trainingVars

LEMMA LiveRests == UNCHANGED liveVars => LiveMoves
BY DEF liveVars, LiveMoves, BatchStep

LEMMA DataRests == UNCHANGED dataVars => DataMoves
BY DEF dataVars, tableVars, DataMoves

LEMMA ResearchRests == UNCHANGED researchVars => ResearchMoves
BY DEF researchVars, ResearchMoves

LEMMA LiveSteps ==
    ASSUME \/ (Batch \/ Daily) /\ UNCHANGED <<predictVars, positionsVars>>
           \/ (Health \/ Predicts) /\ UNCHANGED <<pipelineVars, positionsVars>>
           \/ Edit /\ UNCHANGED <<pipelineVars, predictVars>>
    PROVE  LiveMoves
<1>1. CASE (Batch \/ Daily) /\ UNCHANGED <<predictVars, positionsVars>>
  <2>1. UNCHANGED predictVars /\ UNCHANGED positionsVars
    BY <1>1
  <2>2. CASE Batch
    <3>1. focus = "batch" /\ BatchStep
      BY <2>2 DEF Batch, BatchStep
    <3> QED BY <2>1, <3>1 DEF LiveMoves
  <2>3. CASE Daily
    <3>1. focus # "batch" /\ PipelineNext
      BY <2>3 DEF Daily
    <3> QED BY <2>1, <3>1 DEF LiveMoves
  <2> QED BY <1>1, <2>2, <2>3
<1>2. CASE (Health \/ Predicts) /\ UNCHANGED <<pipelineVars, positionsVars>>
  <2>1. UNCHANGED pipelineVars /\ UNCHANGED positionsVars
    BY <1>2
  <2>2. CASE Health
    BY <2>1, <2>2 DEF Health, PredictNext, LiveMoves, BatchStep
  <2>3. CASE Predicts
    <3>1. MCPredictNext
      BY <2>3 DEF Predicts
    <3>2. PredictNext
      BY <3>1 DEF MCPredictNext, PredictNext, HealthNext
    <3> QED BY <2>1, <3>2 DEF LiveMoves, BatchStep
  <2> QED BY <1>2, <2>2, <2>3
<1>3. CASE Edit /\ UNCHANGED <<pipelineVars, predictVars>>
  BY <1>3 DEF Edit, LiveMoves, BatchStep
<1> QED BY <1>1, <1>2, <1>3

LEMMA DataSteps ==
    ASSUME \/ Locks /\ UNCHANGED <<cacheVars, expressionVars, dumpVars, pitVars, yahooVars, poolVars, tableVars>>
           \/ Caches /\ UNCHANGED <<lockVars, expressionVars, dumpVars, pitVars, yahooVars, poolVars, tableVars>>
           \/ Ask /\ UNCHANGED <<lockVars, cacheVars, dumpVars, pitVars, yahooVars, poolVars, tableVars>>
           \/ Dump /\ UNCHANGED <<lockVars, cacheVars, expressionVars, pitVars, yahooVars, poolVars, tableVars>>
           \/ Look /\ UNCHANGED <<lockVars, cacheVars, expressionVars, dumpVars, yahooVars, poolVars, tableVars>>
           \/ Splice /\ UNCHANGED <<lockVars, cacheVars, expressionVars, dumpVars, pitVars, poolVars, tableVars>>
           \/ Select /\ UNCHANGED <<lockVars, cacheVars, expressionVars, dumpVars, pitVars, yahooVars, tableVars>>
           \/ /\ UNCHANGED <<lockVars, cacheVars, expressionVars, dumpVars, pitVars, yahooVars, poolVars>>
              /\ \/ Sample /\ UNCHANGED <<preparationVars, universeVars>>
                 \/ Prepare /\ UNCHANGED <<samplerVars, universeVars>>
                 \/ Universe /\ UNCHANGED <<samplerVars, preparationVars>>
    PROVE  DataMoves
<1>1. [LockNext]_lockVars
  BY DEF Locks
<1>2. [CacheNext]_cacheVars
  BY DEF Caches
<1>3. [ExpressionNext]_expressionVars
  BY DEF Ask
<1>4. [DumpNext]_dumpVars
  BY DEF Dump
<1>5. [PitNext]_pitVars
  BY DEF Look
<1>6. [YahooNext]_yahooVars
  BY DEF Splice
<1>7. [PoolNext]_poolVars
  BY DEF Select
<1>8. [SamplerNext]_samplerVars
  BY DEF Sample, tableVars
<1>9. [PreparationNext]_preparationVars
  BY DEF Prepare, tableVars
<1>10. [UniverseNext]_universeVars
  BY DEF Universe, tableVars
<1> QED BY <1>1, <1>2, <1>3, <1>4, <1>5, <1>6, <1>7, <1>8, <1>9, <1>10 DEF DataMoves

LEMMA ResearchSteps ==
    ASSUME \/ Backtest /\ UNCHANGED <<nestedVars, recordingVars, finiteVars, onlineVars, trainingVars>>
           \/ Nested /\ UNCHANGED <<backtestVars, recordingVars, finiteVars, onlineVars, trainingVars>>
           \/ Record /\ UNCHANGED <<backtestVars, nestedVars, finiteVars, onlineVars, trainingVars>>
           \/ Collect /\ UNCHANGED <<backtestVars, nestedVars, recordingVars, onlineVars, trainingVars>>
           \/ Serve /\ UNCHANGED <<backtestVars, nestedVars, recordingVars, finiteVars, trainingVars>>
           \/ Fitting /\ UNCHANGED <<backtestVars, nestedVars, recordingVars, finiteVars, onlineVars>>
    PROVE  ResearchMoves
<1>1. [BacktestNext]_backtestVars
  BY DEF Backtest
<1>2. [NestedNext]_nestedVars
  BY DEF Nested
<1>3. [RecordingNext]_recordingVars
  BY DEF Record
<1>4. [FiniteNext]_finiteVars
  BY DEF Collect
<1>5. [OnlineNext]_onlineVars
  BY DEF Serve
<1>6. [TrainingNext]_trainingVars
  BY DEF Fitting
<1> QED BY <1>1, <1>2, <1>3, <1>4, <1>5, <1>6 DEF ResearchMoves

LEMMA ServicesMove ==
    [MCNext]_<<focus, liveVars, dataVars, researchVars>>
        => focus' = focus /\ LiveMoves /\ DataMoves /\ ResearchMoves
<1>1. CASE UNCHANGED <<focus, liveVars, dataVars, researchVars>>
  BY <1>1, LiveRests, DataRests, ResearchRests
<1>2. CASE MCNext
  <2>1. focus' = focus
    BY <1>2 DEF MCNext
  <2>2. LiveMoves
    BY <1>2, LiveRests, LiveSteps DEF MCNext
  <2>3. DataMoves
    BY <1>2, DataRests, DataSteps DEF MCNext
  <2>4. ResearchMoves
    BY <1>2, ResearchRests, ResearchSteps DEF MCNext
  <2> QED BY <2>1, <2>2, <2>3, <2>4
<1> QED BY <1>1, <1>2

-----------------------------------------------------------------------------
(* Batches and daily runs: which of the two it is never changes.            *)

BatchInv ==
    /\ ExecInv /\ ExecTypeInv
    /\ phase = "off" /\ targets = {} /\ book = [shares |-> [s \in Stock |-> 1], cash |-> Cash]
    /\ runs = 0 /\ astray = FALSE

OrderingInv == IF focus = "batch" THEN BatchInv ELSE PipelineInv /\ PipelineTypeInv

LEMMA BatchesAre == mcbatches \in SUBSET Seq(Orders)
<1>1. mcorders \subseteq Orders
  BY DEF mcorders, Orders
<1>2. ASSUME NEW n \in 1..2, NEW b \in [1..n -> mcorders] PROVE b \in Seq(Orders)
  <2>1. n \in Nat /\ b \in [1..n -> Orders]
    BY <1>1
  <2> QED BY <2>1
<1> QED BY <1>2 DEF mcbatches

LEMMA OrderingInit == PipelineInit => OrderingInv
<1> SUFFICES ASSUME PipelineInit PROVE OrderingInv
  OBVIOUS
<1> DEFINE atStart == [k \in Adapter |-> [s \in Stock |-> IF k = "paper" THEN 0 ELSE 1]]
<1>1. ExecInit(atStart) /\ atStart \in [Adapter -> [Stock -> Nat]]
  BY DEF PipelineInit
<1> HIDE DEF atStart
<1>2. ExecInv /\ ExecTypeInv
  BY <1>1, ExecInvInit, ExecTypeInit
<1>3. BatchInv
  BY <1>2 DEF PipelineInit, BatchInv
<1> QED BY <1>3, PipelineInvInit, PipelineTypeInit DEF OrderingInv

LEMMA OrderingKeeps == OrderingInv /\ focus' = focus /\ LiveMoves => OrderingInv'
<1> SUFFICES ASSUME OrderingInv, focus' = focus, LiveMoves PROVE OrderingInv'
  OBVIOUS
<1>1. CASE focus = "batch"
  <2>1. BatchInv /\ BatchStep
    BY <1>1 DEF OrderingInv, LiveMoves
  <2>2. [ExecNext(mcbatches)]_execVars /\ UNCHANGED <<phase, targets, book, runs, astray>>
    BY <2>1 DEF BatchStep, pipelineVars, rest
  <2>3. ExecInv' /\ ExecTypeInv'
    BY <2>1, <2>2, BatchesAre, ExecInvStep, ExecTypeNext DEF BatchInv
  <2>4. BatchInv'
    BY <2>1, <2>2, <2>3 DEF BatchInv
  <2> QED BY <1>1, <2>4 DEF OrderingInv
<1>2. CASE focus # "batch"
  <2>1. PipelineInv /\ PipelineTypeInv /\ [PipelineNext]_pipelineVars
    BY <1>2 DEF OrderingInv, LiveMoves
  <2>2. PipelineInv' /\ PipelineTypeInv'
    BY <2>1, PipelineInvNext, PipelineTypeNext
  <2> QED BY <1>2, <2>2 DEF OrderingInv
<1> QED BY <1>1, <1>2

LEMMA OrderingHolds == OrderingInv => PipelineTypeOK /\ OrdersAccounted /\ BookTrue
<1> SUFFICES ASSUME OrderingInv PROVE PipelineTypeOK /\ OrdersAccounted /\ BookTrue
  OBVIOUS
<1>1. CASE focus = "batch"
  <2>1. BatchInv
    BY <1>1 DEF OrderingInv
  <2>2. book \in Books
    BY <2>1, ExecutionAssumption DEF BatchInv, Books, ExecutionAssumption
  <2>3. runs \in 0..MaxRuns
    BY <2>1, PipelineAssumption DEF BatchInv, PipelineAssumption
  <2>4. PipelineTypeOK
    BY <2>1, <2>2, <2>3 DEF BatchInv, PipelineTypeOK, ExecTypeInv
  <2> QED BY <2>1, <2>4, ExecInvImplies DEF BatchInv, BookTrue
<1>2. CASE focus # "batch"
  <2>1. PipelineInv /\ PipelineTypeInv
    BY <1>2 DEF OrderingInv
  <2>2. BookTrue
    BY <2>1 DEF PipelineInv, Ledger, AtRest, BookTrue, SettledShares, Funds
  <2> QED BY <2>1, <2>2, ExecInvImplies DEF PipelineInv, PipelineTypeInv
<1> QED BY <1>1, <1>2

-----------------------------------------------------------------------------
(* What is proved of the components.                                        *)

LEMMA FeatureIsTree == Feature \in Trees
<1>1. PICK U : Layered(U, Windowed)
  BY TreesAre
<1>2. 0 \in 0..MaxNesting
  BY ExpressionAssumption
<1> QED BY <1>1, <1>2 DEF Layered

LEMMA ExpressionBegins == MCInit => ExpressionInit
<1> SUFFICES ASSUME MCInit PROVE ExpressionInit
  OBVIOUS
<1>1. CASE focus = "expression"
  BY <1>1 DEF MCInit
<1>2. CASE focus # "expression"
  <2>1. /\ tree = Feature /\ answer = Unanswered
        /\ stored = [first |-> 0, last |-> MaxDay] /\ asks = stored
    BY <1>2 DEF MCInit
  <2>2. stored \in DayRange
    BY <2>1, ExpressionAssumption DEF DayRange
  <2>3. Feature \in Trees
    BY FeatureIsTree
  <2> QED BY <2>1, <2>2, <2>3 DEF ExpressionInit
<1> QED BY <1>1, <1>2

\* Each component runs by its own specification, but for two: orders may come from batches
\* alone, and the environments are only fair when they are in focus.
LEMMA ServicesRun ==
    MCSpec => /\ PredictSpec /\ PositionsSpec
              /\ LockSpec /\ CacheSpec /\ UniverseSpec
              /\ ExpressionSpec /\ DumpSpec /\ PitSpec /\ YahooSpec /\ PoolSpec
              /\ SamplerSpec /\ PreparationSpec
              /\ BacktestSpec /\ NestedSpec /\ RecordingSpec /\ OnlineSpec /\ TrainingSpec
<1>1. [MCNext]_<<focus, liveVars, dataVars, researchVars>> =>
          /\ [PredictNext]_predictVars /\ [PositionsNext]_positionsVars
          /\ [LockNext]_lockVars /\ [CacheNext]_cacheVars /\ [UniverseNext]_universeVars
          /\ [ExpressionNext]_expressionVars /\ [DumpNext]_dumpVars /\ [PitNext]_pitVars
          /\ [YahooNext]_yahooVars /\ [PoolNext]_poolVars
          /\ [SamplerNext]_samplerVars /\ [PreparationNext]_preparationVars
          /\ [BacktestNext]_backtestVars /\ [NestedNext]_nestedVars
          /\ [RecordingNext]_recordingVars /\ [OnlineNext]_onlineVars
          /\ [TrainingNext]_trainingVars
  BY ServicesMove DEF LiveMoves, DataMoves, ResearchMoves
<1> QED
  BY <1>1, ServicesBegin, ExpressionBegins, PTL
  DEF MCSpec, PredictSpec, PositionsSpec, LockSpec, CacheSpec, UniverseSpec, ExpressionSpec,
      DumpSpec, PitSpec, YahooSpec, PoolSpec, SamplerSpec, PreparationSpec, BacktestSpec,
      NestedSpec, RecordingSpec, OnlineSpec, TrainingSpec

LEMMA ServicesOrder == MCSpec => [](PipelineTypeOK /\ OrdersAccounted /\ BookTrue)
<1>1. MCInit => OrderingInv
  BY ServicesBegin, OrderingInit
<1>2. OrderingInv /\ [MCNext]_<<focus, liveVars, dataVars, researchVars>> => OrderingInv'
  BY ServicesMove, OrderingKeeps
<1> QED BY <1>1, <1>2, OrderingHolds, PTL DEF MCSpec

LEMMA ServicesCollect == MCSpec => [](FiniteTypeOK /\ SeedsOnce)
<1>1. MCInit => FiniteInv /\ SeedsInRange
  BY ServicesBegin, InitInv, SeedsInRangeInit
<1>2. FiniteInv /\ SeedsInRange /\ [MCNext]_<<focus, liveVars, dataVars, researchVars>>
          => FiniteInv' /\ SeedsInRange'
  <2>1. [MCNext]_<<focus, liveVars, dataVars, researchVars>> => [FiniteNext]_finiteVars
    BY ServicesMove DEF ResearchMoves
  <2> QED BY <2>1, FiniteNextKeeps, SeedsInRangeNext
<1> QED BY <1>1, <1>2, FiniteTyped, SeedsHold, PTL DEF MCSpec

\* No service, script or backtest leaves its types: of whatever sizes, and whichever of
\* them runs, what they keep in files, caches, queues and accounts stays what it is
\* declared to be.
THEOREM ServicesTypeCorrect == MCSpec => []TypeOK
<1>1. MCSpec => [](/\ PredictTypeOK /\ PositionsTypeOK /\ LockTypeOK /\ CacheTypeOK /\ UniverseTypeOK
                   /\ DumpTypeOK /\ PitTypeOK /\ YahooTypeOK /\ PoolTypeOK
                   /\ SamplerTypeOK /\ PreparationTypeOK)
  BY ServicesRun, PredictTypeCorrect, PositionsTypeCorrect, LockTypeCorrect, CacheTypeCorrect,
     UniverseTypeCorrect, DumpTypeCorrect, PitTypeCorrect, YahooTypeCorrect, PoolTypeCorrect,
     SamplerTypeCorrect, PreparationTypeCorrect, PTL
<1>2. MCSpec => [](/\ BacktestTypeOK /\ NestedTypeOK /\ RecordingTypeOK /\ OnlineTypeOK
                   /\ TrainingTypeOK)
  BY ServicesRun, BacktestTypeCorrect, NestedTypeCorrect, RecordingTypeCorrect,
     OnlineTypeCorrect, TrainingTypeCorrect, PTL
<1>3. (/\ PredictTypeOK /\ PositionsTypeOK /\ LockTypeOK /\ CacheTypeOK /\ UniverseTypeOK
       /\ DumpTypeOK /\ PitTypeOK /\ YahooTypeOK /\ PoolTypeOK
       /\ SamplerTypeOK /\ PreparationTypeOK)
      /\ (/\ BacktestTypeOK /\ NestedTypeOK /\ RecordingTypeOK /\ OnlineTypeOK
          /\ TrainingTypeOK)
      /\ (PipelineTypeOK /\ OrdersAccounted /\ BookTrue) /\ (FiniteTypeOK /\ SeedsOnce)
      => TypeOK
  BY DEF TypeOK
<1> QED BY <1>1, <1>2, <1>3, ServicesOrder, ServicesCollect, PTL

\* All that is checked of the services of a small site holds of every one, and of all of
\* them in one specification: a component keeps its promise where it is checked beside
\* the others.
THEOREM ServicesAreTrue ==
    MCSpec => [](/\ OrdersAccounted /\ BookTrue /\ NoLookAhead /\ HistoryKept /\ FileHonest
                 /\ WriterAloneInTime /\ CachesTrue /\ FeaturesTrue
                 /\ BinsInPlace /\ KnownByThen /\ ReturnsTrue /\ PoolTrue
                 /\ PortfolioSound /\ SplitTrue /\ LogsComplete /\ SeedsOnce /\ ModelsTrue)
<1>1. MCSpec => [](/\ NoLookAhead /\ HistoryKept /\ FileHonest /\ WriterAloneInTime /\ CachesTrue)
  BY ServicesRun, PredictionsLookBack, HistoryIsKept, EditsAreKept, WritersAlone, CachesAreTrue, PTL
<1>2. MCSpec => [](/\ FeaturesTrue /\ BinsInPlace /\ KnownByThen /\ ReturnsTrue /\ PoolTrue)
  BY ServicesRun, FeaturesAreTrue, DumpsAreInPlace, KnownThen, ReturnsAreTrue, PoolIsTrue, PTL
<1>3. MCSpec => [](/\ PortfolioSound /\ SplitTrue /\ LogsComplete /\ ModelsTrue)
  BY ServicesRun, PortfolioIsSound, OrdersAreSplit, FinishedMeansComplete, ModelsAreTrue, PTL
<1> QED BY <1>1, <1>2, <1>3, ServicesOrder, ServicesCollect, PTL
=============================================================================
