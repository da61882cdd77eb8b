------------------------------- MODULE Features -------------------------------
(***************************************************************************)
(* From stored data to what models learn from: expressions are evaluated,  *)
(* the frames of a dataset processed, and windows of time cut from them.   *)
(***************************************************************************)
EXTENDS Expression, TimeSeriesSampler, DatasetPreparation

\* What models learn from: whole windows of the stored data, of the right days and stock,
\* processed as the diagrams say and without a look at the test data.
FeaturesTrue == WindowEnough /\ SamplesTrue /\ PreparationTrue
=============================================================================
