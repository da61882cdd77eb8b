-------------------------------- MODULE Models --------------------------------
(***************************************************************************)
(* The two ways models are trained and put to use: the rolling models of   *)
(* the online manager and the policies of reinforcement learning.          *)
(***************************************************************************)
EXTENDS OnlineRolling, PolicyTraining

\* What has been trained is kept and used: policies, their checkpoints, and the models
\* whose segment a day is in.
ModelsTrue == SignalsTrue /\ TrainingKept
=============================================================================
