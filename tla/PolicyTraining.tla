---------------------------- MODULE PolicyTraining ----------------------------
(***************************************************************************)
(* Trainer.fit (rl/trainer/trainer.py) with the callbacks EarlyStopping    *)
(* and Checkpoint: iterations of one collect and one update each, a        *)
(* validation after some of them, checkpoints on disk.  The process may be *)
(* killed anywhere and a later fit may start from any checkpoint, or again *)
(* from nothing; fit may be called twice on the same objects.              *)
(*                                                                         *)
(* The weights of a policy are known by the number of the update that made *)
(* them.  Rewards are 1..MaxReward; 0 is a reward that is not a number.    *)
(***************************************************************************)
EXTENDS Integers, FiniteSets

CONSTANTS
    MaxIters,   \* max_iters
    MaxReward,  \* bound on the rewards of a validation
    MaxPolicies, \* bound on the updates of all fits together
    MaxKills    \* bound on the kills

ASSUME TrainingAssumption ==
    MaxIters \in Nat \ {0} /\ MaxReward \in Nat /\ MaxPolicies \in Nat /\ MaxKills \in Nat

Weights == 0..MaxPolicies
Saved   == [iter : 0..MaxIters, stop : BOOLEAN, policy : Weights]
NoFile  == [is |-> "none"]
TornFile    == [is |-> "torn"]
File    == {NoFile, TornFile} \cup [is : {"whole"}, of : Saved]
Dangling == [is |-> "dangling"] \* a link to a file that is not there
LatestPth  == File \cup {Dangling} \cup [is : {"link"}, to : 1..MaxIters]
None    == -1 \* best_weights, _last_checkpoint_iter: nothing yet

VARIABLES
    opts,    \* arguments of the callbacks and val_every_n_iters; relative: dirpath is
             \* a relative path
    fitAt,   \* where fit stands: "off", "train", "validate", "iter_end", "fit_end",
             \* "write", "unlink", "latest", "copy" (in _save_checkpoint), "ended", "killed"
    iter,    \* current_iter
    stop,    \* should_stop
    policy,  \* the weights in the vessel
    early,   \* EarlyStopping: wait, best, weights
    lastCkpt,\* _last_checkpoint_iter
    files,   \* dirpath: files[i] is the checkpoint named after iteration i
    latest,  \* latest.pth
    policies,\* auxiliary: updates of a policy so far
    kills,   \* auxiliary: kills so far
    begun,   \* auxiliary: the iteration this fit began at
    seen,    \* auxiliary: what this fit has validated, with its rewards
    restored,\* auxiliary: EarlyStopping has loaded the best weights
    reused,  \* auxiliary: the callbacks have served an earlier fit
    cut      \* auxiliary: the last save was killed

trainingVars == <<opts, fitAt, iter, stop, policy, early, lastCkpt, files, latest,
                  policies, kills, begun, seen, restored, reused, cut>>
ckptVars == <<files, latest>>
fitAux == <<begun, seen, restored, reused>>

Saving == {"write", "unlink", "latest", "copy"}
NotFitting   == {"off", "ended", "killed"}

Opts == [valEvery : 1..2, saveEvery : 1..2, patience : 0..2, restore : BOOLEAN,
         save_latest : {"link", "copy"}, relative : BOOLEAN]

TrainingTypeOK ==
    /\ opts \in Opts
    /\ fitAt \in {"train", "validate", "iter_end", "fit_end"} \cup Saving \cup NotFitting
    /\ iter \in 0..MaxIters /\ stop \in BOOLEAN
    /\ policy \in Weights
    /\ early \in [wait : Nat, best : 0..MaxReward, weights : Weights \cup {None}]
    /\ lastCkpt \in 0..MaxIters \cup {None}
    /\ files \in [1..MaxIters -> File] /\ latest \in LatestPth
    /\ policies \in Weights /\ kills \in 0..MaxKills
    /\ seen \subseteq [policy : Weights, reward : 0..MaxReward]
    /\ begun \in 0..MaxIters /\ restored \in BOOLEAN /\ reused \in BOOLEAN /\ cut \in BOOLEAN

\* EarlyStopping.on_fit_start; -inf is a 0 too, every reward is more.
FreshEarly == [wait |-> 0, best |-> 0, weights |-> None]

TrainingInit ==
    /\ opts \in Opts
    /\ fitAt = "off" /\ iter = 0 /\ stop = FALSE /\ policy = 0
    /\ early = FreshEarly /\ lastCkpt = None
    /\ files = [i \in 1..MaxIters |-> NoFile] /\ latest = NoFile
    /\ policies = 0 /\ kills = 0 /\ begun = 0 /\ seen = {}
    /\ restored = FALSE /\ reused = FALSE /\ cut = FALSE

Checkpoints == {files[i].of : i \in {j \in 1..MaxIters : files[j].is = "whole"}}

\* fit up to its loop.  on_fit_start comes after load_state_dict, so what the
\* file holds of EarlyStopping is lost again.  Checkpoint keeps nothing in it.
Fit(from) ==
    /\ fitAt \in NotFitting
    /\ iter' = from.iter /\ stop' = from.stop /\ policy' = from.policy
    /\ fitAt' = IF from.stop THEN "fit_end" ELSE "train"
    /\ early' = FreshEarly /\ begun' = from.iter /\ seen' = {} /\ restored' = FALSE
    /\ UNCHANGED <<opts, ckptVars, policies, kills, cut>>

\* The objects of a fit that has ended, or those of a new process.
FitAgain ==
    /\ fitAt = "ended"
    /\ \E from \in Checkpoints \cup {[iter |-> 0, stop |-> FALSE, policy |-> policy]} : Fit(from)
    /\ reused' = TRUE
    /\ UNCHANGED lastCkpt

FitAnew ==
    /\ \E from \in Checkpoints \cup {[iter |-> 0, stop |-> FALSE, policy |-> 0]} : Fit(from)
    /\ reused' = FALSE
    /\ lastCkpt' = None

\* vessel.train: one collect and the update of the policy.
TrainVessel ==
    /\ fitAt = "train"
    /\ policies < MaxPolicies
    /\ policies' = policies + 1
    /\ policy' = policies'
    /\ fitAt' = IF (iter + 1) % opts.valEvery = 0 THEN "validate" ELSE "iter_end"
    /\ UNCHANGED <<opts, iter, stop, early, lastCkpt, ckptVars, kills, fitAux, cut>>

\* EarlyStopping.on_validate_end up to the question whether to stop, with no
\* baseline and no min_delta.  The weights of the first validation are kept even
\* if its reward is not a number.
KeepBest(reward) ==
    LET better == reward > early.best IN
    [wait    |-> IF better THEN 0 ELSE early.wait + 1,
     best    |-> IF better THEN reward ELSE early.best,
     weights |-> IF opts.restore /\ (better \/ early.weights = None)
                 THEN policy ELSE early.weights]

\* A validation; the weights go back to the best ones when it stops the training.
Validate(reward) ==
    LET e     == KeepBest(reward)
        stops == e.wait >= opts.patience /\ iter > 0
        back  == stops /\ opts.restore
    IN  /\ fitAt = "validate"
        /\ early' = e
        /\ stop' = (stop \/ stops)
        /\ policy' = IF back THEN e.weights ELSE policy
        /\ restored' = (restored \/ back)
        /\ seen' = seen \cup {[policy |-> policy, reward |-> reward]}
        /\ fitAt' = "iter_end"
        /\ UNCHANGED <<opts, iter, lastCkpt, ckptVars, policies, kills, begun, reused, cut>>

\* The monitored metric is not among those of the validation.
ValidateUnmonitored ==
    /\ fitAt = "validate"
    /\ fitAt' = "iter_end"
    /\ UNCHANGED <<opts, iter, stop, policy, early, lastCkpt, ckptVars, policies, kills, fitAux, cut>>

AfterSave == IF stop THEN "fit_end" ELSE "train"

\* _save_checkpoint up to the first byte of the file named after iteration i.
BeginSave(i) ==
    /\ lastCkpt' = i
    /\ files' = [files EXCEPT ![i] = TornFile]
    /\ fitAt' = "write"

\* The end of an iteration: the counter moves first, then Checkpoint.on_iter_end
\* adds one to it once more.
IterEnd ==
    /\ fitAt = "iter_end"
    /\ iter' = iter + 1
    /\ stop' = (stop \/ iter' >= MaxIters)
    /\ IF (iter' + 1) % opts.saveEvery = 0
       THEN BeginSave(iter')
       ELSE /\ fitAt' = IF stop' THEN "fit_end" ELSE "train"
            /\ UNCHANGED <<lastCkpt, files>>
    /\ UNCHANGED <<opts, policy, early, latest, policies, kills, fitAux, cut>>

\* Checkpoint.on_fit_end.
FitEnd ==
    /\ fitAt = "fit_end"
    /\ IF iter # lastCkpt
       THEN BeginSave(iter)
       ELSE fitAt' = "ended" /\ UNCHANGED <<lastCkpt, files>>
    /\ UNCHANGED <<opts, iter, stop, policy, early, latest, policies, kills, fitAux, cut>>

\* torch.save is through; then latest.pth is removed and made again.
FileWritten ==
    /\ fitAt = "write"
    /\ files' = [files EXCEPT ![iter] =
                    [is |-> "whole", of |-> [iter |-> iter, stop |-> stop, policy |-> policy]]]
    /\ fitAt' = "unlink"
    /\ UNCHANGED <<opts, iter, stop, policy, early, lastCkpt, latest, policies, kills, fitAux, cut>>

Unlink ==
    /\ fitAt = "unlink"
    /\ latest' = NoFile
    /\ fitAt' = "latest"
    /\ UNCHANGED <<opts, iter, stop, policy, early, lastCkpt, files, policies, kills, fitAux, cut>>

\* The link's text is dirpath / name, and a link is read from its own directory, dirpath.
MakeLatest ==
    /\ fitAt = "latest"
    /\ \/ /\ opts.save_latest = "link"
          /\ latest' = IF opts.relative THEN Dangling ELSE [is |-> "link", to |-> iter]
          /\ fitAt' = AfterSave /\ cut' = FALSE
       \/ /\ opts.save_latest = "copy"
          /\ latest' = TornFile
          /\ fitAt' = "copy" /\ UNCHANGED cut
    /\ UNCHANGED <<opts, iter, stop, policy, early, lastCkpt, files, policies, kills, fitAux>>

Copied ==
    /\ fitAt = "copy"
    /\ latest' = files[iter]
    /\ fitAt' = AfterSave /\ cut' = FALSE
    /\ UNCHANGED <<opts, iter, stop, policy, early, lastCkpt, files, policies, kills, fitAux>>

KillFit ==
    /\ fitAt \notin NotFitting
    /\ kills < MaxKills
    /\ kills' = kills + 1
    /\ fitAt' = "killed"
    /\ cut' = (cut \/ fitAt \in Saving)
    /\ UNCHANGED <<opts, iter, stop, policy, early, lastCkpt, ckptVars, policies, fitAux>>

TrainingNext ==
    \/ FitAgain \/ FitAnew
    \/ TrainVessel
    \/ (\E reward \in 0..MaxReward : Validate(reward)) \/ ValidateUnmonitored
    \/ IterEnd \/ FitEnd
    \/ FileWritten \/ Unlink \/ MakeLatest \/ Copied
    \/ KillFit

TrainingSpec == TrainingInit /\ [][TrainingNext]_trainingVars

-----------------------------------------------------------------------------
\* Properties.

\* Early stopping leaves the weights with the best reward of all this fit has
\* validated (callbacks.py:163-169), and not those of the iteration it stopped in.
BestKept ==
    restored => \E best \in seen :
                   /\ best.policy = policy
                   /\ \A s \in seen : s.reward <= best.reward

\* latest.pth is a link that leads nowhere: dirpath / dirpath / name.
LinkLost == opts.save_latest = "link" /\ opts.relative

\* What latest.pth holds.
LatestHolds == IF latest.is = "link" THEN files[latest.to] ELSE latest

\* fit returns only after the weights it leaves are on disk, under the number of its
\* last iteration and, unless the link is lost, as the latest ones, as long as its
\* callbacks are its own: Checkpoint takes the iteration of an earlier fit for one of this.
FinalSaved ==
    fitAt = "ended" /\ ~reused =>
        /\ files[iter] = [is |-> "whole", of |-> [iter |-> iter, stop |-> stop, policy |-> policy]]
        /\ ~LinkLost => LatestHolds = files[iter]

\* Unless a save was killed or the link is lost, latest.pth is one of the checkpoints and
\* complete.
LatestWhole ==
    ~cut /\ ~LinkLost /\ fitAt \notin Saving /\ latest.is # "none" =>
        LatestHolds.is = "whole" /\ files[LatestHolds.of.iter] = LatestHolds

\* A kill costs at most saveEvery of the iterations of a fit, even one that cuts a save
\* short: a complete checkpoint is no older than that, or the fit began no earlier.
LossBounded ==
    \/ iter - begun <= opts.saveEvery
    \/ \E i \in (iter - opts.saveEvery)..iter : files[i].is = "whole"

TrainingKept == BestKept /\ FinalSaved /\ LatestWhole /\ LossBounded
=============================================================================
