-------------------------- MODULE DatasetPreparation --------------------------
(***************************************************************************)
(* The processing of a dataset: DataHandlerLP (data/dataset/handler.py)    *)
(* derives the frames for inference and for learning from the raw one,     *)
(* with processors some of which learn from the data and write in place    *)
(* (data/dataset/processor.py); DatasetH (data/dataset/__init__.py) checks *)
(* up to which day they may learn.  A dataset is configured again and set  *)
(* up again as the training is rolled forward.                             *)
(*                                                                         *)
(* Days are 1..LastFrameDay.  A frame is known by its last day and by the  *)
(* processors it went through, in order, each with the last day of what    *)
(* its statistics have seen.                                               *)
(***************************************************************************)
EXTENDS Integers, Sequences, FiniteSetsExt

CONSTANTS
    LastFrameDay,
    MaxProcs \* bound on the processors of a stage

ASSUME FrameAssumption == LastFrameDay \in Nat \ {0} /\ MaxProcs \in Nat

FrameDay == 1..LastFrameDay
NoDay    == 0 \* fit_end_time or a segment's end is None; not fitted

\* Kinds of processors: "norm" learns from the frame and writes in place, "drop" and
\* "label" are readonly; "label" (DropnaLabel) is not for inference.
Lists(kinds) == UNION {[1..n -> kinds] : n \in 0..MaxProcs}
Pipelines == [shared : Lists({"norm", "drop"}), infer : Lists({"norm", "drop"}),
              learn : Lists({"norm", "label"}), append : BOOLEAN]
Stages == {"shared", "infer", "learn"}

VARIABLES
    pipeline,  \* the processors and the process_type
    handlerEnd,\* end_time of the handler
    fitEnd,    \* fit_end_time of its processors
    trainEnd,  \* end of the train segment
    stats,     \* stats[stage][i]: last day of what that processor has learnt from
    frames,    \* _data, _infer, _learn
    prepared,  \* "no", "yes", "stale": configured since the frames were made
    fitFor,    \* auxiliary: fitEnd at the last fit
    doubted    \* auxiliary: config raised, or moved the train segment back after a fit

preparationVars == <<pipeline, handlerEnd, fitEnd, trainEnd, stats, frames, prepared, fitFor, doubted>>

Frames == [last : 0..LastFrameDay, steps : Seq(Stages \X (1..MaxProcs) \X (0..LastFrameDay))]
Empty  == [last |-> 0, steps |-> <<>>]

PreparationTypeOK ==
    /\ pipeline \in Pipelines
    /\ handlerEnd \in 0..LastFrameDay /\ fitEnd \in 0..LastFrameDay /\ trainEnd \in 0..LastFrameDay
    /\ stats \in [Stages -> [1..MaxProcs -> 0..LastFrameDay]]
    /\ frames \in [{"raw", "infer", "learn"} -> Frames]
    /\ prepared \in {"no", "yes", "stale"}
    /\ fitFor \in 0..LastFrameDay /\ doubted \in BOOLEAN

PreparationInit ==
    /\ pipeline \in Pipelines
    /\ handlerEnd = 0 /\ fitEnd = NoDay /\ trainEnd = NoDay
    /\ stats = [g \in Stages |-> [i \in 1..MaxProcs |-> NoDay]]
    /\ frames = [k \in {"raw", "infer", "learn"} |-> Empty]
    /\ prepared = "no" /\ fitFor = NoDay /\ doubted = FALSE

\* The last day the statistics of a fit on frame f have seen, those that went into
\* its values included (fetch_df_by_index up to fit_end_time).
LearntUpTo(f, end) ==
    Max({IF end = NoDay \/ end > f.last THEN f.last ELSE end} \cup {f.steps[i][3] : i \in DOMAIN f.steps})

(***************************************************************************)
(* process_data.  A work is [heap, at, stats]: the frames in memory, the   *)
(* one being worked on, and what the processors have learnt.               *)
(***************************************************************************)

\* proc.fit and proc(df): written in place, or a new frame.
RunProc(work, stage, i, with_fit, end) ==
    LET kind == pipeline[stage][i]
        s    == IF kind = "norm" /\ with_fit
                THEN [work.stats EXCEPT ![stage][i] = LearntUpTo(work.heap[work.at], end)]
                ELSE work.stats
        old  == work.heap[work.at]
        step == <<stage, i, IF kind = "norm" THEN s[stage][i] ELSE NoDay>>
        f    == [last |-> old.last, steps |-> Append(old.steps, step)]
    IN  IF kind = "norm"
        THEN [heap |-> [work.heap EXCEPT ![work.at] = f], at |-> work.at, stats |-> s]
        ELSE [heap |-> Append(work.heap, f), at |-> Len(work.heap) + 1, stats |-> s]

\* _is_proc_readonly
Readonly(stage) == \A i \in DOMAIN pipeline[stage] : pipeline[stage][i] # "norm"

\* The frame a stage works on is copied unless all its processors are readonly.
Own(work, stage) ==
    IF Readonly(stage) THEN work
    ELSE [heap |-> Append(work.heap, work.heap[work.at]), at |-> Len(work.heap) + 1,
          stats |-> work.stats]

\* _run_proc_l on a copy where it needs one.
RunStage(work, stage, with_fit, end) ==
    LET run[n \in 0..Len(pipeline[stage])] ==
            IF n = 0 THEN Own(work, stage) ELSE RunProc(run[n - 1], stage, n, with_fit, end)
    IN  run[Len(pipeline[stage])]

\* process_data on the raw frame, with the statistics there are.
Process(raw, known, with_fit, end) ==
    LET shared == RunStage([heap |-> <<raw>>, at |-> 1, stats |-> known], "shared", with_fit, end)
        infer  == RunStage(shared, "infer", with_fit, end)
        from   == [heap |-> infer.heap, at |-> IF pipeline.append THEN infer.at ELSE shared.at,
                   stats |-> infer.stats]
        learn  == RunStage(from, "learn", with_fit, end)
    IN  [frames |-> [raw |-> learn.heap[1], infer |-> learn.heap[infer.at],
                     learn |-> learn.heap[learn.at]],
         stats |-> learn.stats]

\* DataHandlerLP.setup_data: the raw frame is loaded again; "fit_seq" learns from the
\* output of the processor before, "fit_ind" from the raw frame, "load_state" not at all.
Setup(init_type, upto, end) ==
    LET raw   == [last |-> upto, steps |-> <<>>]
        known == IF init_type # "fit_ind" THEN stats
                 ELSE [g \in Stages |-> [i \in 1..MaxProcs |->
                         IF i \in DOMAIN pipeline[g] /\ pipeline[g][i] = "norm"
                         THEN LearntUpTo(raw, end) ELSE stats[g][i]]]
        done  == Process(raw, known, init_type = "fit_seq", end)
    IN  /\ frames' = done.frames
        /\ stats' = done.stats
        /\ fitFor' = IF init_type = "load_state" THEN fitFor ELSE end
        /\ prepared' = "yes"

\* _validate_processor_fit_end_time and the same question to a config.
FitEndAccepted(end, train) == end = NoDay \/ train = NoDay \/ end <= train

\* DatasetH(handler, segments); what is refused leaves no dataset.
MakeDataset(upto, end, train) ==
    /\ prepared = "no"
    /\ FitEndAccepted(end, train)
    /\ handlerEnd' = upto /\ fitEnd' = end /\ trainEnd' = train
    /\ Setup("fit_seq", upto, end)
    /\ UNCHANGED <<pipeline, doubted>>

\* DatasetH.config: the handler and the segments are changed before the question
\* is asked, so a config that raises has changed them too.
Configure(upto, end, train) ==
    /\ prepared # "no"
    /\ handlerEnd' = upto /\ fitEnd' = end /\ trainEnd' = train
    /\ prepared' = "stale"
    /\ doubted' = (doubted \/ ~FitEndAccepted(end, train)
                           \/ (train # NoDay /\ (trainEnd = NoDay \/ train < trainEnd)))
    /\ UNCHANGED <<pipeline, stats, frames, fitFor>>

\* DatasetH.setup_data; a fit makes good for what was moved, not for what was refused.
SetupData(init_type) ==
    /\ prepared # "no"
    /\ Setup(init_type, handlerEnd, fitEnd)
    /\ doubted' = IF init_type = "load_state" THEN doubted ELSE ~FitEndAccepted(fitEnd, trainEnd)
    /\ UNCHANGED <<pipeline, handlerEnd, fitEnd, trainEnd>>

PreparationNext ==
    \/ \E upto \in FrameDay, end, train \in 0..LastFrameDay :
          MakeDataset(upto, end, train) \/ Configure(upto, end, train)
    \/ \E init_type \in {"fit_seq", "fit_ind", "load_state"} : SetupData(init_type)

PreparationSpec == PreparationInit /\ [][PreparationNext]_preparationVars

-----------------------------------------------------------------------------
\* Properties.

Passed(stage) == [i \in DOMAIN pipeline[stage] |-> <<stage, i>>]
Path(frame)   == [i \in DOMAIN frame.steps |-> <<frame.steps[i][1], frame.steps[i][2]>>]

\* The three frames are what the diagrams of process_data say (handler.py:589-601),
\* whatever mix of processors writes in place: no stage changes a frame that another
\* one, or the caller who asks for the raw data, goes on using.
FlowTrue ==
    prepared # "no" =>
        /\ frames.raw.steps = <<>>
        /\ Path(frames.infer) = Passed("shared") \o Passed("infer")
        /\ Path(frames.learn) = Passed("shared") \o (IF pipeline.append THEN Passed("infer") ELSE <<>>)
                                                 \o Passed("learn")

\* No value of a prepared frame depends on a statistic of days behind the train segment
\* ("must not include any information from the test data", processor.py), for
\* processors with a fit_end_time, as long as config did not raise and the train
\* segment was not moved back without a new fit.
NoLeak ==
    prepared = "yes" /\ fitFor # NoDay /\ trainEnd # NoDay /\ ~doubted =>
        \A k \in {"infer", "learn"} : \A i \in DOMAIN frames[k].steps :
            frames[k].steps[i][3] <= trainEnd

PreparationTrue == FlowTrue /\ NoLeak
=============================================================================
