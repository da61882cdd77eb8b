----------------------------- MODULE OnlineRolling -----------------------------
(***************************************************************************)
(* An OnlineManager with one RollingStrategy (quant_master/workflow/online,*)
(* task/gen.py, task/collect.py, model/ens/ensemble.py) and a trainer that *)
(* does not delay.  The test segments of the rolling models follow one      *)
(* another; a routine trains the models of the segments that have begun,    *)
(* puts them online in place of the others, brings the predictions of the   *)
(* online models up to date, and collects the signals.  Recorders outlive   *)
(* the routine that made them.                                             *)
(***************************************************************************)
EXTENDS Naturals, Sequences, FiniteSetsExt

CONSTANTS
    Step,        \* length of a test segment: segment k is k*Step+1 .. (k+1)*Step
    FirstDays,   \* days on which first_train may run
    LastDay,     \* bound on the days
    MaxRecorders \* bound on the recorders

ASSUME OnlineAssumption ==
    /\ Step \in Nat \ {0} /\ LastDay \in Nat /\ MaxRecorders \in Nat
    /\ FirstDays \subseteq 1..LastDay

VARIABLES
    day,       \* last day of the calendar
    stage,     \* "new", "idle", and in a run: "trained", "offline", "online", "updated"
    first,     \* the run is first_train
    recorders, \* the finished recorders, in the order of their start
    trained,   \* those of this run
    signals,   \* the rows of the signals; that a row may be there twice is left out
    served,    \* auxiliary: the last day with a routine that came to its end
    broken,    \* auxiliary: a run has failed with models trained that did not get online
    missed     \* auxiliary: a segment has ended without a routine on its last day

recordersVars == <<recorders, trained>>
onlineVars    == <<day, stage, first, recordersVars, signals, served, broken, missed>>

Start(k) == k * Step + 1
SegmentOf(d) == (d - 1) \div Step
Segments == 0..SegmentOf(LastDay)

Recorders == [segment : Segments, preds : SUBSET (1..LastDay), online : BOOLEAN]
SignalRows == [day : 1..LastDay, segment : Segments]

OnlineTypeOK ==
    /\ day \in 1..LastDay
    /\ stage \in {"new", "idle", "trained", "offline", "online", "updated"}
    /\ first \in BOOLEAN /\ broken \in BOOLEAN /\ missed \in BOOLEAN
    /\ recorders \in Seq(Recorders) /\ Len(recorders) <= MaxRecorders
    /\ trained \subseteq DOMAIN recorders
    /\ signals \subseteq SignalRows /\ served \in 0..LastDay

OnlineInit ==
    /\ day \in FirstDays
    /\ stage = "new" /\ first = TRUE
    /\ recorders = <<>> /\ trained = {}
    /\ signals = {}
    /\ served = 0 /\ broken = FALSE /\ missed = FALSE

Online == {i \in DOMAIN recorders : recorders[i].online}

SignalDays == {row.day : row \in signals}

UpToDate == served = day

NewTradingDay ==
    /\ stage = "idle" /\ day < LastDay
    /\ day' = day + 1
    /\ missed' = (missed \/ (SegmentOf(day + 1) # SegmentOf(day) /\ ~UpToDate))
    /\ UNCHANGED <<stage, first, recordersVars, signals, served, broken>>

-----------------------------------------------------------------------------
(* Training.                                                               *)

\* A recorder that has trained segment k on the days there are, with its
\* predictions for the test segment.
Recorder(k) ==
    [segment |-> k, preds |-> {d \in 1..day : SegmentOf(d) = k}, online |-> FALSE]

\* TrainerR.train: one segment after the other, up to the first that raises.
Train(from, to) ==
    /\ Len(recorders) + (to + 1) - from <= MaxRecorders
    /\ \E n \in 0..((to + 1) - from) :
          /\ recorders' = recorders \o [i \in 1..n |-> Recorder(from + i - 1)]
          /\ IF n = (to + 1) - from
             THEN /\ trained' = (Len(recorders) + 1)..(Len(recorders) + n)
                  /\ stage' = IF n = 0 THEN "online" ELSE "trained"
                  /\ UNCHANGED broken
             ELSE /\ trained' = {} /\ broken' = (broken \/ n > 0)
                  /\ stage' = IF first' THEN "new" ELSE "idle"

\* first_train with the tasks of RollingGen.generate: all segments that have begun.
FirstTrain ==
    /\ stage = "new"
    /\ first' = TRUE
    /\ Train(0, SegmentOf(day))
    /\ UNCHANGED <<day, signals, served, missed>>

\* routine with prepare_tasks: the segments that follow the last one online; none when
\* no model is online.
Routine ==
    /\ stage = "idle"
    /\ first' = FALSE
    /\ IF Online = {}
       THEN trained' = {} /\ stage' = "online" /\ UNCHANGED <<recorders, broken>>
       ELSE Train(Max({recorders[i].segment : i \in Online}) + 1, SegmentOf(day))
    /\ UNCHANGED <<day, signals, served, missed>>

-----------------------------------------------------------------------------
(* The tags, the predictions and the signals.                              *)

\* prepare_online_models, when there are new models: reset_online_tag takes all
\* recorders offline ...
TagOffline ==
    /\ stage = "trained"
    /\ recorders' = [i \in DOMAIN recorders |-> [recorders[i] EXCEPT !.online = FALSE]]
    /\ stage' = "offline"
    /\ UNCHANGED <<day, first, trained, signals, served, broken, missed>>

\* ... and then the new ones online, with which first_train is over.
TagOnline ==
    /\ stage = "offline"
    /\ recorders' = [i \in DOMAIN recorders |->
                        [recorders[i] EXCEPT !.online = @ \/ i \in trained]]
    /\ stage' = IF first THEN "idle" ELSE "online"
    /\ UNCHANGED <<day, first, trained, signals, served, broken, missed>>

\* update_online_pred: from the day after the last prediction to the last day, beyond
\* the end of the test segment if need be.
UpdatePredictions ==
    /\ stage = "online"
    /\ recorders' = [i \in DOMAIN recorders |->
          IF recorders[i].online
          THEN [recorders[i] EXCEPT !.preds = @ \union (Max(@) + 1)..day]
          ELSE recorders[i]]
    /\ stage' = "updated"
    /\ UNCHANGED <<day, first, trained, signals, served, broken, missed>>

\* RecorderCollector: of two recorders for one segment, the one listed last counts;
\* they are listed from the latest start to the earliest.
Collected == {i \in DOMAIN recorders :
                 \A j \in 1..(i - 1) : recorders[j].segment # recorders[i].segment}

\* Wrong variant: the earliest segment counts.
OwnerFirst(owners) == Min({recorders[i].segment : i \in owners})

\* RollingEnsemble: of several predictions for a day, that of the latest segment.
Owner(owners) == Max({recorders[i].segment : i \in owners})

RowsFrom(d) ==
    LET Owners(c) == {i \in Collected : c \in recorders[i].preds}
    IN {[day |-> c, segment |-> Owner(Owners(c))] : c \in {c \in d..day : Owners(c) # {}}}

\* prepare_signals appends the new rows to the old ones, from the last old day on.
PrepareSignals ==
    /\ stage = "updated"
    /\ signals' = IF signals = {} THEN RowsFrom(1)
                  ELSE signals \union RowsFrom(Max(SignalDays))
    /\ stage' = "idle"
    /\ served' = day
    /\ UNCHANGED <<day, first, recordersVars, broken, missed>>

\* An exception, or the process is killed.
RunFails ==
    /\ stage \in {"trained", "offline", "online", "updated"}
    /\ stage' = IF first THEN "new" ELSE "idle"
    /\ broken' = (broken \/ stage \in {"trained", "offline"})
    /\ UNCHANGED <<day, first, recordersVars, signals, served, missed>>

OnlineNext ==
    \/ NewTradingDay
    \/ FirstTrain \/ Routine
    \/ TagOffline \/ TagOnline \/ UpdatePredictions \/ PrepareSignals
    \/ RunFails

OnlineSpec == OnlineInit /\ [][OnlineNext]_onlineVars

-----------------------------------------------------------------------------
\* Properties.

\* Once a routine is through, each day up to its own has a signal, and every signal is
\* of the model whose test segment holds its day, although all models of first_train go
\* on predicting and runs fail; unless a run has failed between the training and the tags,
\* or no routine ran on the last day of a segment.
SignalsTrue ==
    ~broken /\ ~missed /\ stage = "idle" /\ UpToDate =>
        /\ SignalDays = 1..day
        /\ \A row \in signals : row.segment = SegmentOf(row.day)
=============================================================================
