--------------------------- MODULE LivePredictions ---------------------------
(***************************************************************************)
(* Live predictions of the UI server (ui/server/model_service.py) for one  *)
(* model: a request maps the wanted day to the day whose features it may   *)
(* use, loads a dataset that is cached between requests, predicts, and     *)
(* adds the result to the prediction history, which is a file, written in  *)
(* place, with a copy in memory.  Requests run in threads of their own,    *)
(* beside the sync of module HealthSnapshot.                               *)
(***************************************************************************)
EXTENDS HealthSnapshot

CONSTANT MaxAsked \* bound on the predictions asked for

ASSUME PredictAssumption == MaxAsked \in Nat

VARIABLES
    asked,   \* predictions asked for so far
    request, \* request[r]: where it is: "idle", "resolved", "loading" (the dataset),
             \* "predicted", "looked" (no copy in memory), "reading" (the history file),
             \* "merging", "writing" (it has emptied the file, and holds self._lock)
    date,    \* requested_date of r
    feature, \* feature_date of r
    dataset, \* last day of the dataset r predicts with; 0 without one
    cached,  \* _dataset_cache, likewise
    provider, \* last day of the calendar the data provider keeps in H["c"]; 0 before it is read
    history, \* the history r has read
    memory,  \* _pred_cache
    file,    \* the history file: a set of live predictions
    emptied, \* a write of the file has begun and has not finished
    made,    \* auxiliary: predictions whose request has returned
    overlap  \* auxiliary: two threads have been between reading and storing the history

predictRequestVars == <<asked, request, date, feature, dataset, history>>
storeVars   == <<cached, provider, memory, file, emptied, made, overlap>>
predictVars == <<diskVars, healthVars, predictRequestVars, storeVars>>

Predictions == [date : 2..(Today + 1), feature : 1..Today]

\* The copy in memory, or that there is none.
Memory == [loaded : BOOLEAN, rows : SUBSET Predictions]
NotLoaded == [loaded |-> FALSE, rows |-> {}]

Stage == {"idle", "resolved", "loading", "predicted", "looked", "reading", "merging", "writing"}

PredictTypeOK ==
    /\ HealthTypeOK
    /\ asked \in 0..MaxAsked
    /\ request \in [Reader -> Stage]
    /\ date \in [Reader -> 0..(Today + 1)]
    /\ feature \in [Reader -> 0..Today]
    /\ dataset \in [Reader -> 0..Today]
    /\ cached \in 0..Today /\ provider \in 0..Today
    /\ history \in [Reader -> SUBSET Predictions]
    /\ memory \in Memory
    /\ file \subseteq Predictions
    /\ made \subseteq Predictions
    /\ emptied \in BOOLEAN /\ overlap \in BOOLEAN

PredictInit ==
    /\ HealthInit
    /\ asked = 0
    /\ request = [r \in Reader |-> "idle"]
    /\ date = [r \in Reader |-> 0]
    /\ feature = [r \in Reader |-> 0]
    /\ dataset = [r \in Reader |-> 0]
    /\ cached = 0 /\ provider = 0
    /\ history = [r \in Reader |-> {}]
    /\ memory = NotLoaded
    /\ file = {} /\ made = {}
    /\ emptied = FALSE /\ overlap = FALSE

Goto(r, p) == request' = [request EXCEPT ![r] = p]

\* self._lock, which is held for more than one step only while the file is written.
Unlocked == \A q \in Reader : request[q] # "writing"

\* The request has its answer, or its error.
Leaves(r) ==
    /\ Goto(r, "idle")
    /\ date' = [date EXCEPT ![r] = 0]
    /\ feature' = [feature EXCEPT ![r] = 0]
    /\ dataset' = [dataset EXCEPT ![r] = 0]
    /\ history' = [history EXCEPT ![r] = {}]

-----------------------------------------------------------------------------
(* Which day's features a prediction may use.                              *)

\* Wrong variant: the wanted day itself, once its data is there.
FeatureOfSameDay(wanted, market) == IF wanted <= market THEN wanted ELSE market

\* _resolve_live_prediction_dates: the market's last day, or the one before it
\* when that is the wanted day.
FeatureOf(wanted, market) == IF wanted = market /\ market > 1 THEN market - 1 ELSE market

\* _validate_live_prediction_timing: beyond the feature day, only the day after
\* it may be predicted.
TimingAllows(wanted, day) == wanted <= day + 1

\* Every day is a trading day here.  The snapshot r is served is the cached one,
\* or its own scan.
Resolve(r, wanted) ==
    /\ request[r] = "idle" /\ scan[r] = 0 /\ Served /\ Unlocked
    /\ asked < MaxAsked /\ asked' = asked + 1
    /\ wanted >= snap \* an earlier day raises
    /\ TimingAllows(wanted, FeatureOf(wanted, snap))
    /\ date' = [date EXCEPT ![r] = wanted]
    /\ feature' = [feature EXCEPT ![r] = FeatureOf(wanted, snap)]
    \* A cached dataset that ends before the feature day is dropped.
    /\ cached' = IF cached < FeatureOf(wanted, snap) THEN 0 ELSE cached
    /\ Goto(r, "resolved")
    /\ UNCHANGED <<diskVars, healthVars, dataset, history, provider, memory, file, emptied, made, overlap>>

-----------------------------------------------------------------------------
(* The dataset and the prediction.                                         *)

\* The day whose features give the prediction.
Fallback(r) == IF dataset[r] < feature[r] THEN feature[r] - 1 ELSE feature[r]

\* D.calendar reads the file once in the life of the server: nothing clears
\* H["c"] after a sync.
Calendar == IF provider = 0 THEN calendar ELSE provider

\* _load_dataset looks into the cache, and otherwise reads the bins, up to the
\* feature day or up to the end of the calendar the provider has ...
LoadDataset(r) ==
    /\ request[r] = "resolved" /\ Unlocked
    /\ IF cached # 0
       THEN dataset' = [dataset EXCEPT ![r] = cached] /\ UNCHANGED provider
       ELSE /\ provider' = Calendar
            /\ \E day \in {Min({feature[r], Calendar}), Calendar} :
                  dataset' = [dataset EXCEPT ![r] = day]
    /\ Goto(r, "loading")
    /\ UNCHANGED <<diskVars, healthVars, asked, date, feature, history,
                   cached, memory, file, emptied, made, overlap>>

\* ... and puts what it has read into it.  Another request may have cached a
\* dataset that ends before the feature day: _predict_or_fallback goes back one
\* day, and raises if that is not enough.
Predict(r) ==
    /\ request[r] = "loading" /\ Unlocked
    /\ cached' = dataset[r]
    /\ IF Fallback(r) < 1 \/ dataset[r] < Fallback(r)
       THEN Leaves(r)
       ELSE /\ Goto(r, "predicted")
            /\ feature' = [feature EXCEPT ![r] = Fallback(r)]
            /\ UNCHANGED <<date, dataset, history>>
    /\ UNCHANGED <<diskVars, healthVars, asked, provider, memory, file, emptied, made, overlap>>

Prediction(r) == [date |-> date[r], feature |-> feature[r]]

-----------------------------------------------------------------------------
(* The history.                                                            *)

\* Threads that have read the history and have not stored what they make of it.
Holding(r) == request[r] \in {"reading", "merging", "writing"}
Meets(r) == \E q \in Reader \ {r} : Holding(q)

Takes(r, rows, next) ==
    /\ history' = [history EXCEPT ![r] = rows]
    /\ Goto(r, next)
    /\ overlap' = (overlap \/ Meets(r))
    /\ UNCHANGED <<date, feature, dataset>>

Looked(r) ==
    /\ Goto(r, "looked")
    /\ UNCHANGED <<date, feature, dataset, history, overlap>>

\* _load_predictions: the copy in memory, or the file ...
ReadHistory(r) ==
    /\ request[r] = "predicted" /\ Unlocked
    /\ IF memory.loaded THEN Takes(r, memory.rows, "merging") ELSE Looked(r)
    /\ UNCHANGED <<diskVars, healthVars, asked, cached, provider, memory, file, emptied, made>>

\* A page that shows predictions loads them as well.
ShowPredictions(r) ==
    /\ request[r] = "idle" /\ ~memory.loaded /\ Unlocked
    /\ Looked(r)
    /\ UNCHANGED <<diskVars, healthVars, asked, cached, provider, memory, file, emptied, made>>

\* ... which is read outside the lock, and cannot be read while its write has not finished ...
ReadFile(r) ==
    /\ request[r] = "looked"
    /\ IF emptied THEN Leaves(r) /\ UNCHANGED overlap ELSE Takes(r, file, "reading")
    /\ UNCHANGED <<diskVars, healthVars, asked, cached, provider, memory, file, emptied, made>>

\* ... and becomes the copy in memory.
KeepHistory(r) ==
    /\ request[r] = "reading" /\ Unlocked
    /\ memory' = [loaded |-> TRUE, rows |-> history[r]]
    /\ IF date[r] = 0
       THEN Goto(r, "idle") /\ history' = [history EXCEPT ![r] = {}]
       ELSE Goto(r, "merging") /\ UNCHANGED history
    /\ UNCHANGED <<diskVars, healthVars, asked, date, feature, dataset, cached, provider, file, emptied, made, overlap>>

\* Wrong variant: the earlier live predictions of all days are replaced.
MergedAll(r) == {Prediction(r)}

\* An earlier live prediction for the same day is replaced.
Merged(r) == {p \in history[r] : p.date # date[r]} \union {Prediction(r)}

\* _persist_live_predictions stores the merged history in both places, under the lock:
\* to_pickle empties the file first ...
OpenHistory(r) ==
    /\ request[r] = "merging" /\ Unlocked
    /\ file' = {} /\ emptied' = TRUE
    /\ Goto(r, "writing")
    /\ UNCHANGED <<diskVars, healthVars, asked, date, feature, dataset, history, cached, provider,
                   memory, made, overlap>>

\* ... and writes it, and the copy follows ...
Persist(r) ==
    /\ request[r] = "writing"
    /\ file' = Merged(r) /\ emptied' = FALSE
    /\ memory' = [loaded |-> TRUE, rows |-> Merged(r)]
    /\ made' = {p \in made : p.date # date[r]} \union {Prediction(r)}
    /\ Leaves(r)
    /\ UNCHANGED <<diskVars, healthVars, asked, cached, provider, overlap>>

\* ... or the write raises, on a full disk.
PersistRaises(r) ==
    /\ request[r] = "writing"
    /\ Leaves(r)
    /\ UNCHANGED <<diskVars, healthVars, asked, storeVars>>

ReloadRegistry ==
    /\ Unlocked
    /\ memory' = NotLoaded
    /\ cached' = 0
    /\ UNCHANGED <<diskVars, healthVars, predictRequestVars, provider, file, emptied, made, overlap>>

\* The server stops, with its sync and its requests, and starts again with the files.
ServerRestarts ==
    /\ job' = NoJob
    /\ snap' = 0 /\ fresh' = FALSE /\ refreshing' = FALSE /\ worker' = "none"
    /\ scan' = [t \in Scanner |-> 0] /\ claims' = {}
    /\ request' = [r \in Reader |-> "idle"]
    /\ date' = [r \in Reader |-> 0]
    /\ feature' = [r \in Reader |-> 0]
    /\ dataset' = [r \in Reader |-> 0]
    /\ history' = [r \in Reader |-> {}]
    /\ cached' = 0 /\ provider' = 0 /\ memory' = NotLoaded
    /\ UNCHANGED <<calendar, close, asked, file, emptied, made, overlap>>

PredictNext ==
    \/ HealthNext /\ UNCHANGED <<predictRequestVars, storeVars>>
    \/ \E r \in Reader :
          \/ \E wanted \in 2..(Today + 1) : Resolve(r, wanted)
          \/ LoadDataset(r) \/ Predict(r)
          \/ ReadHistory(r) \/ ShowPredictions(r) \/ ReadFile(r) \/ KeepHistory(r)
          \/ OpenHistory(r) \/ Persist(r) \/ PersistRaises(r)
    \/ ReloadRegistry \/ ServerRestarts

PredictSpec == PredictInit /\ [][PredictNext]_predictVars

-----------------------------------------------------------------------------
\* Properties.

\* A prediction for a day uses only what was known before it, whatever days other
\* requests have loaded into the shared dataset.
NoLookAhead == \A p \in file : p.feature < p.date

\* The features are those of the trading day before the wanted one ("always the
\* data of T-1"), also on the days after a sync.
FeaturesFresh == \A p \in file : p.feature = p.date - 1

\* While no two threads meet between reading and storing, no prediction that was
\* answered is lost, in the copy, and in the file unless its last write was cut off.
HistoryKept ==
    ~overlap => (emptied \/ file = made) /\ (memory.loaded => memory.rows = made)
=============================================================================
