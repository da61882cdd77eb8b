-------------------------- MODULE TimeSeriesSampler --------------------------
(***************************************************************************)
(* Windows of StepLen days for the models that learn from time series:     *)
(* TSDatasetH takes a segment with some days before it, and TSDataSampler  *)
(* turns the frame into an array and answers with rows of that array       *)
(* (quant_master/data/dataset/__init__.py).                                *)
(*                                                                         *)
(* A row of the frame is the day and the stock it belongs to.  Stocks are  *)
(* numbers, in the order of their names.  Indexes of arrays count from 0,  *)
(* as in the code, and those of sequences from 1.                          *)
(***************************************************************************)
EXTENDS Sorting, SequencesExt, FiniteSetsExt

CONSTANTS
    LastRow,  \* days are 1..LastRow
    NumStock, \* stocks are 1..NumStock
    StepLen   \* step_len

ASSUME SamplerAssumption == {LastRow, NumStock, StepLen} \subseteq Nat \ {0}

VARIABLES
    inferDays,     \* days of _infer, where setup_data takes the calendar from
    frame,   \* rows of the frame that data_key asks for, after its processors
    keep,    \* those that flt_data lets through
    segment, \* first and last day of the segment
    fill,    \* fillna_type
    reply    \* the last question (sample numbers, or a day and a stock) and its answer

samplerVars == <<inferDays, frame, keep, segment, fill, reply>>

Row   == [day : 1..LastRow, stock : 1..NumStock]
NoRow == [day |-> 0, stock |-> 0]
Fills == {"none", "ffill", "ffill+bfill"}

NoReply == [numbers |-> <<>>, at |-> NoRow, answer |-> <<>>, status |-> "none"]

SamplerTypeOK ==
    /\ inferDays \subseteq 1..LastRow /\ frame \subseteq Row /\ keep \subseteq frame
    /\ segment \in [first : 1..LastRow, last : 1..LastRow]
    /\ fill \in Fills
    /\ reply.answer \in Seq(Row \union {NoRow}) /\ reply.status \in {"none", "ok", "error"}

SamplerInit ==
    /\ inferDays \in SUBSET (1..LastRow) /\ inferDays # {}
    /\ frame \in SUBSET Row /\ keep \in SUBSET frame
    /\ segment \in [first : 1..LastRow, last : 1..LastRow] /\ segment.first <= segment.last
    /\ fill \in Fills
    /\ reply = NoReply

\* The rows by stock and day.
Place(p) == p.stock * LastRow + p.day

InOrder(rows) ==
    LET places == Sorted({Place(p) : p \in rows})
    IN  [k \in DOMAIN places |-> CHOOSE p \in rows : Place(p) = places[k]]

-----------------------------------------------------------------------------
(* The sampler of the segment.                                             *)

\* TSDatasetH._extend_slice: StepLen days of the calendar before the segment.
DaysBefore == {d \in inferDays : d < segment.first}

PadStart == Sorted(inferDays)[Max({0, Cardinality(DaysBefore) - StepLen}) + 1]

Data == {p \in frame : p.day >= PadStart /\ p.day <= segment.last}

\* The rows by stock and day, and one row of NaN behind them.
DataArr == Append(InOrder(Data), NoRow)

\* "Setting it to -1 can cause bug #1716": -1, 0 looks like two rows next to each other, and
\* the slice between them is empty.
NanIdx == Len(DataArr) - 1

\* build_index: days by stocks, with the index of each row of the frame.
Days   == Sorted({p.day : p \in Data})
Stocks == Sorted({p.stock : p \in Data})

NoIdx == [idx |-> 0, nan |-> TRUE]

IdxDf(row, col) ==
    LET p == [day |-> Days[row + 1], stock |-> Stocks[col + 1]]
    IN  IF p \in Data
        THEN [idx |-> (CHOOSE i \in 1..Len(DataArr) : DataArr[i] = p) - 1, nan |-> FALSE]
        ELSE NoIdx

\* flt_idx_map and slice_idx_map_and_data_index: row and column of each sample.
DataIndex == InOrder({p \in keep \intersect Data : p.day >= segment.first})

IdxMap(n) == LET p == DataIndex[n + 1]
             IN  <<(CHOOSE i \in 1..Len(Days) : Days[i] = p.day) - 1,
                   (CHOOSE j \in 1..Len(Stocks) : Stocks[j] = p.stock) - 1>>

-----------------------------------------------------------------------------
(* __getitem__.                                                            *)

\* np_ffill: the index of the last value up to here, or 0.
Ffilled(arr) ==
    [k \in DOMAIN arr |-> arr[Max({1} \union {j \in 1..k : ~arr[j].nan})]]

\* _get_indices: what there is of the last StepLen days, padded in front, and filled.
GetIndices(row, col) ==
    LET start  == IF row >= StepLen THEN row - StepLen + 1 ELSE 0
        found  == [k \in 1..(row + 1 - start) |-> IdxDf(start + k - 1, col)]
        padded == [k \in 1..(StepLen - Len(found)) |-> NoIdx] \o found
    IN  IF fill = "none" THEN padded
        ELSE IF fill = "ffill" THEN Ffilled(padded)
        ELSE Reverse(Ffilled(Reverse(Ffilled(padded))))

\* Elements and slices of an array, where -1 is the last element.
Norm(i)     == IF i < 0 THEN Len(DataArr) + i ELSE i
Sliced(a, b) == [k \in 1..(Norm(b) - Norm(a)) |-> DataArr[Norm(a) + k]]

\* Rows one after the other in the array are taken as a slice.
TakenRows(indices) ==
    LET idx == [k \in DOMAIN indices |-> IF indices[k].nan THEN NanIdx ELSE indices[k].idx]
    IN  IF \A k \in 1..(Len(idx) - 1) : idx[k + 1] - idx[k] = 1
        THEN Sliced(idx[1], idx[Len(idx)] + 1)
        ELSE [k \in DOMAIN idx |-> DataArr[Norm(idx[k]) + 1]]

Replies(numbers, at, rows) ==
    reply' = [numbers |-> numbers, at |-> at, answer |-> rows, status |-> "ok"]

Refuses(numbers, at) ==
    reply' = [numbers |-> numbers, at |-> at, answer |-> <<>>, status |-> "error"]

\* idx_map2arr takes the maximum of the samples there are: without any, it raises.
Built == keep \intersect Data # {}

\* One sample, or a list of them, by number; another number is a KeyError.
GetNumbers(numbers) ==
    IF Built /\ \A k \in DOMAIN numbers : numbers[k] \in 0..(Len(DataIndex) - 1)
    THEN Replies(numbers, NoRow, TakenRows(FlattenSeq(
            [k \in DOMAIN numbers |-> GetIndices(IdxMap(numbers[k])[1], IdxMap(numbers[k])[2])])))
    ELSE Refuses(numbers, NoRow)

\* By day and stock, with two binary searches: the last day up to the one asked for, the
\* first stock from the one asked for on.
GetAt(p) ==
    LET row == Cardinality({i \in DOMAIN Days : Days[i] <= p.day}) - 1
        col == Cardinality({j \in DOMAIN Stocks : Stocks[j] < p.stock})
    IN  IF Built /\ col < Len(Stocks) THEN Replies(<<>>, p, TakenRows(GetIndices(row, col)))
        ELSE Refuses(<<>>, p)

SamplerNext ==
    /\ reply.status = "none"
    /\ \/ \E n \in 0..Cardinality(Row) : GetNumbers(<<n>>) \/ GetNumbers(<<n, n + 1>>)
       \/ \E p \in Row : GetAt(p)
    /\ UNCHANGED <<inferDays, frame, keep, segment, fill>>

SamplerSpec == SamplerInit /\ [][SamplerNext]_samplerVars

-----------------------------------------------------------------------------
(* Properties.                                                             *)

\* No processor has dropped all rows of a day that a window needs: the calendar has the
\* days of the frame, and the frame its last StepLen ones before the segment.
NoDayDropped ==
    LET there == {p.day : p \in frame}
    IN  /\ there \subseteq inferDays
        /\ \A d \in DaysBefore \ there : Cardinality({e \in DaysBefore : e >= d}) > StepLen

\* What is meant: the last StepLen days of the frame up to the day, of this stock and no
\* other, NaN where it has no row, filled from within the window.
SampleWindow(p) ==
    LET past    == Sorted({q.day : q \in {r \in frame : r.day <= p.day /\ r.day <= segment.last}})
        at(k)   == Len(past) - StepLen + k
        raw(k)  == IF at(k) >= 1 /\ [p EXCEPT !.day = past[at(k)]] \in frame
                   THEN [p EXCEPT !.day = past[at(k)]] ELSE NoRow
        here    == {k \in 1..StepLen : raw(k) # NoRow}
        upto(k) == {j \in here : j <= k}
    IN  [k \in 1..StepLen |->
            IF fill # "none" /\ upto(k) # {} THEN raw(Max(upto(k)))
            ELSE IF fill = "ffill+bfill" /\ here # {} THEN raw(Min(here))
            ELSE raw(k)]

\* "The return value will be similar to the data retrieved by df.loc[..].iloc[-30:]", "more
\* data for complete time-series": each sample is the whole window of its own day and stock,
\* whichever way it is asked for, whatever is missing from the frame but whole days, and
\* nothing else is a sample.  (Left out: a stock without any row, where by day and stock the
\* code answers with the next stock that has one, and days before the segment.)
SamplesTrue ==
    reply.status = "ok" /\ NoDayDropped =>
        LET samples == InOrder({p \in keep : p.day \in segment.first..segment.last})
        IN  IF reply.at = NoRow
            THEN reply.answer = FlattenSeq(
                    [k \in DOMAIN reply.numbers |-> SampleWindow(samples[reply.numbers[k] + 1])])
            ELSE reply.at.day >= segment.first /\ reply.at.stock \in {p.stock : p \in Data}
                    => reply.answer = SampleWindow(reply.at)
=============================================================================
