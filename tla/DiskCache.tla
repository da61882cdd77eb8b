------------------------------ MODULE DiskCache ------------------------------
(***************************************************************************)
(* The files of DiskExpressionCache and DiskDatasetCache                   *)
(* (quant_master/data/cache.py): how they are made, brought up to the      *)
(* calendar and read.  A field may use the data of Lookahead later days,   *)
(* so the last values of a file are made again when later days have come.  *)
(* Every operation is one step here, as if the one lock of the process     *)
(* (module CacheLock, mode "local") were held for all of it.               *)
(***************************************************************************)
EXTENDS Sorting, Sequences, SequencesExt, FiniteSetsExt, Functions

CONSTANTS
    Instrument, \* instruments of the dataset; each has an expression file as well
    Lookahead,  \* rght_etd of get_extended_window_size
    MaxDays     \* bound on the calendar

ASSUME CacheAssumption ==
    /\ IsFiniteSet(Instrument) /\ Instrument # {}
    /\ Lookahead \in Nat /\ MaxDays \in Nat \ {0}

VARIABLES
    days,       \* length of the calendar
    bins,       \* bins[i]: the day up to which i has raw data
    expression, \* expression[i]: [last, cells]: last_update (0: no cache) and the values
    table,      \* [last, rows, index]: the dataset file, with its index file
    held,       \* index the process keeps in IndexManager._instance_cache; <<>> without one
    lagging     \* auxiliary: a file was made or updated from data that ended before the calendar

cacheVars == <<days, bins, expression, table, held, lagging>>

\* A value: of which day, and from data up to which day.
Cells == [day : 1..MaxDays, seen : 1..MaxDays]
Rows  == [day : 1..MaxDays, seen : 1..MaxDays, of : Instrument]
\* An entry of the index: the rows of a day are those after start, up to end.
Entries == [day : 1..MaxDays, start : Nat, end : Nat]

CacheTypeOK ==
    /\ days \in 1..MaxDays
    /\ bins \in [Instrument -> 1..MaxDays]
    /\ \A i \in Instrument : /\ expression[i].last \in 0..MaxDays
                             /\ expression[i].cells \in Seq(Cells)
    /\ table.last \in 0..MaxDays
    /\ table.rows \in Seq(Rows)
    /\ table.index \in Seq(Entries)
    /\ held \in Seq(Entries)
    /\ lagging \in BOOLEAN

CacheInit ==
    /\ days = 1 /\ bins = [i \in Instrument |-> 1]
    /\ expression = [i \in Instrument |-> [last |-> 0, cells |-> <<>>]]
    /\ table = [last |-> 0, rows |-> <<>>, index |-> <<>>]
    /\ held = <<>>
    /\ lagging = FALSE

\* A sync extends the calendar, then one instrument after the other.
NewDay ==
    /\ days < MaxDays
    /\ days' = days + 1
    /\ UNCHANGED <<bins, expression, table, held, lagging>>

NewBar(i) ==
    /\ bins[i] < days
    /\ bins' = [bins EXCEPT ![i] = days]
    /\ UNCHANGED <<days, expression, table, held, lagging>>

Smaller(a, b) == IF a < b THEN a ELSE b

-----------------------------------------------------------------------------
(* DiskExpressionCache.                                                    *)

\* provider.expression: a series ends with the raw data.
Series(i, from, to) ==
    LET n == Smaller(to, bins[i]) + 1 - from
        cell(d) == [day |-> d, seen |-> Smaller(d + Lookahead, bins[i])]
    IN  [k \in 1..n |-> cell(from + k - 1)]

\* _expression without a cache file.
GenExpressionCache(i) ==
    /\ expression[i].last = 0
    /\ expression' = [expression EXCEPT ![i] = [last |-> days, cells |-> Series(i, 1, days)]]
    /\ lagging' = (lagging \/ bins[i] < days)
    /\ UNCHANGED <<days, bins, table, held>>

\* Wrong variant: the values that looked ahead in vain are kept.
RemoveNone(n) == 0

\* At most n values can be removed.
RemoveN(n) == Smaller(Lookahead, n)

UpdateExpression(i) ==
    LET old == expression[i].cells
        n   == RemoveN(Len(old))
    IN  /\ expression[i].last \in 1..(days - 1)
        /\ expression' = [expression EXCEPT ![i] =
               [last |-> days,
                cells |-> SubSeq(old, 1, Len(old) - n)
                          \o Series(i, expression[i].last + 1 - n, days)]]
        /\ lagging' = (lagging \/ bins[i] < days)
        /\ UNCHANGED <<days, bins, table, held>>

-----------------------------------------------------------------------------
(* DiskDatasetCache.                                                       *)

\* provider.dataset, sorted by day: a row for each instrument with data.
RowsOf(d) ==
    LET q == SetToSeq({i \in Instrument : bins[i] >= d})
    IN [k \in DOMAIN q |-> [day |-> d, of |-> q[k], seen |-> Smaller(d + Lookahead, bins[q[k]])]]

Dataset(from, to) == FlattenSeq([k \in 1..(to + 1 - from) |-> RowsOf(from + k - 1)])

\* build_index_from_data
BuildIndex(rows, first) ==
    LET present == Sorted({rows[k].day : k \in DOMAIN rows})
        upTo(d) == first + Cardinality({k \in DOMAIN rows : rows[k].day <= d})
    IN  [k \in DOMAIN present |->
            [day |-> present[k],
             start |-> IF k = 1 THEN first ELSE upTo(present[k - 1]),
             end |-> upTo(present[k])]]

AllBins == \A i \in Instrument : bins[i] = days

\* gen_dataset_cache, when there is no cache or the caller wants a new one; the
\* process forgets the index it keeps, and reads the new one.
GenDatasetCache ==
    /\ table' = [last |-> days, rows |-> Dataset(1, days), index |-> BuildIndex(Dataset(1, days), 0)]
    /\ held' = table'.index
    /\ lagging' = (lagging \/ ~AllBins)
    /\ UNCHANGED <<days, bins, expression>>

\* update: the rows to remove are counted in the index, and only the new days
\* are added to it.  Nobody forgets the index that is kept.
UpdateDataset ==
    LET index   == table.index
        current == table.last + 1
        n       == RemoveN(Len(index))
        lines   == Cardinality({m \in DOMAIN table.rows :
                                   \E k \in DOMAIN index : index[k].day >= current - n
                                                          /\ m \in index[k].start + 1 .. index[k].end})
        fetched == Dataset(current - n, days)
        new     == Dataset(current, days)
    IN  /\ table.last \in 1..(days - 1)
        /\ fetched # <<>>
        /\ table' = [last |-> days,
                        rows |-> SubSeq(table.rows, 1, Len(table.rows) - lines) \o fetched,
                        index |-> index \o BuildIndex(new, IF index = <<>> THEN 0 ELSE Last(index).end)]
        /\ lagging' = (lagging \/ ~AllBins)
        /\ UNCHANGED <<days, bins, expression, held>>

\* A process that starts again has no index of its own until it reads.
Restart ==
    /\ held' = <<>>
    /\ UNCHANGED <<days, bins, expression, table, lagging>>

ReadIndex ==
    /\ table.last # 0 /\ held = <<>>
    /\ held' = table.index
    /\ UNCHANGED <<days, bins, expression, table, lagging>>

CacheNext ==
    \/ NewDay
    \/ \E i \in Instrument : NewBar(i) \/ GenExpressionCache(i) \/ UpdateExpression(i)
    \/ GenDatasetCache \/ UpdateDataset
    \/ Restart \/ ReadIndex

CacheSpec == CacheInit /\ [][CacheNext]_cacheVars

-----------------------------------------------------------------------------
\* Properties.

\* A value is as good as one computed on the last day of the cache.
Good(cell, day, last) == cell.day = day /\ cell.seen >= Smaller(day + Lookahead, last)

\* However often a cache file was updated, it holds what a new one would: every
\* day once and in order, and no value is left that had to do without days that
\* were to come.
ExpressionTrue ==
    \A i \in Instrument :
        LET e == expression[i] IN
        /\ Len(e.cells) = e.last
        /\ \A d \in 1..e.last : Good(e.cells[d], d, e.last)

\* What read_data_from_cache finds with the index it keeps: the rows between the
\* bounds are those of the day.
DatasetTrue ==
    \A k \in DOMAIN held :
        LET n == Cardinality(Instrument) IN
        /\ held[k].end - held[k].start = n
        /\ held[k].end <= Len(table.rows)
        /\ \A m \in held[k].start + 1 .. held[k].end :
               Good(table.rows[m], held[k].day, table.last)

\* As long as the raw data of every instrument reached the end of the calendar
\* when a file was made or updated.
CacheTrue == ~lagging => ExpressionTrue /\ DatasetTrue
=============================================================================
