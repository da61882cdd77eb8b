------------------------------ MODULE PitStore ------------------------------
(***************************************************************************)
(* The point-in-time database: scripts/dump_pit.py writes what was         *)
(* published of a field of a stock, and when, into a data file whose       *)
(* revisions of one period are a linked list and an index file that points *)
(* at the first of each period; data/data.py, utils/__init__.py and        *)
(* data/pit.py read what was known on a day.                               *)
(*                                                                         *)
(* One symbol and one field: each has its own two files, and the processes *)
(* of the pool share none.  A value is known by its row of the csv file, a *)
(* place in the data file is the number of its record, and a quarter is a  *)
(* number of which QuartersPerYear make a year.                            *)
(***************************************************************************)
EXTENDS Integers, Sequences, FiniteSets, SequencesExt, FiniteSetsExt

CONSTANTS
    QuartersPerYear,
    MaxQuarter,  \* quarters are 0..MaxQuarter
    LastDate,    \* bound on the days of publication
    MaxRows,     \* bound on what is published
    MaxPitDumps  \* bound on the runs of the script

ASSUME PitAssumption ==
    /\ {QuartersPerYear, LastDate} \subseteq Nat \ {0}
    /\ {MaxQuarter, MaxRows, MaxPitDumps} \subseteq Nat

VARIABLES
    published, \* rows of the csv file
    ptoday,    \* day of publication
    firstYear, \* header of the index file; NoYear: there is no index file
    index,     \* place of the first record of each quarter, or Nowhere
    records,   \* the data file as its writer sees it
    flushed,   \* the data file as it is on the disk
    rowsLeft,      \* rows the running dump has still to write
    fdAt,      \* fd.tell()
    writing,
    loaded,    \* auxiliary: rows the two files are to hold
    damage,    \* auxiliary: a dump was "killed", or an update has "patched" the data file
    pitDumps   \* runs of the script

pitVars == <<published, ptoday, firstYear, index, records, flushed, rowsLeft, fdAt, writing,
             loaded, damage, pitDumps>>

Quarters == 0..MaxQuarter
PitRows     == [date : 1..LastDate, period : Quarters]
Nowhere  == 0
NoYear   == -1
NoValue  == <<>>

Year(period)  == period \div QuartersPerYear
Periods(rows) == {r.period : r \in rows}

PitTypeOK ==
    /\ published \in SUBSET PitRows /\ loaded \in SUBSET PitRows
    /\ ptoday \in 1..LastDate
    /\ firstYear \in {NoYear} \union {Year(q) : q \in Quarters}
    /\ index \in Seq(Nat)
    /\ records \in Seq([date : 1..LastDate, period : Quarters, next : Nat])
    /\ flushed \in Seq([date : 1..LastDate, period : Quarters, next : Nat])
    /\ rowsLeft \in Seq(PitRows) /\ fdAt \in Nat \ {0} /\ writing \in BOOLEAN
    /\ damage \in {"no", "killed", "patched"}
    /\ pitDumps \in 0..MaxPitDumps

PitInit ==
    /\ published = {} /\ ptoday = 1
    /\ firstYear = NoYear /\ index = <<>> /\ records = <<>> /\ flushed = <<>>
    /\ rowsLeft = <<>> /\ fdAt = 1 /\ writing = FALSE
    /\ loaded = {} /\ damage = "no" /\ pitDumps = 0

-----------------------------------------------------------------------------
(* The market.                                                             *)

\* A quarter is published, or revised; none is older than the first of all.
Publish ==
    /\ ~writing /\ Cardinality(published) < MaxRows
    /\ \E q \in Quarters :
          /\ published # {} => q >= Min(Periods(published))
          /\ published' = published \union {[date |-> ptoday, period |-> q]}
    /\ UNCHANGED <<ptoday, firstYear, index, records, flushed, rowsLeft, fdAt, writing, loaded,
                   damage, pitDumps>>

NextDate ==
    /\ ~writing /\ ptoday < LastDate
    /\ ptoday' = ptoday + 1
    /\ UNCHANGED <<published, firstYear, index, records, flushed, rowsLeft, fdAt, writing, loaded,
                   damage, pitDumps>>

-----------------------------------------------------------------------------
(* _dump_pit.                                                              *)

\* get_period_offset, as a place in index.
Offset(period) == (Year(period) - firstYear) * QuartersPerYear + (period % QuartersPerYear) + 1

\* sort_values by date: rows of one date come in any order.
Sortings(rows) ==
    {s \in SetToSeqs(rows) : \A i, j \in DOMAIN s : i < j => s[i].date <= s[j].date}

\* The index is truncated or extended by the missing years; with nothing to extend the
\* script returns.  An update keeps the rows after the last date in the data file and opens
\* it at its beginning.
StartDump(overwrite) ==
    /\ ~writing /\ pitDumps < MaxPitDumps /\ published # {}
    /\ LET fresh == overwrite \/ firstYear = NoYear
           start == IF fresh THEN Year(Min(Periods(published)))
                    ELSE firstYear + Len(index) \div QuartersPerYear
           end   == Year(Max(Periods(published)))
           new   == IF fresh THEN published
                    ELSE {r \in published : r.date > Last(records).date}
       IN  /\ start <= end
           /\ firstYear' = IF fresh THEN start ELSE firstYear
           /\ index' = (IF fresh THEN <<>> ELSE index)
                          \o [i \in 1..((end - start + 1) * QuartersPerYear) |-> Nowhere]
           /\ records' = IF fresh THEN <<>> ELSE records
           /\ flushed' = records'
           /\ rowsLeft' \in Sortings(new)
           /\ loaded' = IF fresh THEN new ELSE loaded \union new
           /\ damage' = IF fresh THEN "no" ELSE IF new = {} THEN damage ELSE "patched"
    /\ fdAt' = 1 /\ writing' = TRUE /\ pitDumps' = pitDumps + 1
    /\ UNCHANGED <<published, ptoday>>

\* Wrong variant: a revision is linked to the first record of its quarter.
FirstRevision(first) == first

\* The last record of the list that begins at first.
LastRevision(first) ==
    LET last[i \in DOMAIN records] ==
            IF records[i].next = Nowhere THEN i ELSE last[records[i].next]
    IN  last[first]

\* What fd.write makes of a file.
Written(file, place, record) ==
    IF place > Len(file) THEN Append(file, record) ELSE [file EXCEPT ![place] = record]

\* One row.  A revision is found by walking the list: the seeks flush the buffer, and
\* bring fd back to where it was.
DumpRow ==
    /\ writing /\ rowsLeft # <<>>
    /\ LET row   == Head(rowsLeft)
           first == index[Offset(row.period)]
           linked == IF first = Nowhere THEN records
                     ELSE [records EXCEPT ![LastRevision(first)].next = fdAt]
       IN  /\ index' = IF first # Nowhere THEN index
                        ELSE [index EXCEPT ![Offset(row.period)] = fdAt]
           /\ flushed' = IF first = Nowhere THEN flushed ELSE linked
           /\ records' = Written(linked, fdAt, [date |-> row.date, period |-> row.period,
                                              next |-> Nowhere])
    /\ fdAt' = fdAt + 1 /\ rowsLeft' = Tail(rowsLeft)
    /\ UNCHANGED <<published, ptoday, firstYear, writing, loaded, damage, pitDumps>>

\* Both files are closed.
DumpEnds ==
    /\ writing /\ rowsLeft = <<>>
    /\ flushed' = records /\ writing' = FALSE
    /\ UNCHANGED <<published, ptoday, firstYear, index, records, rowsLeft, fdAt, loaded,
                   damage, pitDumps>>

\* The index is on the disk, the data only as far as it was flushed.
DumpDies ==
    /\ writing
    /\ records' = flushed /\ rowsLeft' = <<>> /\ writing' = FALSE /\ damage' = "killed"
    /\ UNCHANGED <<published, ptoday, firstYear, index, flushed, fdAt, loaded, pitDumps>>

\* After a killed dump the files are written anew.
PitNext ==
    \/ Publish \/ NextDate
    \/ StartDump(TRUE)
    \/ damage # "killed" /\ StartDump(FALSE)
    \/ DumpRow \/ DumpEnds \/ DumpDies

PitSpec == PitInit /\ [][PitNext]_pitVars

-----------------------------------------------------------------------------
(* Reading.                                                                *)

\* read_period_data: along the list as far as the records are not after cur_date.
ReadPeriodData(period, cur_date) ==
    LET known[i \in DOMAIN records] ==
            LET next == records[i].next
            IN  IF next = Nowhere \/ records[next].date > cur_date THEN i ELSE known[next]
        first == index[Offset(period)]
        found == records[known[first]]
    IN  IF first = Nowhere \/ records[first].date > cur_date THEN NoValue
        ELSE <<found.date, found.period>>

\* period_feature of LocalPITProvider, without and with a period: the last quarters of
\* those between the first and the last that is known.
PeriodList(seen) == Min(Periods(seen))..Max(Periods(seen))
Window(periods, back) == {q \in periods : q >= Max(periods) - back}

PeriodFeature(cur_date, back) ==
    LET seen == {r \in Range(records) : r.date <= cur_date}
    IN  IF seen = {} THEN <<>>
        ELSE [q \in Window(PeriodList(seen), back) |-> ReadPeriodData(q, cur_date)]

-----------------------------------------------------------------------------
(* Properties.                                                             *)

Newest(period, cur_date) ==
    LET revisions == {r \in loaded : r.period = period /\ r.date <= cur_date}
    IN  IF revisions = {} THEN NoValue ELSE <<Max({r.date : r \in revisions}), period>>

\* On each day a feature over the last quarters shows what had been published by then, each
\* quarter with its newest revision of that day: nothing that came later, and nothing that
\* was revised.  (Without a dump that was killed or an update of a file that was there.)
KnownByThen ==
    ~writing /\ damage = "no" => \A cur_date \in 1..LastDate, back \in Quarters :
        PeriodFeature(cur_date, back) =
            LET seen == {r \in loaded : r.date <= cur_date}
            IN  IF seen = {} THEN <<>>
                ELSE [q \in Window(PeriodList(seen), back) |-> Newest(q, cur_date)]

\* An update appends: the records that are there keep their date and their period ("append
\* existing file or create a new file with `ab+` if not overwrite").
UpdatesAppend ==
    [][\/ records' = <<>> \/ damage' = "killed"
       \/ \A i \in DOMAIN records :
             /\ i \in DOMAIN records'
             /\ records'[i].date = records[i].date /\ records'[i].period = records[i].period
      ]_pitVars
=============================================================================
