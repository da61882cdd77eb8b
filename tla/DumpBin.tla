-------------------------------- MODULE DumpBin --------------------------------
(***************************************************************************)
(* The dump scripts (scripts/dump_bin.py): dump_all writes the calendar,    *)
(* instruments/all.txt and the bins of an empty directory from csv files,   *)
(* dump_update brings them up to date from the csv files of a later          *)
(* download.  A bin holds the index of its first day in the calendar and    *)
(* then one value for each day; here a value is the day it is of.           *)
(* dump_update appends to the bins in worker processes, and saves the new   *)
(* end dates when all are done.  Module BinStore is about the same files as *)
(* the sync of the UI server writes them.                                   *)
(***************************************************************************)
EXTENDS Sorting, Sequences, SequencesExt

CONSTANTS
    Code,       \* symbols
    DumpDays,   \* days 1..DumpDays
    StaleAfter, \* days without a bar after which a symbol is removed
    MaxDumps    \* bound on the runs of the scripts

ASSUME DumpAssumption ==
    DumpDays \in Nat /\ StaleAfter \in Nat /\ MaxDumps \in Nat

VARIABLES
    dumps,      \* runs so far
    dumping,    \* "no", "all" or "update": the run, while it writes features
    csv,        \* csv[s]: the days of its csv file; {} without one
    twice,      \* twice[s]: those after the end of s that its file has two rows of
    todo,       \* symbols whose bins are still to be written
    calendarTxt, \* calendars/day.txt
    ends,       \* ends[s]: the end date in all.txt; 0 for a symbol that is not there
    newEnds,    \* _update_instruments
    features,    \* features[s]: its bin; <<>> before it exists
    starts,     \* starts[s]: index of the first day in its header
    torn,       \* auxiliary: a run has stopped, or a worker has failed, with bins half done
    gapped,     \* auxiliary: a csv file has left out a day after the end of its symbol
    doubled     \* auxiliary: a csv file has had two rows of a day after that end

diskFilesVars == <<calendarTxt, ends, features, starts>>
dumpVars      == <<dumps, dumping, csv, twice, todo, diskFilesVars, newEnds, torn, gapped, doubled>>

AllDays == 1..DumpDays
NaN == 0

DumpTypeOK ==
    /\ dumps \in 0..MaxDumps
    /\ dumping \in {"no", "all", "update"}
    /\ csv \in [Code -> SUBSET AllDays] /\ twice \in [Code -> SUBSET AllDays]
    /\ todo \subseteq Code
    /\ calendarTxt \in Seq(AllDays)
    /\ ends \in [Code -> 0..DumpDays] /\ newEnds \in [Code -> 0..DumpDays]
    /\ features \in [Code -> Seq(AllDays \union {NaN})]
    /\ starts \in [Code -> 0..DumpDays]
    /\ torn \in BOOLEAN /\ gapped \in BOOLEAN /\ doubled \in BOOLEAN

DumpInit ==
    /\ dumps = 0 /\ dumping = "no"
    /\ csv = [s \in Code |-> {}] /\ twice = csv /\ todo = {}
    /\ calendarTxt = <<>>
    /\ ends = [s \in Code |-> 0] /\ newEnds = ends
    /\ features = [s \in Code |-> <<>>] /\ starts = [s \in Code |-> 0]
    /\ torn = FALSE /\ gapped = FALSE /\ doubled = FALSE

LastOf(days) == IF days = {} THEN 0 ELSE Max(days)
Downloaded(files) == UNION {files[s] : s \in Code}

\* Some symbol has a bar on every trading day, and downloads leave out no day of all.
Complete(days) == days = 1..LastOf(days)

-----------------------------------------------------------------------------

\* Without a symbol in all.txt a directory is filled by dump_all, else by dump_update.
HasInstruments == \E s \in Code : ends[s] # 0

\* The calendar a run saves before it does anything else.
NewCalendar(files) ==
    IF HasInstruments
    THEN calendarTxt \o Sorted({d \in Downloaded(files) : d > Last(calendarTxt)})
    ELSE Sorted(Downloaded(files))

MayRun(files) ==
    /\ dumping = "no" /\ dumps < MaxDumps /\ Downloaded(files) # {}
    /\ IF HasInstruments
       THEN calendarTxt # <<>> /\ Complete(Downloaded(files) \union Range(calendarTxt))
       ELSE Complete(Downloaded(files))

\* save_calendars writes in place: a run killed in it leaves the first lines of the new
\* calendar, which may be fewer than there were.
CalendarCut(files) ==
    /\ MayRun(files)
    /\ dumps' = dumps + 1
    /\ \E n \in 0..Len(NewCalendar(files)) : calendarTxt' = SubSeq(NewCalendar(files), 1, n)
    /\ torn' = (torn \/ (HasInstruments /\ Len(calendarTxt') < Len(calendarTxt)))
    /\ UNCHANGED <<dumping, csv, twice, todo, ends, newEnds, features, starts, gapped, doubled>>

\* dump_all, up to its features.  Rows of one day are one: the calendar is a set of days.
DumpAll(files) ==
    /\ MayRun(files) /\ ~HasInstruments
    /\ dumps' = dumps + 1
    /\ dumping' = "all"
    /\ csv' = files /\ todo' = {s \in Code : files[s] # {}}
    /\ calendarTxt' = NewCalendar(files)
    /\ ends' = [s \in Code |-> LastOf(files[s])]
    /\ newEnds' = ends'
    /\ UNCHANGED <<twice, features, starts, torn, gapped, doubled>>

\* Bars of s that are later than its end date.
NewBars(files, s) == {d \in files[s] : d > ends[s]}

\* The new bars of s are all the days there are between its end and the last of them.
NoGap(files, s, cal) ==
    ends[s] = 0 \/ NewBars(files, s) = {d \in Range(cal) : ends[s] < d /\ d <= LastOf(files[s])}

\* DumpDataUpdate.__init__ and save_calendars; rows are the days files have two rows of.
DumpUpdate(files, rows) ==
    /\ MayRun(files) /\ HasInstruments
    /\ dumps' = dumps + 1
    /\ dumping' = "update"
    /\ csv' = files
    /\ twice' = [s \in Code |-> IF ends[s] = 0 THEN {} ELSE rows[s] \intersect NewBars(files, s)]
    /\ calendarTxt' = NewCalendar(files)
    /\ todo' = {s \in Code : NewBars(files, s) # {}}
    /\ newEnds' = [s \in Code |-> IF s \in todo' THEN LastOf(files[s]) ELSE ends[s]]
    /\ gapped' = (gapped \/ \E s \in todo' : ~NoGap(files, s, calendarTxt'))
    /\ doubled' = (doubled \/ \E s \in Code : twice'[s] # {})
    /\ UNCHANGED <<ends, features, starts, torn>>

\* data_merge_calendar: one value for each day of cal.
Merge(days, cal) == [i \in DOMAIN cal |-> IF cal[i] \in days THEN cal[i] ELSE NaN]

\* The days of cal between the first and the last of days.
CoveredDays(days, cal) == Sorted({d \in Range(cal) : Min(days) <= d /\ d <= Max(days)})

\* Place of the first day in the header, which counts from 0.
IndexIn(cal, d) == (CHOOSE i \in DOMAIN cal : cal[i] = d) - 1

\* Wrong variant: all bars of the csv file are appended.
BarsAll(s) == csv[s]

\* The bars dumped for s: those after its end date, when it has one.
Bars(s) == IF dumping = "update" THEN NewBars(csv, s) ELSE csv[s]

\* Rows of s up to day d, and _update_calendars: the days of the new rows in order, one of
\* two rows being there twice.
RowCount(s, d) == Cardinality(UpTo(Bars(s), d)) + Cardinality(UpTo(twice[s], d))
UpdateCalendar(s) ==
    [i \in 1..RowCount(s, Max(Bars(s))) |-> Min({d \in Bars(s) : RowCount(s, d) >= i})]

\* _data_to_bin: dump_all writes the file anew, dump_update appends to one that exists.
WriteBin(s, values, first) ==
    IF dumping = "update" /\ features[s] # <<>>
    THEN features' = [features EXCEPT ![s] = @ \o values] /\ UNCHANGED starts
    ELSE features' = [features EXCEPT ![s] = values] /\ starts' = [starts EXCEPT ![s] = first]

\* A symbol that is in all.txt is merged with the days of its own rows, any other with
\* the calendar; the bars themselves have each day once (drop_duplicates).
DumpSymbol(s) ==
    /\ s \in todo
    /\ todo' = todo \ {s}
    /\ IF dumping = "update" /\ ends[s] # 0
       THEN WriteBin(s, Merge(Bars(s), UpdateCalendar(s)), 0)
       ELSE WriteBin(s, Merge(Bars(s), CoveredDays(Bars(s), calendarTxt)),
                     IndexIn(calendarTxt, Min(Bars(s))))
    /\ UNCHANGED <<dumps, dumping, csv, twice, calendarTxt, ends, newEnds, torn, gapped, doubled>>

\* The worker raises: in dump_update the error is logged, and the end date stays the new one.
WorkerRaises(s) ==
    /\ s \in todo
    /\ IF dumping = "update"
       THEN todo' = todo \ {s} /\ UNCHANGED dumping
       ELSE todo' = {} /\ dumping' = "no"
    /\ torn' = TRUE
    /\ UNCHANGED <<dumps, csv, twice, diskFilesVars, newEnds, gapped, doubled>>

\* _cleanup_stale_instruments.
Stale(s) == newEnds[s] # 0 /\ newEnds[s] + StaleAfter < Last(calendarTxt)

\* The end of a run; dump_update removes stale symbols and saves all.txt.
DumpDone ==
    /\ dumping # "no" /\ todo = {}
    /\ dumping' = "no"
    /\ IF dumping = "update"
       THEN /\ ends' = [s \in Code |-> IF Stale(s) THEN 0 ELSE newEnds[s]]
            /\ features' = [s \in Code |-> IF Stale(s) THEN <<>> ELSE features[s]]
            /\ starts' = [s \in Code |-> IF Stale(s) THEN 0 ELSE starts[s]]
       ELSE UNCHANGED <<ends, features, starts>>
    /\ newEnds' = [s \in Code |-> 0] /\ csv' = [s \in Code |-> {}] /\ twice' = csv'
    /\ UNCHANGED <<dumps, todo, calendarTxt, torn, gapped, doubled>>

\* The script is killed, after its calendar.
DumpKilled ==
    /\ dumping # "no"
    /\ dumping' = "no" /\ todo' = {}
    \* Whole is only what has written nothing but the calendar of an update.
    /\ torn' = (torn \/ dumping = "all" \/ todo = {} \/ todo # {s \in Code : NewBars(csv, s) # {}})
    /\ newEnds' = [s \in Code |-> 0] /\ csv' = [s \in Code |-> {}] /\ twice' = csv'
    /\ UNCHANGED <<dumps, diskFilesVars, gapped, doubled>>

DumpNext ==
    \/ \E files \in [Code -> SUBSET AllDays] :
          \/ CalendarCut(files) \/ DumpAll(files)
          \/ \E rows \in [Code -> SUBSET AllDays] : DumpUpdate(files, rows)
    \/ \E s \in Code : DumpSymbol(s) \/ WorkerRaises(s)
    \/ DumpDone \/ DumpKilled

DumpSpec == DumpInit /\ [][DumpNext]_dumpVars

-----------------------------------------------------------------------------
\* Properties.

\* Between two runs, every value of a symbol of all.txt stands at the index of its own
\* day, and the last one at the end date, however many downloads have been added, symbols
\* come and gone, and runs been killed before they touched a bin; unless a run was stopped
\* half-way or left fewer days in the calendar, or a csv file left out a day or had two
\* rows of one.
BinsInPlace ==
    dumping = "no" /\ ~torn /\ ~gapped /\ ~doubled =>
        \A s \in Code : ends[s] # 0 =>
            /\ features[s] # <<>>
            /\ \A i \in DOMAIN features[s] :
                  features[s][i] # NaN => calendarTxt[starts[s] + i] = features[s][i]
            /\ Last(features[s]) = ends[s]
=============================================================================
