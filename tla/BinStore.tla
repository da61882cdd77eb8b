------------------------------- MODULE BinStore -------------------------------
(***************************************************************************)
(* The daily bars on disk and the sync that extends them (auto_sync_daily  *)
(* of ui/server/sync.py): calendars/day.txt, one file per symbol and field *)
(* whose values are found by their index in the calendar, and the dates of *)
(* instruments/all.txt.  One sync runs at a time (module SyncService); it  *)
(* may be killed between any two writes, any of its write workers may      *)
(* raise, and the next sync starts from what is on disk.                   *)
(*                                                                         *)
(* A date is a number.  A bar is the date it belongs to, a NaN is NaN, and *)
(* the padding at the end of a file is not represented: a position that    *)
(* was never written is NaN.                                               *)
(***************************************************************************)
EXTENDS Naturals, FiniteSets, Sequences, FiniteSetsExt, SequencesExt

CONSTANTS
    Symbol,     \* the lines of instruments/all.txt
    Equity,     \* those that count for the coverage
    Probed,     \* the first equity, the one whose last bar is asked for up front
    FieldOrder, \* the fields in the order their files are written
    Today,      \* the last day of the model
    MaxBars,    \* the most bars a sync asks for, max_bars
    MaxMishaps, \* bound on mishaps
    Histories   \* for every symbol the days it trades on: the cases to look at

Day   == 1..Today
NaN   == 0
Never == 0   \* the date 1900-01-01, no start index yet, or no date at all
Field == ToSet(FieldOrder)

ASSUME BinAssumption ==
    /\ Equity \subseteq Symbol /\ Probed \in Equity
    /\ IsFiniteSet(Symbol)
    /\ Today \in Nat \ {0} /\ MaxBars \in Nat \ {0} /\ MaxMishaps \in Nat
    /\ FieldOrder \in Seq(STRING)
    /\ IsInjective(FieldOrder) /\ "close" \in Field
    /\ Histories \subseteq [Symbol -> SUBSET Day]

VARIABLES
    traded,   \* traded[s]: the days s trades on, a member of Histories
    today,    \* the current day
    cal,      \* calendars/day.txt, a sequence of days
    start,    \* start[s]: the header of its files; Never while there are none
    bin,      \* bin[s][f]: the value at every index of the calendar
    firstDate,\* firstDate[s], lastDate[s]: the dates in instruments/all.txt
    lastDate,
    phase,    \* where the sync is; "idle" when none runs
    force,    \* its argument
    bars,     \* bars[s]: the days whose bars it has fetched
    worker,   \* worker[s]: where the write of s is
    plan,     \* plan[s]: the start index and the first index to write
    written,  \* written[s]: how many of its field files have been replaced
    torn,     \* auxiliary: a symbol was left with only some fields written
    skipped,  \* auxiliary: skipped[s], the days a fetch of s has left out although
              \* they lie after its end date
    mishaps   \* how often a sync was killed or a worker has raised

diskVars == <<cal, start, bin, firstDate, lastDate>>
jobVars  == <<phase, force, bars, worker, plan, written>>
faultVars == <<torn, skipped, mishaps>>
binVars  == <<traded, today, diskVars, jobVars, faultVars>>

FlagsOK == force \in BOOLEAN /\ torn \in BOOLEAN

StateOK ==
    /\ traded \in Histories
    /\ today \in Day
    /\ cal \in Seq(Day)
    /\ start \in [Symbol -> 0..Today]
    /\ bin \in [Symbol -> [Field -> [Day -> Day \cup {NaN}]]]
    /\ firstDate \in [Symbol -> 0..Today]
    /\ lastDate \in [Symbol -> 0..Today]
    /\ phase \in {"idle", "fetch", "calendar", "write", "ends", "starts"}
    /\ bars \in [Symbol -> SUBSET Day]
    /\ worker \in [Symbol -> {"off", "todo", "busy", "done", "lost"}]
    /\ plan \in [Symbol -> [index : 0..Today, from : 0..Today + 1]]
    /\ written \in [Symbol -> 0..Len(FieldOrder)]
    /\ skipped \in [Symbol -> SUBSET Day]
    /\ mishaps \in 0..MaxMishaps

BinTypeOK == FlagsOK /\ StateOK

NoBars   == [s \in Symbol |-> {}]
AllOff   == [s \in Symbol |-> "off"]
NoPlan   == [s \in Symbol |-> [index |-> 0, from |-> 0]]
NoneYet  == [s \in Symbol |-> 0]

\* The instruments have just been discovered; there is no calendar yet.
BinInit ==
    /\ traded \in Histories
    /\ today = 1
    /\ cal = <<>>
    /\ start = NoneYet
    /\ bin = [s \in Symbol |-> [f \in Field |-> [p \in Day |-> NaN]]]
    /\ firstDate = NoneYet
    /\ lastDate = NoneYet
    /\ phase = "idle"
    /\ force = FALSE
    /\ bars = NoBars
    /\ worker = AllOff
    /\ plan = NoPlan
    /\ written = NoneYet
    /\ torn = FALSE
    /\ skipped = NoBars
    /\ mishaps = 0

MaxDay(D) == IF D = {} THEN Never ELSE Max(D)

InCalendar == ToSet(cal)

\* The last index at which symbol s has a close; Never when it has none.
LastClose(s) == MaxDay({p \in Day : bin[s]["close"][p] # NaN})

\* The sync is over and forgets everything.
Forget ==
    /\ phase' = "idle"
    /\ force' = FALSE
    /\ bars' = NoBars
    /\ worker' = AllOff
    /\ plan' = NoPlan
    /\ written' = NoneYet

-----------------------------------------------------------------------------
(* What to fetch.                                                          *)

\* effectiveLastDate: the last day with a close, or the end of the calendar.
EffectiveLast ==
    LET closes == {cal[LastClose(s)] : s \in {u \in Symbol : LastClose(u) \in DOMAIN cal}}
    IN  IF closes # {} THEN Max(closes) ELSE MaxDay(InCalendar)

\* Wrong variant: the probe does not count once there is local data.
HintWithoutProbe(probe) ==
    IF EffectiveLast = Never THEN today ELSE EffectiveLast

\* target_date_hint, from the last bar of the probed symbol; Never when the
\* probe has failed or the symbol has no bar.
TargetHint(probe) ==
    LET last == EffectiveLast
        ends == {lastDate[s] : s \in Symbol}
    IN  IF probe = Never /\ (last = Never \/ (ends = {last} /\ last < today))
        THEN today
        ELSE Max({probe, last})

ToFetch(probe) == {s \in Symbol : lastDate[s] < TargetHint(probe)}

\* _bars_to_fetch: so many bars that they reach back to the end date of the
\* symbol, but never more than MaxBars.
BarsToFetch(s) ==
    IF lastDate[s] = Never THEN MaxBars
    ELSE Min({MaxBars, Max({3, (3 * (today - lastDate[s])) \div 2 + 2})})

Since(s, d) == {e \in traded[s] : d <= e /\ e <= today}

\* The newest bars of the symbol, so many as were asked for.
Offered(s) == {d \in traded[s] : d <= today /\ Cardinality(Since(s, d)) <= BarsToFetch(s)}

\* A sync starts; one that finds nothing to fetch changes nothing.
StartSync(f, probe) ==
    /\ phase = "idle"
    /\ probe \in {Never, MaxDay({d \in traded[Probed] : d <= today})}
    /\ ToFetch(probe) # {}
    /\ phase' = "fetch"
    /\ force' = f
    /\ bars' = [s \in Symbol |-> IF s \in ToFetch(probe) THEN Offered(s) ELSE {}]
    /\ skipped' = [s \in Symbol |-> IF s \in ToFetch(probe)
                                    THEN skipped[s] \cup (Since(s, lastDate[s] + 1) \ Offered(s))
                                    ELSE skipped[s]]
    /\ UNCHANGED <<traded, today, diskVars, worker, plan, written, torn, mishaps>>

\* The bars of the symbols in ok arrive; the others failed, had nothing to
\* offer, or came too late.  With no bars at all, or no connection, the sync
\* returns.
Fetch(ok) ==
    /\ phase = "fetch"
    /\ IF \E s \in ok : bars[s] # {}
       THEN /\ phase' = "calendar"
            /\ bars' = [s \in Symbol |-> IF s \in ok THEN bars[s] ELSE {}]
            /\ UNCHANGED <<force, worker, plan, written>>
       ELSE Forget
    /\ UNCHANGED <<traded, today, diskVars, faultVars>>

-----------------------------------------------------------------------------
(* The calendar.                                                           *)

NewDays == UNION {bars[s] : s \in Symbol} \ InCalendar

\* equity_with_target_date
CoveredAt(d) == {s \in Equity : MaxDay(bars[s]) = d}

\* The newest day is left out when less than 80 percent of the equities
\* have it, unless the sync is forced.
AcceptedDays ==
    LET target == MaxDay(NewDays) IN
    IF ~force /\ 5 * Cardinality(CoveredAt(target)) < 4 * Cardinality(Equity)
    THEN NewDays \ {target}
    ELSE NewDays

\* The listings of the days of D in order: there is exactly one.
InOrder(D) ==
    LET Places == 1..Cardinality(D) IN
    {e \in [Places -> D] : \A i, j \in Places : i < j => e[i] < e[j]}

\* Wrong variant: days that lie within the calendar are put in their place.
CalendarWithInserted == InOrder(InCalendar \cup AcceptedDays)

\* The calendar only grows at its end.
ExtendedCalendar ==
    {cal \o e : e \in InOrder({d \in AcceptedDays : \A c \in InCalendar : d > c})}

PublishCalendar ==
    /\ phase = "calendar"
    /\ cal' \in ExtendedCalendar
    /\ worker' = [s \in Symbol |-> IF bars[s] # {} THEN "todo" ELSE "off"]
    /\ phase' = "write"
    /\ UNCHANGED <<traded, today, start, bin, firstDate, lastDate, force, bars, plan, written, faultVars>>

-----------------------------------------------------------------------------
(* The files of one symbol: one worker, one field after the other.         *)

BarIndexes(s) == {p \in DOMAIN cal : cal[p] \in bars[s]}

\* Wrong variant: the write starts on the last close, not after it.
PlanFromStart(s) ==
    LET index == IF start[s] # Never THEN start[s] ELSE Min(BarIndexes(s))
    IN  [index |-> index, from |-> index]

\* Wrong variant: the write starts one day too late.
PlanSkippingOne(s) ==
    LET index == IF start[s] # Never THEN start[s] ELSE Min(BarIndexes(s))
    IN  [index |-> index, from |-> Max({index, LastClose(s) + 2})]

\* stock_idx and write_start
PlanOf(s) ==
    LET index == IF start[s] # Never THEN start[s] ELSE Min(BarIndexes(s))
    IN  [index |-> index, from |-> Max({index, LastClose(s) + 1})]

\* A symbol without files and without a bar in the calendar is passed over.
ReadBins(s) ==
    /\ phase = "write" /\ worker[s] = "todo"
    /\ IF start[s] = Never /\ BarIndexes(s) = {}
       THEN /\ worker' = [worker EXCEPT ![s] = "off"]
            /\ UNCHANGED plan
       ELSE /\ worker' = [worker EXCEPT ![s] = "busy"]
            /\ plan' = [plan EXCEPT ![s] = PlanOf(s)]
    /\ UNCHANGED <<traded, today, diskVars, phase, force, bars, written, faultVars>>

\* The new contents of a file: what was there before write_start, then a bar
\* or a NaN for every day of the calendar.
NewValues(s, f) ==
    [p \in Day |-> IF p \in DOMAIN cal /\ p >= plan[s].from
                   THEN IF cal[p] \in bars[s] THEN cal[p] ELSE NaN
                   ELSE bin[s][f][p]]

\* Wrong variant: the files are replaced last field first.
WriteFieldBackwards(s) ==
    /\ phase = "write" /\ worker[s] = "busy"
    /\ written[s] < Len(FieldOrder)
    /\ LET f == FieldOrder[Len(FieldOrder) - written[s]] IN
          bin' = [bin EXCEPT ![s][f] = NewValues(s, f)]
    /\ start' = [start EXCEPT ![s] = plan[s].index]
    /\ written' = [written EXCEPT ![s] = @ + 1]
    /\ UNCHANGED <<traded, today, cal, firstDate, lastDate, phase, force, bars, worker, plan, faultVars>>

\* os.replace of the next field file.
WriteField(s) ==
    /\ phase = "write" /\ worker[s] = "busy"
    /\ written[s] < Len(FieldOrder)
    /\ LET f == FieldOrder[written[s] + 1] IN
          bin' = [bin EXCEPT ![s][f] = NewValues(s, f)]
    /\ start' = [start EXCEPT ![s] = plan[s].index]
    /\ written' = [written EXCEPT ![s] = @ + 1]
    /\ UNCHANGED <<traded, today, cal, firstDate, lastDate, phase, force, bars, worker, plan, faultVars>>

WriteEnds(s) ==
    /\ phase = "write" /\ worker[s] = "busy"
    /\ written[s] = Len(FieldOrder)
    /\ worker' = [worker EXCEPT ![s] = "done"]
    /\ UNCHANGED <<traded, today, diskVars, phase, force, bars, plan, written, faultVars>>

Between(s) == worker[s] = "busy" /\ written[s] \in 1..Len(FieldOrder) - 1

Mishap(S) ==
    /\ mishaps < MaxMishaps
    /\ mishaps' = mishaps + 1
    /\ torn' = (torn \/ \E s \in S : Between(s))
    /\ UNCHANGED skipped

\* The worker raises, in this symbol or in a later one of its chunk: nobody
\* looks at the exception in its future, and its results are missing.
WriteRaises(s) ==
    /\ phase = "write" /\ worker[s] = "busy"
    /\ worker' = [worker EXCEPT ![s] = "lost"]
    /\ Mishap({s})
    /\ UNCHANGED <<traded, today, diskVars, phase, force, bars, plan, written>>

-----------------------------------------------------------------------------
(* instruments/all.txt: the end dates, then the start dates.               *)

\* Wrong variant: the end dates are written ahead of the bins.
EndsFirst ==
    /\ phase = "write"
    /\ phase' = "ends"
    /\ lastDate' = [s \in Symbol |-> IF worker[s] # "off" THEN MaxDay(bars[s]) ELSE lastDate[s]]
    /\ UNCHANGED <<traded, today, cal, start, bin, firstDate, force, bars, worker, plan, written, faultVars>>

WritesOver ==
    /\ phase = "write"
    /\ \A s \in Symbol : worker[s] \notin {"todo", "busy"}
    /\ phase' = "ends"
    /\ UNCHANGED <<traded, today, diskVars, force, bars, worker, plan, written, faultVars>>

UpdateEndDates ==
    /\ phase = "ends"
    /\ lastDate' = [s \in Symbol |-> IF worker[s] = "done" /\ LastClose(s) \in DOMAIN cal
                                     THEN cal[LastClose(s)] ELSE lastDate[s]]
    /\ phase' = "starts"
    /\ UNCHANGED <<traded, today, cal, start, bin, firstDate, force, bars, worker, plan, written, faultVars>>

UpdateStartDates ==
    /\ phase = "starts"
    /\ firstDate' = [s \in Symbol |-> IF worker[s] = "done" /\ start[s] \in DOMAIN cal
                                      THEN cal[start[s]] ELSE firstDate[s]]
    /\ Forget
    /\ UNCHANGED <<traded, today, cal, start, bin, lastDate, faultVars>>

-----------------------------------------------------------------------------

NextDay ==
    /\ today < Today
    /\ today' = today + 1
    /\ UNCHANGED <<traded, diskVars, jobVars, faultVars>>

\* The server is killed, or the sync raises.
Killed ==
    /\ phase # "idle"
    /\ Forget
    /\ Mishap(Symbol)
    /\ UNCHANGED <<traded, today, diskVars>>

Sync == \/ \E f \in BOOLEAN, probe \in 0..Today : StartSync(f, probe)
        \/ \E ok \in SUBSET Symbol : Fetch(ok)
        \/ PublishCalendar
        \/ \E s \in Symbol : ReadBins(s) \/ WriteField(s) \/ WriteEnds(s)
        \/ WritesOver
        \/ UpdateEndDates
        \/ UpdateStartDates

BinNext == NextDay \/ Sync \/ Killed \/ \E s \in Symbol : WriteRaises(s)

BinSpec == BinInit /\ [][BinNext]_binVars

\* Days pass, somebody presses the button for a forced sync again and again,
\* its probe is answered, a fetch comes to an end, and again and again a forced
\* sync gets all its bars.
BinFairSpec ==
    /\ BinSpec
    /\ WF_binVars(NextDay)
    /\ SF_binVars(\E probe \in 1..Today : StartSync(TRUE, probe))
    /\ WF_binVars(\E ok \in SUBSET Symbol : Fetch(ok))
    /\ SF_binVars(force /\ Fetch(Symbol))
    /\ WF_binVars(PublishCalendar \/ WritesOver \/ UpdateEndDates \/ UpdateStartDates)
    /\ \A s \in Symbol : WF_binVars(ReadBins(s) \/ WriteField(s) \/ WriteEnds(s))

-----------------------------------------------------------------------------
(* Properties.                                                             *)

\* Every bar on disk stands at the index of its own day, in every file, at
\* every moment, whatever was killed or raised before: the calendar is in
\* order, it is published before the bins, and no index ever moves.
Aligned ==
    /\ \A p, q \in DOMAIN cal : p < q => cal[p] < cal[q]
    /\ \A s \in Symbol, f \in Field, p \in Day :
          bin[s][f][p] # NaN => p \in DOMAIN cal /\ bin[s][f][p] = cal[p]

\* instruments/all.txt never claims a day whose close is not on disk: the
\* next sync trusts it when it decides what not to fetch.
CoverageTrue ==
    \A s \in Symbol : lastDate[s] # Never =>
        \E p \in DOMAIN cal : cal[p] = lastDate[s] /\ bin[s]["close"][p] = cal[p]

\* A bar that was on disk before a sync is there after it: a sync never
\* writes over what an earlier one has accepted.
NothingLost ==
    [][\A s \in Symbol, f \in Field, p \in Day :
          bin[s][f][p] # NaN /\ p <= LastClose(s) => bin'[s][f][p] = bin[s][f][p]]_bin

\* Where there is a close there are the fields written before it, even when
\* the worker was stopped between two files; and every field, as long as no
\* worker was.
FieldsAgree ==
    \A s \in Symbol, p \in Day :
        bin[s]["close"][p] # NaN =>
            \A i \in DOMAIN FieldOrder :
                bin[s][FieldOrder[i]][p] = NaN =>
                    /\ \E c \in 1..i - 1 : FieldOrder[c] = "close"
                    /\ torn \/ (Between(s) /\ i > written[s])

\* Once writing is reported complete, every bar in the calendar that was
\* fetched for the days to write is on disk.
WritingComplete ==
    phase \in {"ends", "starts"} =>
        \A s \in Symbol, p \in DOMAIN cal :
            cal[p] \in bars[s] /\ p > LastClose(s) => worker[s] = "off"

\* When the probed symbol trades on the last day, that day gets into the
\* calendar in the end, and every bar of a calendar day gets to its place,
\* whatever was left behind by failed fetches, killed syncs and lost workers;
\* but for the bars of a symbol that was behind by more than MaxBars, which
\* no sync asks for any more.  (A day that was fetched only after a later one
\* had been published is not in the calendar, and its bars are dropped.)
CaughtUp ==
    Today \in traded[Probed] =>
        <>[](/\ Today \in InCalendar
             /\ \A s \in Symbol, p \in DOMAIN cal :
                    cal[p] \in traded[s] \ skipped[s] => bin[s]["close"][p] = cal[p])

\* A new market day is discovered on one of the next attempts, whichever
\* symbol trades on it.
NewDayDiscovered ==
    (\E s \in Symbol : Today \in traded[s]) => <>(Today \in InCalendar)
=============================================================================
