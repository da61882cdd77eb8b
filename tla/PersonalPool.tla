---------------------------- MODULE PersonalPool ----------------------------
(***************************************************************************)
(* The personal point-in-time universe of quant_master/data/               *)
(* personal_dynamic_pool.py: which stocks were in the pool on which day,   *)
(* kept as intervals in instruments/personal_dynamic_pool.txt with a       *)
(* metadata file beside it.  An update selects the stocks of each day of a *)
(* range anew, cuts the range out of the intervals there are, and joins    *)
(* what is left with the new ones.                                         *)
(*                                                                         *)
(* Updates come from the collectors and from the command line, without a   *)
(* lock.  What the filters select on a day is chosen freely.               *)
(***************************************************************************)
EXTENDS Integers, Sequences, FiniteSets

CONSTANTS
    Updater,          \* processes that update the pool
    PoolStock,        \* stocks
    MinPool, MaxPool, \* min_pool_size and max_pool_size
    LastPoolDay,      \* trading days are 1..LastPoolDay
    MaxPoolUpdates    \* bound on the updates that are started

ASSUME PoolAssumption ==
    /\ IsFiniteSet(Updater) /\ IsFiniteSet(PoolStock)
    /\ MinPool \in Nat /\ MaxPool \in Nat /\ MinPool <= MaxPool
    /\ LastPoolDay \in Nat \ {0} /\ MaxPoolUpdates \in Nat

VARIABLES
    today,     \* the calendar is 1..today
    spans,     \* the file: the intervals of each stock
    meta,      \* output_sha256: the intervals it is the hash of
    updater,   \* what each update knows, and how far it is
    started,   \* updates so far
    shown,     \* auxiliary: what the last update of each day has selected
    everShown, \* auxiliary: what some update of each day has selected
    raced,     \* auxiliary: an update has begun while another one was at work
    halfWritten \* auxiliary: an update was killed between file and metadata

poolVars == <<today, spans, meta, updater, started, shown, everShown, raced, halfWritten>>

PoolDays   == 1..LastPoolDay
Spans      == [PoolStock -> SUBSET (PoolDays \X PoolDays)]
Selections == [PoolDays -> SUBSET PoolStock]
Nothing    == [s \in PoolStock |-> {}]
Nobody     == [d \in PoolDays |-> {}]
Idle       == [at |-> "idle", last |-> 0, from |-> 1, to |-> 1, states |-> Nobody,
               result |-> Nothing]

PoolTypeOK ==
    /\ today \in PoolDays
    /\ spans \in Spans /\ meta \in Spans
    /\ updater \in [Updater -> [at : {"idle", "select", "read", "write", "meta"},
                                last : 0..LastPoolDay, from : PoolDays, to : PoolDays,
                                states : Selections, result : Spans]]
    /\ started \in 0..MaxPoolUpdates
    /\ shown \in Selections /\ everShown \in Selections
    /\ raced \in BOOLEAN /\ halfWritten \in BOOLEAN

PoolInit ==
    /\ today \in PoolDays
    /\ spans = Nothing /\ meta = Nothing
    /\ updater = [u \in Updater |-> Idle]
    /\ started = 0
    /\ shown = Nobody /\ everShown = Nobody
    /\ raced = FALSE /\ halfWritten = FALSE

-----------------------------------------------------------------------------
(* Intervals.                                                              *)

\* _states_to_spans: an interval for each longest run of days with the stock.
RunsOf(states, from, to) ==
    LET InAll(s, a, b) == \A d \in a..b : s \in states[d]
    IN  [s \in PoolStock |->
            {r \in (from..to) \X (from..to) :
                /\ r[1] <= r[2] /\ InAll(s, r[1], r[2])
                /\ r[1] = from \/ s \notin states[r[1] - 1]
                /\ r[2] = to \/ s \notin states[r[2] + 1]}]

\* Wrong variant: an interval that reaches over both ends of the range keeps its first part.
TrimmedOnce(values, from, to, last) ==
    {r \in values : r[2] < from \/ r[1] > to}
        \union {<<r[1], from - 1>> : r \in {v \in values : v[1] < from /\ v[2] >= from}}
        \union {<<to + 1, r[2]>> : r \in {v \in values : from <= v[1] /\ v[1] <= to /\ v[2] > to}}

\* _trim_spans_for_range: what is before and after the range, in the calendar 1..last.
Trimmed(values, from, to, last) ==
    {r \in values : r[2] < from \/ r[1] > to}
        \union {<<r[1], from - 1>> : r \in {v \in values : v[1] < from /\ v[2] >= from}}
        \union {<<to + 1, r[2]>> : r \in {v \in values : v[1] <= to /\ v[2] > to /\ to < last}}

\* The first of sorted(values).
Before(r, t) == r[1] < t[1] \/ (r[1] = t[1] /\ r[2] <= t[2])
Leftmost(values) == CHOOSE r \in values : \A t \in values : Before(r, t)

\* An interval that overlaps the last one of the output, or is its neighbour, makes it longer.
Joined(output, r) ==
    LET last  == Len(output)
        prior == output[last]
    IN  IF last = 0 \/ r[1] > prior[2] + 1 THEN Append(output, r)
        ELSE [output EXCEPT ![last] = <<prior[1], IF r[2] > prior[2] THEN r[2] ELSE prior[2]>>]

\* _merge_spans: the intervals are taken from left to right.
TakeOne(merge) ==
    LET r == Leftmost(merge.todo)
    IN  [todo |-> merge.todo \ {r}, output |-> Joined(merge.output, r)]

Merging(values) ==
    LET merge[n \in 0..Cardinality(values)] ==
            IF n = 0 THEN [todo |-> values, output |-> <<>>] ELSE TakeOne(merge[n - 1])
    IN  merge

MergedSpans(values) ==
    LET output == Merging(values)[Cardinality(values)].output
    IN  {output[i] : i \in 1..Len(output)}

\* _replace_spans_for_range.
Replaced(existing, replacement, from, to, last) ==
    [s \in PoolStock |-> MergedSpans(Trimmed(existing[s], from, to, last) \union replacement[s])]

\* An interval that ends behind the calendar is refused.
InCalendar(values, last) == \A s \in PoolStock : \A r \in values[s] : r[2] <= last

-----------------------------------------------------------------------------
(* An update.                                                              *)

DayPasses ==
    /\ today < LastPoolDay /\ today' = today + 1
    /\ UNCHANGED <<spans, meta, updater, started, shown, everShown, raced, halfWritten>>

\* The calendar and the range: one day, the latest one, or a range.
StartUpdate(u) ==
    /\ updater[u].at = "idle" /\ started < MaxPoolUpdates
    /\ \E from, to \in 1..today :
          /\ from <= to
          /\ updater' = [updater EXCEPT ![u] = [Idle EXCEPT !.at = "select", !.last = today,
                                                !.from = from, !.to = to]]
    /\ started' = started + 1
    /\ raced' = (raced \/ \E other \in Updater : updater[other].at # "idle")
    /\ UNCHANGED <<today, spans, meta, shown, everShown, halfWritten>>

\* _load_daily_states: a day with too few or too many stocks ends the update.
LoadDailyStates(u) ==
    LET days == updater[u].from..updater[u].to
    IN  /\ updater[u].at = "select"
        /\ \E chosen \in [days -> SUBSET PoolStock] :
              updater' = [updater EXCEPT ![u] =
                  IF \A d \in days : Cardinality(chosen[d]) \in MinPool..MaxPool
                  THEN [@ EXCEPT !.at = "read",
                                 !.states = [d \in PoolDays |-> IF d \in days THEN chosen[d] ELSE {}]]
                  ELSE Idle]
        /\ UNCHANGED <<today, spans, meta, started, shown, everShown, raced, halfWritten>>

\* The file is read and the new intervals are put in; an empty pool is refused.
ReadSpans(u) ==
    LET me   == updater[u]
        cut  == [s \in PoolStock |-> Trimmed(spans[s], me.from, me.to, me.last)]
        all  == Replaced(spans, RunsOf(me.states, me.from, me.to), me.from, me.to, me.last)
    IN  /\ me.at = "read"
        /\ updater' = [updater EXCEPT ![u] =
              IF InCalendar(cut, me.last) /\ all # Nothing
              THEN [me EXCEPT !.at = "write", !.result = all] ELSE Idle]
        /\ UNCHANGED <<today, spans, meta, started, shown, everShown, raced, halfWritten>>

\* _atomic_write_text of the file.
WriteOutput(u) ==
    LET me == updater[u]
        In(d) == d \in me.from..me.to
    IN  /\ me.at = "write"
        /\ spans' = me.result
        /\ shown' = [d \in PoolDays |-> IF In(d) THEN me.states[d] ELSE shown[d]]
        /\ everShown' = [d \in PoolDays |-> everShown[d] \union me.states[d]]
        /\ updater' = [updater EXCEPT ![u] = [Idle EXCEPT !.at = "meta", !.result = me.result]]
        /\ UNCHANGED <<today, meta, started, raced, halfWritten>>

\* _atomic_write_text of the metadata.
WriteMetadata(u) ==
    /\ updater[u].at = "meta"
    /\ meta' = updater[u].result
    /\ updater' = [updater EXCEPT ![u] = Idle]
    /\ UNCHANGED <<today, spans, started, shown, everShown, raced, halfWritten>>

\* The process ends early, or was a dry run.
UpdateDies(u) ==
    /\ updater[u].at \in {"select", "read", "write", "meta"}
    /\ updater' = [updater EXCEPT ![u] = Idle]
    /\ halfWritten' = (halfWritten \/ updater[u].at = "meta")
    /\ UNCHANGED <<today, spans, meta, started, shown, everShown, raced>>

PoolNext ==
    \/ DayPasses
    \/ \E u \in Updater :
          \/ StartUpdate(u) \/ LoadDailyStates(u) \/ ReadSpans(u)
          \/ WriteOutput(u) \/ WriteMetadata(u) \/ UpdateDies(u)

PoolSpec == PoolInit /\ [][PoolNext]_poolVars

-----------------------------------------------------------------------------
(* Properties.                                                             *)

Members(day) == {s \in PoolStock : \E r \in spans[s] : r[1] <= day /\ day <= r[2]}

\* "Existing intervals outside the requested range are preserved": on each day the pool is
\* what the last update of that day has selected, whatever was cut, joined and cut again, and
\* nobody on a day no update was for.
DaysPreserved == ~raced => \A d \in PoolDays : Members(d) = shown[d]

\* Even when updates overlap, and one takes back the other, or drops days behind the calendar
\* it has read, nobody is in the pool of a day without having been selected for it.
NobodyInvented == \A d \in PoolDays : Members(d) \subseteq everShown[d]

\* A stock has one interval for each longest stay.
Canonical == \A s \in PoolStock : \A r, t \in spans[s] : r # t => r[2] + 1 < t[1] \/ t[2] + 1 < r[1]

\* The hash is that of the file, once the update is through.
HashTrue == ~raced /\ ~halfWritten /\ (\A u \in Updater : updater[u].at # "meta") => meta = spans

PoolTrue == DaysPreserved /\ NobodyInvented /\ Canonical /\ HashTrue
=============================================================================
