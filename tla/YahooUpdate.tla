----------------------------- MODULE YahooUpdate -----------------------------
(***************************************************************************)
(* The daily bars of one symbol as scripts/data_collector/yahoo keeps them *)
(* up to date.  Yahoo restates the past at every split and dividend, and   *)
(* the stored bars are never restated: YahooNormalize1dExtend scales what  *)
(* it has downloaded so that it meets the last stored bar, and drops that  *)
(* bar.  Which bars are new, and where they go in the files, is the        *)
(* business of module DumpBin.                                             *)
(*                                                                         *)
(* Prices and volumes are logarithms: a price that doubles is one more, and*)
(* to multiply is to add.  A split is two for one, a dividend is half of   *)
(* the price, and as many shares are traded on each day.  Of the fields,   *)
(* close stands for all prices.                                            *)
(***************************************************************************)
EXTENDS Integers, Sequences, FiniteSetsExt

CONSTANTS
    LastTradeDay, \* trading days are 1..LastTradeDay
    AfterBreak,   \* those whose eve is no trading day
    MaxUpdates    \* bound on the runs of the script

ASSUME YahooAssumption ==
    /\ LastTradeDay \in Nat \ {0} /\ MaxUpdates \in Nat
    /\ AfterBreak \subseteq 1..LastTradeDay

VARIABLES
    market,       \* what has happened on each day up to now
    reportsHalts, \* Yahoo answers with an empty bar for a day without trade
    kept,         \* the stored bars of the symbol, from day 1
    dayEnd,       \* last day of the calendar; 0: nothing is stored
    latestMap,    \* _latest_map_cache.pkl: last stored bar of the symbol, and its calendar
    updates,      \* runs so far
    noOverlap     \* auxiliary: a download did not have the last stored day

yahooVars == <<market, reportsHalts, kept, dayEnd, latestMap, updates, noOverlap>>

NoBar  == [traded |-> FALSE, close |-> 0, volume |-> 0]
BarSet == [traded : BOOLEAN, close : Int, volume : Int]
Events == {"flat", "up", "split", "dividend", "halt"}

YahooTypeOK ==
    /\ market \in Seq(Events) /\ Len(market) \in 1..LastTradeDay
    /\ reportsHalts \in BOOLEAN
    /\ kept \in Seq(BarSet) /\ Len(kept) <= dayEnd
    /\ dayEnd \in 0..Len(market)
    /\ latestMap \in [calendar : 0..LastTradeDay, date : 0..LastTradeDay, bar : BarSet]
    /\ updates \in 0..MaxUpdates
    /\ noOverlap \in BOOLEAN

YahooInit ==
    /\ market = <<"flat">> /\ reportsHalts \in BOOLEAN
    /\ kept = <<>> /\ dayEnd = 0
    /\ latestMap = [calendar |-> 0, date |-> 0, bar |-> NoBar]
    /\ updates = 0 /\ noOverlap = FALSE

-----------------------------------------------------------------------------
(* The market and Yahoo.                                                   *)

Count(event, from, to) == Cardinality({d \in from..to : market[d] = event})

\* Price in the market, and what it would be with all dividends put back and no split.
Price(day)  == Count("up", 1, day) - Count("split", 1, day) - Count("dividend", 1, day)
Wealth(day) == Count("up", 1, day)

TradeDayEnds ==
    /\ Len(market) < LastTradeDay
    /\ \E event \in Events : market' = Append(market, event)
    /\ UNCHANGED <<reportsHalts, kept, dayEnd, latestMap, updates, noOverlap>>

\* get_data_from_remote, at the end of day upto: close and volume know all splits since,
\* adjclose / close all dividends since.
Close(day, upto)  == Price(day) - Count("split", day + 1, upto)
Volume(day, upto) == Count("split", day + 1, upto)
Factor(day, upto) == -Count("dividend", day + 1, upto)

TradedOn(day) == market[day] # "halt"

\* Days of a download.
Reported(from, to) == {d \in from..to : TradedOn(d) \/ reportsHalts}

-----------------------------------------------------------------------------
(* YahooNormalize1d.                                                       *)

\* normalize_yahoo fills the days between with empty bars; adjusted_price applies the
\* factor, and _manual_adj_data divides by the first close.
Normalized(days) ==
    LET upto  == Len(market)
        valid == {d \in days : TradedOn(d)}
        first == IF valid = {} THEN 0 ELSE Close(Min(valid), upto) + Factor(Min(valid), upto)
    IN  [d \in Min(days)..Max(days) |->
            IF ~TradedOn(d) THEN NoBar
            ELSE [traded |-> TRUE,
                  close  |-> Close(d, upto) + Factor(d, upto) - first,
                  volume |-> Volume(d, upto) - Factor(d, upto) + first]]

\* The columns of a bar times the ratio of the stored to the downloaded bar of one day;
\* with NaN in that day, all is NaN.
Scaled(bar, old, new) ==
    IF ~(bar.traded /\ old.traded /\ new.traded) THEN NoBar
    ELSE [bar EXCEPT !.close = @ + old.close - new.close, !.volume = @ + old.volume - new.volume]

-----------------------------------------------------------------------------
(* The two runs of the script.                                             *)

\* download_data, normalize_data and dump_all from scratch.
FromScratch ==
    /\ dayEnd = 0 /\ updates < MaxUpdates
    /\ LET upto == Len(market)
           bars == Normalized(Reported(1, upto))
       IN  /\ kept' = [d \in 1..Max(Reported(1, upto)) |-> bars[d]]
           /\ dayEnd' = upto
    /\ updates' = updates + 1
    /\ UNCHANGED <<market, reportsHalts, latestMap, noOverlap>>

\* Wrong variant: what is in the file is good for ever.
LatestForEver ==
    IF latestMap.calendar # 0 THEN latestMap
    ELSE [calendar |-> dayEnd, date |-> Len(kept), bar |-> kept[Len(kept)]]

\* _build_latest_map: kept in a file, as long as the calendar is the same.
Latest ==
    IF latestMap.calendar = dayEnd THEN latestMap
    ELSE [calendar |-> dayEnd, date |-> Len(kept), bar |-> kept[Len(kept)]]

\* YahooNormalize1dExtend.normalize: the downloaded bars after the overlap, to scale; as
\* they are when there is no overlap.
Extended(days, latest) ==
    LET bars == Normalized(days)
        new  == bars[latest.date]
    IN  IF latest.date \notin DOMAIN bars THEN bars
        ELSE [d \in {e \in DOMAIN bars : e > latest.date} |-> Scaled(bars[d], latest.bar, new)]

\* Day from which update_data_to_bin downloads: one natural day before the last of the
\* calendar.
Eve(day) == IF day \in AfterBreak \/ day = 1 THEN day ELSE day - 1

\* Bars that follow what is kept, one after the other.
Appended(bars) ==
    LET new == {d \in DOMAIN bars : d > Len(kept)}
    IN  kept \o [i \in 1..Cardinality(new) |-> bars[Min(new) + i - 1]]

\* update_data_to_bin up to the day "to".  The download of this symbol may fail; the
\* calendar comes from all symbols.
UpdateToBin(to, fails) ==
    /\ dayEnd > 0 /\ to \in dayEnd..Len(market) /\ updates < MaxUpdates
    /\ LET days == Reported(Eve(dayEnd), to)
       IN  IF fails \/ days = {} THEN UNCHANGED <<kept, noOverlap>>
           ELSE /\ kept' = Appended(Extended(days, Latest))
                /\ noOverlap' = (noOverlap \/ (Max(days) > Len(kept) /\ Len(kept) < Min(days)))
    /\ latestMap' = Latest /\ dayEnd' = to
    /\ updates' = updates + 1
    /\ UNCHANGED <<market, reportsHalts>>

YahooNext ==
    \/ TradeDayEnds
    \/ FromScratch
    \/ \E to \in 1..LastTradeDay, fails \in BOOLEAN : UpdateToBin(to, fails)

YahooSpec == YahooInit /\ [][YahooNext]_yahooVars

-----------------------------------------------------------------------------
(* Properties.                                                             *)

\* From each stored bar to each later one the price has changed as the wealth of a holder
\* has, and price times volume is the turnover of the day, whatever was split and paid out
\* before, between and after the downloads that brought the two, and though the file of
\* latest bars may be older than the bins.  (As long as downloads have the last stored day:
\* "Incremental updates require an overlap trading day".)
ReturnsTrue ==
    ~noOverlap =>
        \A a, b \in DOMAIN kept : kept[a].traded /\ kept[b].traded =>
            /\ kept[b].close - kept[a].close = Wealth(b) - Wealth(a)
            /\ kept[b].close + kept[b].volume = Price(b)
=============================================================================
