--------------------------- MODULE NestedExecution ---------------------------
(***************************************************************************)
(* A day order that is split twice, as in the nested execution example: a  *)
(* NestedExecutor by day, with TWAPStrategy or SBBStrategyBase inside, over*)
(* a NestedExecutor of coarse bars with TWAPStrategy inside, over a        *)
(* SimulatorExecutor of fine bars (backtest/executor.py, decision.py,      *)
(* utils.py, contrib/strategy/rule_strategy.py).  The outermost decision is*)
(* that of FileOrderStrategy, with its trade_range.                        *)
(*                                                                         *)
(* The three levels share the position and nothing else: the remaining     *)
(* amounts live in the strategies and follow the results each              *)
(* level is handed from below, one step late.  What the market takes of an *)
(* order is chosen freely, in trade units.                                 *)
(***************************************************************************)
EXTENDS Integers, FiniteSets, Functions

CONSTANTS
    Coarse,      \* coarse bars in a day
    Fine,        \* fine bars in a coarse bar
    TradeUnit,   \* trade unit in shares
    Amounts,     \* amounts of a day order
    FirstBars, LastBars, \* fine bars at which the trade_range of a day begins and ends
    MaxDates     \* bound on the days

ASSUME NestedAssumption ==
    /\ {Coarse, Fine, TradeUnit} \subseteq Nat \ {0}
    /\ Amounts \subseteq Nat
    /\ FirstBars \union LastBars \subseteq 0..(Coarse * Fine - 1)
    /\ MaxDates \in Nat

VARIABLES
    splitter, \* inner_strategy of the day executor: "twap" or "sbb"
    parent,   \* order of the day and its trade_range; spare: shares held beside it
    level,    \* the level that moves: "day", "coarse", "fine"
    cstep, fstep,     \* trade_step of the inner calendars
    cleft, fleft,     \* trade_amount and trade_amount_remain of the two inner strategies
    cresult, fresult, \* deal_amount in _inner_execute_result
    part,     \* amount of the coarse order; 0: no order
    trend,    \* trade_trend
    dates,    \* days that have ended
    fills,    \* auxiliary: what was dealt in each fine bar of the day
    smooth    \* auxiliary: no suspension, no clipping and no trend today

nestedVars == <<splitter, parent, level, cstep, fstep, cleft, fleft, cresult, fresult,
                part, trend, dates, fills, smooth>>

FineBars   == 0..(Coarse * Fine - 1)
Trends   == {"mid", "short", "long"}
NoParent == [side |-> "buy", amount |-> 0, first |-> 0, last |-> 0, spare |-> 0]

NestedTypeOK ==
    /\ splitter \in {"twap", "sbb"}
    /\ parent \in [side : {"buy", "sell"}, amount : Amounts \union {0}, first : FineBars,
                   last : FineBars, spare : {0, TradeUnit}]
    /\ level \in {"day", "coarse", "fine"}
    /\ cstep \in 0..Coarse /\ fstep \in 0..Fine
    /\ {cleft, fleft, cresult, fresult, part} \subseteq Nat
    /\ trend \in Trends
    /\ dates \in 0..MaxDates
    /\ fills \in [FineBars -> Nat]
    /\ smooth \in BOOLEAN

NestedInit ==
    /\ splitter \in {"twap", "sbb"}
    /\ parent = NoParent /\ level = "day"
    /\ cstep = 0 /\ fstep = 0
    /\ cleft = 0 /\ fleft = 0 /\ cresult = 0 /\ fresult = 0 /\ part = 0
    /\ trend = "mid"
    /\ dates = 0
    /\ fills = [b \in FineBars |-> 0] /\ smooth = TRUE

Dealt == FoldFunction(+, 0, fills)

-----------------------------------------------------------------------------
(* Ranges.                                                                 *)

\* get_range_idx over a calendar of n bars that starts at bar 0 of its own: both ends are
\* clipped into it.
ClipIdx(i, n) == IF i < 0 THEN 0 ELSE IF i >= n THEN n - 1 ELSE i

\* get_start_end_idx for the two inner calendars: coarse bars hold Fine bars each, and
\* the range has come down to the coarse decision with mod_inner_decision.
CoarseFirst == parent.first \div Fine
CoarseLast  == parent.last \div Fine
FineFirst   == ClipIdx(parent.first - cstep * Fine, Fine)
FineLast    == ClipIdx(parent.last - cstep * Fine, Fine)

-----------------------------------------------------------------------------
(* The strategies.                                                         *)

\* np.round(n / d): halves go to the even neighbour.
RoundHalfEven(n, d) ==
    LET q == n \div d
        r == 2 * (n % d)
    IN  IF r < d \/ (r = d /\ q % 2 = 0) THEN q ELSE q + 1

\* Wrong variant: the schedule counts the steps that are over, and not the coming one.
TwapAmountLate(amount, left, k, n) ==
    LET delta == amount * k - (amount - left) * n
        even  == RoundHalfEven(delta, n * TradeUnit) * TradeUnit
    IN  IF even < left THEN even ELSE left

\* TWAPStrategy in step k of n: up to the schedule in whole units, everything at last.
TwapAmount(amount, left, k, n) ==
    LET delta == amount * (k + 1) - (amount - left) * n
        even  == RoundHalfEven(delta, n * TradeUnit) * TradeUnit
    IN  IF k = n - 1 \/ even >= left THEN left ELSE IF even < 0 THEN 0 ELSE even

\* SBBStrategyBase with n steps left: one of n parts, or two of n + 1 in the better one of
\* two bars and none in the other.
SbbAmount(left, n, seen) ==
    LET units == left \div TradeUnit
        some  == IF seen = "mid" THEN ((units + n - 1) \div n) * TradeUnit
                                 ELSE ((units + n) \div (n + 1)) * 2 * TradeUnit
        even  == cstep % 2 = 0
        better == \/ seen = "mid"
                  \/ even = (seen = (IF parent.side = "sell" THEN "short" ELSE "long"))
        all   == parent.side = "sell" /\ (some = 0 \/ n = 1)
    IN  IF ~better THEN 0 ELSE IF all \/ some > left THEN left ELSE some

-----------------------------------------------------------------------------
(* The loop of the outermost executor.                                     *)

\* FileOrderStrategy gives the orders of the day; _init_sub_trading resets the calendar
\* and the strategy of the level below.
StartDay ==
    /\ level = "day" /\ dates < MaxDates
    /\ \E side \in {"buy", "sell"}, a \in Amounts, spare \in {0, TradeUnit},
          b1 \in FirstBars, b2 \in LastBars :
          /\ b1 <= b2
          /\ parent' = [side |-> side, amount |-> a, first |-> b1, last |-> b2, spare |-> spare]
          /\ cleft' = a
    /\ level' = "coarse" /\ cstep' = 0 /\ cresult' = 0 /\ trend' = "mid"
    /\ fstep' = 0 /\ fleft' = 0 /\ fresult' = 0 /\ part' = 0
    /\ fills' = [b \in FineBars |-> 0] /\ smooth' = TRUE
    /\ UNCHANGED <<splitter, dates>>

\* The bar of the day ends when the inner calendar is over, or the order is empty.
EndDay ==
    /\ level = "coarse" /\ (cstep = Coarse \/ parent.amount = 0)
    /\ level' = "day" /\ dates' = dates + 1
    /\ UNCHANGED <<splitter, parent, cstep, fstep, cleft, fleft, cresult, fresult, part,
                   trend, fills, smooth>>

-----------------------------------------------------------------------------
(* The loop of the coarse executor.                                        *)

InCoarseLoop == level = "coarse" /\ cstep < Coarse /\ parent.amount > 0

\* align_range_limit: a bar outside of the range is stepped over.
SkipCoarse ==
    /\ InCoarseLoop /\ ~(CoarseFirst <= cstep /\ cstep <= CoarseLast)
    /\ cstep' = cstep + 1
    /\ UNCHANGED <<splitter, parent, level, fstep, cleft, fleft, cresult, fresult, part,
                   trend, dates, fills, smooth>>

\* generate_trade_decision: first the amounts are brought up to date, then the order of
\* this bar is made, unless the stock cannot be traded; then the fine level is set up.
DecideCoarse ==
    /\ InCoarseLoop /\ CoarseFirst <= cstep /\ cstep <= CoarseLast
    /\ cleft' = cleft - cresult
    /\ \E seen \in (IF splitter = "sbb" /\ cstep % 2 = 0 THEN Trends ELSE {trend}),
          tradable \in BOOLEAN :
          /\ trend' = seen
          /\ part' = IF ~tradable THEN 0
                     ELSE IF splitter = "twap"
                     THEN TwapAmount(parent.amount, cleft', cstep - CoarseFirst,
                                     CoarseLast - CoarseFirst + 1)
                     ELSE SbbAmount(cleft', Coarse - cstep, seen)
          /\ smooth' = (smooth /\ tradable /\ seen = "mid")
    /\ level' = "fine" /\ fstep' = 0 /\ fleft' = part' /\ fresult' = 0 /\ cresult' = 0
    /\ UNCHANGED <<splitter, parent, cstep, dates, fills>>

\* The bar of the coarse executor ends; its results are those of all fine bars.
EndCoarse ==
    /\ level = "fine" /\ (fstep = Fine \/ part = 0)
    /\ level' = "coarse" /\ cstep' = cstep + 1
    /\ UNCHANGED <<splitter, parent, fstep, cleft, fleft, cresult, fresult, part, trend,
                   dates, fills, smooth>>

-----------------------------------------------------------------------------
(* The innermost loop.                                                     *)

InFineLoop == level = "fine" /\ fstep < Fine /\ part > 0

SkipFine ==
    /\ InFineLoop /\ ~(FineFirst <= fstep /\ fstep <= FineLast)
    /\ fstep' = fstep + 1
    /\ UNCHANGED <<splitter, parent, level, cstep, cleft, fleft, cresult, fresult, part,
                   trend, dates, fills, smooth>>

\* What the exchange makes of an order without any limits: only a sale of the whole
\* position keeps an odd lot.
InUnits(a) ==
    IF parent.side = "sell" /\ a = parent.amount + parent.spare - Dealt THEN a
    ELSE (a \div TradeUnit) * TradeUnit

\* TWAPStrategy makes the order of a fine bar, SimulatorExecutor has it dealt with, and
\* the results are handed up.
ExecuteFine ==
    /\ InFineLoop /\ FineFirst <= fstep /\ fstep <= FineLast
    /\ fleft' = fleft - fresult
    /\ LET asked == TwapAmount(part, fleft', fstep - FineFirst, FineLast - FineFirst + 1)
           full  == InUnits(asked)
       IN  \E taken \in {a \in 0..full : a = full \/ a % TradeUnit = 0} :
              /\ fresult' = taken
              /\ cresult' = cresult + taken
              /\ fills' = [fills EXCEPT ![cstep * Fine + fstep] = taken]
              /\ smooth' = (smooth /\ taken = full)
    /\ fstep' = fstep + 1
    /\ UNCHANGED <<splitter, parent, level, cstep, cleft, part, trend, dates>>

NestedNext ==
    \/ StartDay \/ EndDay
    \/ SkipCoarse \/ DecideCoarse \/ EndCoarse
    \/ SkipFine \/ ExecuteFine

NestedSpec == NestedInit /\ [][NestedNext]_nestedVars

-----------------------------------------------------------------------------
(* Properties.                                                             *)

\* No level deals more than it was told to, whatever was clipped and however late the
\* strategies learn of it.
WithinParent ==
    /\ Dealt <= parent.amount
    /\ level = "fine" => cresult <= part
    /\ \A b \in FineBars : fills[b] > 0 => b \in parent.first..parent.last

\* A TWAP order is never ahead of its schedule by more than half a unit.
NotAhead ==
    splitter = "twap" /\ level = "coarse" /\ CoarseFirst <= cstep /\ cstep <= CoarseLast =>
        LET n == CoarseLast - CoarseFirst + 1
        IN  2 * (Dealt * n - parent.amount * (cstep - CoarseFirst)) <= n * TradeUnit

\* What was not hindered is dealt by the end of the range; only an odd lot stays.  SBB
\* does not look at the range ("TODO: 1. Supporting leverage the get_range_limit").
AllDealt ==
    level = "day" /\ smooth /\ (splitter = "sbb" => parent.last = Coarse * Fine - 1) =>
        parent.amount - Dealt = IF parent.side = "sell" /\ parent.spare = 0 THEN 0
                                ELSE parent.amount % TradeUnit

\* An order is split into what it says, when it says, and no more.
SplitTrue == WithinParent /\ NotAhead /\ AllDealt
=============================================================================
