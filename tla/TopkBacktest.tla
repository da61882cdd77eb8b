----------------------------- MODULE TopkBacktest -----------------------------
(***************************************************************************)
(* A backtest of TopkDropoutStrategy (contrib/strategy/signal_strategy.py) *)
(* in a SimulatorExecutor: each bar the strategy makes its orders from the *)
(* scores and from a copy of the position, Exchange deals one after the    *)
(* other with the account, clipping each to volume, position and cash, and *)
(* the bar ends with the settlement of the sales (backtest/executor.py,    *)
(* exchange.py, position.py, account.py).                                  *)
(*                                                                         *)
(* Amounts are counted in ticks of 0.1 share, which is what rounding adds  *)
(* "for solving precision problem", and money in 1/CostDen of what a tick  *)
(* costs at price 1, so that the proportional cost is a whole number.  The *)
(* strategy and the exchange have their default options, without impact    *)
(* cost.                                                                   *)
(***************************************************************************)
EXTENDS Sorting, Sequences, SequencesExt, FiniteSetsExt

CONSTANTS
    Equity,     \* stocks with a score and a price
    TopK, NDrop, HoldThresh, \* parameters of the strategy
    RiskNum, RiskDen,        \* risk_degree
    Lot,        \* trade_unit in ticks
    CostDen,    \* open_cost and close_cost are 1 / CostDen
    MinCost,    \* min_cost
    VolumeCap,  \* cumulative volume limit of a bar, in ticks
    InitCash,
    Prices,     \* prices of a bar, the same for every stock
    MaxBars     \* bound on the bars

ASSUME BacktestAssumption ==
    /\ IsFiniteSet(Equity)
    /\ {TopK, NDrop, CostDen, RiskDen} \subseteq Nat \ {0}
    /\ Lot \in Nat \ {0, 1} \* whole shares
    /\ {HoldThresh, RiskNum, MinCost, VolumeCap, InitCash, MaxBars} \subseteq Nat
    /\ RiskNum <= RiskDen
    /\ Prices \subseteq Nat \ {0} /\ IsFiniteSet(Prices) /\ Prices # {}

VARIABLES
    settle,   \* settle_type of the executor: "no" or "cash"
    parallel, \* trade_type is TT_PARAL: purchases go first
    owned,    \* amount of each stock in the position; 0: not in it
    bars,     \* count_<bar> of each stock
    purse,    \* cash
    pending,  \* cash_delay
    trades,   \* orders of the bar that have not been dealt
    dealt,    \* dealt_order_amount
    price,    \* of this bar
    open,     \* stocks that can be traded in this bar
    bar,      \* bars that have ended; the strategy is asked at the start of each
    dropped   \* auxiliary: what the strategy has last wanted to drop

backtestVars == <<settle, parallel, owned, bars, purse, pending, trades, dealt, price, open,
                  bar, dropped>>

Trade == [of : Equity, way : {"buy", "sell"}, amount : Nat]

BacktestTypeOK ==
    /\ settle \in {"no", "cash"} /\ parallel \in BOOLEAN
    /\ owned \in [Equity -> Nat] /\ bars \in [Equity -> Nat]
    /\ purse \in Int /\ pending \in Int
    /\ trades \in Seq(Trade)
    /\ dealt \in [Equity -> Nat]
    /\ price \in Prices \union {0} /\ open \subseteq Equity
    /\ bar \in 0..MaxBars
    /\ dropped \subseteq Equity

BacktestInit ==
    /\ settle \in {"no", "cash"} /\ parallel \in BOOLEAN
    /\ owned = [s \in Equity |-> 0] /\ bars = [s \in Equity |-> 0]
    /\ purse = InitCash /\ pending = 0
    /\ trades = <<>>
    /\ dealt = [s \in Equity |-> 0]
    /\ price = 0 /\ open = {} \* between bars
    /\ bar = 0
    /\ dropped = {}

-----------------------------------------------------------------------------
(* Exchange.                                                               *)

Lesser(a, b)  == IF a < b THEN a ELSE b
Greater(a, b) == IF a > b THEN a ELSE b

\* round_amount_by_trade_unit
RoundAmount(a) == ((a + 1) \div Lot) * Lot

Val(a, p) == a * p * CostDen
Cost(a, p) == Greater(a * p, MinCost)

\* _clip_amount_by_volume with a "cum" limit.
ClipVolume(a, done) == Greater(Lesser(VolumeCap - done, a), 0)

\* _get_buy_amount_by_cash_limit, in whole ticks.
CashLimit(p, cash1) ==
    IF cash1 < MinCost THEN 0
    ELSE IF cash1 >= MinCost * CostDen + MinCost THEN cash1 \div ((CostDen + 1) * p)
    ELSE (cash1 - MinCost) \div (p * CostDen)

SellAmount(want, done, have, cash1, p) ==
    LET clipped == ClipVolume(want, done)
        a == IF clipped = have THEN have ELSE RoundAmount(Lesser(have, clipped))
    IN  IF cash1 + Val(a, p) < Cost(a, p) THEN 0 ELSE a

\* Wrong variant: the cost is forgotten when the money is compared.
BuyAmountCostless(want, done, cash1, p) ==
    LET a == ClipVolume(want, done)
    IN  IF cash1 < Val(a, p) THEN RoundAmount(Lesser(cash1 \div (p * CostDen), a))
        ELSE RoundAmount(a)

BuyAmount(want, done, cash1, p) ==
    LET a == ClipVolume(want, done)
    IN  IF cash1 < Cost(a, p) THEN 0
        ELSE IF cash1 < Val(a, p) + Cost(a, p) THEN RoundAmount(Lesser(CashLimit(p, cash1), a))
        ELSE RoundAmount(a)

-----------------------------------------------------------------------------
(* TopkDropoutStrategy.generate_trade_decision                             *)

\* The elements of a list that are in T.
Only(q, T) == LET at == Sorted({i \in DOMAIN q : q[i] \in T})
              IN  [k \in DOMAIN at |-> q[at[k]]]

\* Slices of a list, which count from its end when n is negative.
FirstN(q, n) == IF n >= 0 THEN SubSeq(q, 1, Lesser(n, Len(q))) ELSE SubSeq(q, 1, Len(q) + n)
LastN(q, n)  == IF n = 0 THEN q ELSE SubSeq(q, Greater(Len(q) - n + 1, 1), Len(q))

Owned == {s \in Equity : owned[s] > 0}

\* The new stocks it wants at most, by their rank.
Wanted(rank) == FirstN(Only(rank, Equity \ Owned), NDrop + TopK - Cardinality(Owned))

\* Of the stocks it has and these, the last are dropped.
Drop(rank) ==
    Owned \intersect Range(LastN(Only(rank, Owned \union Range(Wanted(rank))), NDrop))

\* Wrong variant: n_drop stocks are bought in any case.
PickAll(rank) == FirstN(Wanted(rank), NDrop)

\* A dropped stock makes room for a new one, whether it can be sold or not.
Pick(rank) == FirstN(Wanted(rank), Cardinality(Drop(rank)) + TopK - Cardinality(Owned))

\* What can be sold now, and has been held long enough.
Sales(rank, p, tradable) == {s \in Drop(rank) : s \in tradable /\ bars[s] >= HoldThresh}

\* The cash it expects after the sales, which it deals with its copy of the position.
Expected(S, p) ==
    FoldSet(LAMBDA s, c :
                LET a == SellAmount(owned[s], 0, owned[s], c, p)
                IN  IF a = 0 THEN c ELSE c + Val(a, p) - Cost(a, p),
            purse, S)

Decision(rank, p, tradable) ==
    LET S    == Sales(rank, p, tradable)
        pick == Pick(rank)
        each == RoundAmount((Greater(Expected(S, p), 0) * RiskNum)
                               \div (RiskDen * Greater(Len(pick), 1) * p * CostDen))
        sell == SetToSeq(S)
        buy  == Only(pick, tradable)
    IN  [i \in DOMAIN sell |-> [of |-> sell[i], way |-> "sell", amount |-> owned[sell[i]]]]
        \o [i \in DOMAIN buy |-> [of |-> buy[i], way |-> "buy", amount |-> each]]

-----------------------------------------------------------------------------
(* SimulatorExecutor.                                                      *)

BuysFirst(q) ==
    LET of(way) == Only(q, {t \in Range(q) : t.way = way}) IN of("buy") \o of("sell")

\* A bar begins: the strategy decides, the settlement starts, and a new day has
\* dealt nothing yet.
StartBar(rank, p, tradable) ==
    /\ price = 0 /\ bar < MaxBars
    /\ price' = p
    /\ open' = tradable
    /\ trades' = IF parallel THEN BuysFirst(Decision(rank, p, tradable))
                             ELSE Decision(rank, p, tradable)
    /\ dealt' = [s \in Equity |-> 0]
    /\ dropped' = Drop(rank)
    /\ UNCHANGED <<settle, parallel, owned, bars, purse, pending, bar>>

\* deal_order: an order for a stock that cannot be traded deals nothing, and one
\* of no value changes nothing.
DealSell ==
    /\ trades # <<>> /\ Head(trades).way = "sell"
    /\ LET s == Head(trades).of
           a == SellAmount(Head(trades).amount, dealt[s], owned[s], purse, price)
           gain == IF a = 0 THEN 0 ELSE Val(a, price) - Cost(a, price)
       IN  /\ owned' = [owned EXCEPT ![s] = @ - a]
           /\ bars' = [bars EXCEPT ![s] = IF a = owned[s] THEN 0 ELSE @]
           /\ dealt' = [dealt EXCEPT ![s] = @ + a]
           /\ IF settle = "cash" THEN pending' = pending + gain /\ UNCHANGED purse
                                 ELSE purse' = purse + gain /\ UNCHANGED pending
    /\ trades' = Tail(trades)
    /\ UNCHANGED <<settle, parallel, price, open, bar, dropped>>

DealBuy ==
    /\ trades # <<>> /\ Head(trades).way = "buy"
    /\ LET s == Head(trades).of
           a == BuyAmount(Head(trades).amount, dealt[s], purse, price)
       IN  /\ owned' = [owned EXCEPT ![s] = @ + a]
           /\ dealt' = [dealt EXCEPT ![s] = @ + a]
           /\ purse' = IF a = 0 THEN purse ELSE purse - Val(a, price) - Cost(a, price)
    /\ trades' = Tail(trades)
    /\ UNCHANGED <<settle, parallel, bars, pending, price, open, bar, dropped>>

\* update_bar_end counts the bar for what is held, and the sales are settled.
EndBar ==
    /\ price # 0 /\ trades = <<>>
    /\ bars' = [s \in Equity |-> IF owned[s] > 0 THEN bars[s] + 1 ELSE 0]
    /\ purse' = purse + pending /\ pending' = 0
    /\ bar' = bar + 1
    /\ price' = 0 /\ open' = {}
    /\ dealt' = [s \in Equity |-> 0]
    /\ UNCHANGED <<settle, parallel, owned, trades, dropped>>

BacktestNext ==
    \/ \E rank \in SetToSeqs(Equity), p \in Prices, tradable \in SUBSET Equity :
          StartBar(rank, p, tradable)
    \/ DealSell \/ DealBuy \/ EndBar

BacktestSpec == BacktestInit /\ [][BacktestNext]_backtestVars

-----------------------------------------------------------------------------
\* Properties.

TickCost == Max(Prices) * (CostDen + 1)

\* A lot brings at least the minimum cost of its sale.
SalesPay == \A p \in Prices : MinCost <= Lot * p * CostDen

\* Cash is overdrawn by no more than the 0.1 share that rounding adds: neither by
\* the cost of a trade, nor by purchases that were sized for sales that have failed
\* or are not settled.  (Sales that cost more than they bring are each paid out of the same
\* cash when the settlement is late.)
CashCovered == settle = "no" \/ SalesPay => purse >= -TickCost

\* More than topk stocks are held only as long as some cannot be sold: each of those
\* on top stands for one the strategy has wanted to drop.
HoldingsBounded == Cardinality(Owned) <= TopK + Cardinality(dropped \intersect Owned)

\* Orders are paid for and the portfolio stays bounded.
PortfolioSound == CashCovered /\ HoldingsBounded
=============================================================================
