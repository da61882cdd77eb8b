---------------------------- MODULE DailyPipeline ----------------------------
(***************************************************************************)
(* The daily pipeline (scripts/live_signal_pipeline.py) on top of          *)
(* LiveExecution: run_daily reads the positions it wrote the last time,    *)
(* turns today's target stocks into orders, submits them, and writes the   *)
(* positions it believes it has now.  Nothing is read back from the broker. *)
(* It may be killed anywhere, and is simply run again.                     *)
(***************************************************************************)
EXTENDS LiveExecution, SequencesExt, FiniteSets

CONSTANT MaxRuns \* bound on the runs of the pipeline

ASSUME PipelineAssumption ==
    /\ MaxRuns \in Nat
    /\ IsFiniteSet(Stock)

VARIABLES
    phase,    \* "off", "execute", "saved" (has returned), "died"
    targets,  \* target_stocks of the run
    book,     \* positions/latest.json: the shares and the cash it claims
    runs,     \* runs so far
    astray    \* auxiliary: a run was killed while it submitted, or ended with an
              \* order in doubt, or the broker dropped an order before it was filled

pipelineVars == <<execVars, phase, targets, book, runs, astray>>

Books == [shares : [Stock -> Nat], cash : Int]

PipelineTypeOK ==
    /\ ExecTypeOK
    /\ phase \in {"off", "execute", "saved", "died"}
    /\ targets \subseteq Stock
    /\ book \in Books
    /\ runs \in 0..MaxRuns
    /\ astray \in BOOLEAN

\* The book starts true, for a real account; a paper account has no positions.
PipelineInit ==
    /\ ExecInit([k \in Adapter |-> [s \in Stock |-> IF k = "paper" THEN 0 ELSE 1]])
    /\ phase = "off"
    /\ targets = {}
    /\ book = [shares |-> [s \in Stock |-> 1], cash |-> Cash]
    /\ runs = 0
    /\ astray = FALSE

\* The orders of one side, lots[s] for each stock s.
OrdersFor(side, lots) ==
    LET q == SetToSeq(DOMAIN lots)
    IN [i \in DOMAIN q |-> [stock |-> q[i], side |-> side, lots |-> lots[q[i]], whole |-> TRUE]]

\* total_assets of the positions file, in lots, divided by the number of targets.
TargetLots(T) == (Cash + Cardinality(Stock)) \div Cardinality(T)

\* get_stock_prices asks for the targets only, so a stock that has dropped out
\* of them has no price, unless there are no targets at all and no prices either.
\* priced: those of them it gets a price for.
SignalsToOrders(T, priced) ==
    LET over  == {s \in priced : book.shares[s] > TargetLots(T)}
        under == {s \in priced : book.shares[s] < TargetLots(T)}
    IN  OrdersFor("sell", [s \in over |-> book.shares[s] - TargetLots(T)])
        \o OrdersFor("buy", [s \in under |-> TargetLots(T) - book.shares[s]])

\* run_daily up to the first order: a new broker, the executor's default checks.
\* Without orders it returns before it writes any positions.
RunDaily(T, priced) ==
    /\ phase # "execute"
    /\ runs < MaxRuns
    /\ wire = <<>>
    /\ runs' = runs + 1
    /\ targets' = T
    /\ LET b == IF T = {} THEN <<>> ELSE SignalsToOrders(T, priced)
       IN  /\ batch' = b
           /\ IF b = <<>> THEN phase' = "saved" /\ step' = "done"
                          ELSE phase' = "execute" /\ step' = "next"
    /\ validate' = TRUE
    /\ results' = <<>> /\ halted' = FALSE
    /\ answers' = <<>> /\ placed' = {}
    /\ UNCHANGED <<kind, dry, wire, cash, shares, buying, selling, book, astray>>

Execute ==
    /\ phase = "execute"
    /\ Submit
    /\ UNCHANGED <<phase, targets, book, runs, astray>>

Accepted(side, s) == {i \in DOMAIN results :
                         results[i].accepted /\ batch[i].side = side /\ batch[i].stock = s}

Lots(I) == FoldSet(LAMBDA i, n : batch[i].lots + n, 0, I)

\* Wrong variant: the book follows the orders and not their results.
BookAllOrders ==
    LET of(side, s) == {i \in DOMAIN results : batch[i].side = side /\ batch[i].stock = s}
    IN [shares |-> [s \in Stock |-> book.shares[s] + Lots(of("buy", s)) - Lots(of("sell", s))],
        cash |-> book.cash + Lots(UNION {of("sell", s) : s \in Stock})
                           - Lots(UNION {of("buy", s) : s \in Stock})]

\* The positions after the accepted orders, dry runs included.
NewBook ==
    [shares |-> [s \in Stock |-> book.shares[s] + Lots(Accepted("buy", s))
                                                - Lots(Accepted("sell", s))],
     cash |-> book.cash + Lots(UNION {Accepted("sell", s) : s \in Stock})
                        - Lots(UNION {Accepted("buy", s) : s \in Stock})]

\* An order failed, or was accepted although no order id came back.
InDoubt ==
    \E i \in DOMAIN results :
        \/ results[i].check = "submit_failed"
        \/ results[i].accepted /\ results[i].check # "order_id_received"

SavePositions ==
    /\ phase = "execute" /\ step = "done"
    /\ book' = NewBook
    /\ phase' = "saved"
    /\ astray' = (astray \/ InDoubt)
    /\ UNCHANGED <<execVars, targets, runs>>

Die ==
    /\ phase = "execute"
    /\ phase' = "died"
    /\ astray' = TRUE
    /\ UNCHANGED <<execVars, targets, book, runs>>

\* What a dead run has sent may still be taken.
LateTaken ==
    /\ phase \in {"died", "saved"}
    /\ BrokerTakes \/ BrokerRefuses
    /\ UNCHANGED <<phase, targets, book, runs, astray>>

\* The broker fills orders whenever it does, and nobody is told.
Filled ==
    /\ \E s \in Stock : BrokerFills(s)
    /\ UNCHANGED <<phase, targets, book, runs, astray>>

Dropped ==
    /\ \E s \in Stock : BrokerDrops(s)
    /\ astray' = TRUE
    /\ UNCHANGED <<phase, targets, book, runs>>

PipelineNext ==
    \/ \E T \in SUBSET Stock : \E priced \in SUBSET T : RunDaily(T, priced)
    \/ Execute
    \/ SavePositions
    \/ Die
    \/ LateTaken
    \/ Filled
    \/ Dropped

PipelineSpec == PipelineInit /\ [][PipelineNext]_pipelineVars

-----------------------------------------------------------------------------
\* Properties.

AllStocks(f) == FoldSet(LAMBDA s, n : f[s] + n, 0, Stock)

\* What the sells that are not filled yet will bring.
Proceeds == AllStocks(selling)

\* The book is the account with the orders filled that the broker has taken and not
\* filled yet, after every run that was neither killed nor left with an order in doubt,
\* as long as no earlier one was and the broker dropped no order: run_daily computes the
\* next orders from the book alone.  EasytraderBroker is the adapter that reaches a real
\* account and can be read for order ids.
BookTrue ==
    phase = "saved" /\ kind = "easytrader" /\ ~astray =>
        /\ \A s \in Stock : book.shares[s] = shares[s] + buying[s]
        /\ book.cash = cash + Proceeds

\* A stock that has dropped out of the targets is sold: after a run whose orders
\* were all accepted nothing else is held (signals_to_orders: "Sell first").
DropoutsSold ==
    phase = "saved" /\ batch # <<>> /\ (\A i \in DOMAIN results : results[i].accepted) =>
        \A s \in Stock \ targets : book.shares[s] = 0
=============================================================================
