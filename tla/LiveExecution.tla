---------------------------- MODULE LiveExecution ----------------------------
(***************************************************************************)
(* A batch of live orders on its way through a broker adapter              *)
(* (quant_master/contrib/broker/execution.py and the adapters beside it):  *)
(* LiveOrderExecutor checks an order against the account, submits it,      *)
(* looks at what came back, and halts the batch after a submission that    *)
(* failed.                                                                 *)
(*                                                                         *)
(* The executor and the broker meet over the adapter's channel.  A command *)
(* may be applied although its answer never comes, or comes too late; the  *)
(* helper process of TcDllBroker answers over a pipe, where a late answer  *)
(* is the first thing the next command reads.  What the broker has taken   *)
(* it fills later, in parts, or never.  Prices are 1 per lot.              *)
(***************************************************************************)
EXTENDS Sorting, Sequences

CONSTANTS
    Stock,   \* instruments
    Adapter, \* adapters in use, among Adapters
    Cash     \* what the account and a paper account start with

Adapters == {"paper", "tdx", "tcdll", "easytrader", "xiadan"}

ASSUME ExecutionAssumption ==
    /\ Adapter \subseteq Adapters
    /\ Cash \in Nat

\* whole: the amount is a positive multiple of the trade unit and the price positive.
Orders == [stock : Stock, side : {"buy", "sell"}, lots : Nat \ {0}, whole : BOOLEAN]

PostChecks == {"not_submitted", "not_checked", "order_id_received", "matched_in_query_orders",
               "submitted_but_not_observed", "query_orders_failed", "submit_failed", "skipped"}

\* id: the index of the order whose id it is, 0 for no id or no order's id.
Results == [accepted : BOOLEAN, check : PostChecks, id : Nat]

VARIABLES
    kind,     \* the adapter
    dry,      \* dry_run
    validate, \* validate_account_state of the executor
    batch,    \* the requests of submit_many
    step,     \* "idle", "next", "wait" (for an answer), "done"
    results,  \* ExecutionResults so far, one per request
    halted,   \* halt_reason is set
    wire,     \* commands the broker has not taken yet, by their index
    answers,  \* answers nobody has read: the index they belong to, and whether
              \* the order was taken
    placed,   \* indexes of the orders of this batch the broker has taken
    cash,     \* available cash at the broker
    shares,   \* available volume at the broker
    buying,   \* lots of each stock in buys the broker has taken and not filled
    selling   \* lots of each stock in sells the broker has taken and not filled

requestVars == <<kind, dry, validate, batch>>
channelVars == <<wire, answers>>
accountVars == <<cash, shares, buying, selling, placed>>
execVars    == <<requestVars, step, results, halted, channelVars, accountVars>>

ExecTypeOK ==
    /\ kind \in Adapter /\ dry \in BOOLEAN /\ validate \in BOOLEAN
    /\ batch \in Seq(Orders)
    /\ step \in {"idle", "next", "wait", "done"}
    /\ results \in Seq(Results) /\ Len(results) <= Len(batch)
    /\ halted \in BOOLEAN
    /\ wire \in Seq(1..Len(batch))
    /\ answers \in Seq([of : 1..Len(batch), taken : BOOLEAN])
    /\ placed \subseteq 1..Len(batch)
    /\ cash \in Nat
    /\ shares \in [Stock -> Nat]
    /\ buying \in [Stock -> Nat] /\ selling \in [Stock -> Nat]

\* The initial volume may depend on the adapter: a paper account is created
\* with the positions its caller gives it.
ExecInit(held) ==
    /\ kind \in Adapter /\ dry \in BOOLEAN /\ validate \in BOOLEAN
    /\ batch = <<>> /\ results = <<>>
    /\ step = "idle" /\ halted = FALSE
    /\ wire = <<>> /\ answers = <<>> /\ placed = {}
    /\ cash = Cash
    /\ shares = held[kind]
    /\ buying = [s \in Stock |-> 0] /\ selling = [s \in Stock |-> 0]

\* submit_many is called with the requests b.
SubmitMany(b) ==
    /\ step = "idle"
    /\ batch' = b
    /\ step' = "next"
    /\ UNCHANGED <<kind, dry, validate, results, halted, channelVars, accountVars>>

Current == Len(results) + 1
Order   == batch[Current]

\* Append the result of the current request.
Report(accepted, check, id) ==
    /\ results' = Append(results, [accepted |-> accepted, check |-> check, id |-> id])
    /\ step' = "next"

-----------------------------------------------------------------------------
(* Before an order is sent.                                                *)

\* The adapters whose buy() and sell() look at dry_run: EasytraderBroker
\* takes it into **kwargs and forgets it.
ObeysDryRun == kind # "easytrader"

\* query_account: TcDllBroker knows no balance, a paper account never moves;
\* the others may raise, and then there is no check.
BudgetAllows(o, answered) ==
    CASE kind = "paper" -> o.lots <= Cash
      [] kind = "tcdll" -> FALSE
      [] OTHER -> answered => o.lots <= cash

\* query_positions: always empty for two of the adapters, and empty when the
\* query raises; then a sell is refused.
VolumeAllows(o, answered) ==
    /\ kind \in {"paper", "tdx", "easytrader"}
    /\ answered
    /\ o.lots <= shares[o.stock]

\* _validate_request and _validate_with_account_state.
Passes(o, answered) ==
    /\ o.whole
    /\ validate => IF o.side = "buy" THEN BudgetAllows(o, answered) ELSE VolumeAllows(o, answered)

Skip ==
    /\ step = "next" /\ Current <= Len(batch) /\ halted
    /\ Report(FALSE, "skipped", 0)
    /\ UNCHANGED <<requestVars, halted, channelVars, accountVars>>

Reject(answered) ==
    /\ step = "next" /\ Current <= Len(batch) /\ ~halted
    /\ ~Passes(Order, answered)
    /\ Report(FALSE, "not_checked", 0)
    /\ UNCHANGED <<requestVars, halted, channelVars, accountVars>>

Ready(answered) ==
    /\ step = "next" /\ Current <= Len(batch) /\ ~halted
    /\ Passes(Order, answered)

\* A rehearsal, or a paper order: nothing leaves the process.
InProcess == kind = "paper" \/ (dry /\ ObeysDryRun)

\* Wrong variant: the batch goes on after a failed submission.
FailGoingOn ==
    /\ Report(FALSE, "submit_failed", 0)
    /\ UNCHANGED halted

\* submit() turns an exception of the adapter into a result, and
\* submit_many() halts on it.
Fail ==
    /\ Report(FALSE, "submit_failed", 0)
    /\ halted' = TRUE

\* The window automation of XiadanBroker fills in the form also for a rehearsal: it may
\* raise, and gives no order id.
Rehearse(answered) ==
    /\ Ready(answered)
    /\ InProcess
    /\ \/ kind = "xiadan" /\ Report(TRUE, "submitted_but_not_observed", 0) /\ UNCHANGED halted
       \/ kind = "xiadan" /\ Fail
       \/ kind # "xiadan" /\ Report(TRUE, "order_id_received", Current) /\ UNCHANGED halted
    /\ UNCHANGED <<requestVars, channelVars, accountVars>>

Send(answered) ==
    /\ Ready(answered)
    /\ ~InProcess
    /\ wire' = Append(wire, Current)
    /\ step' = "wait"
    /\ UNCHANGED <<requestVars, results, halted, answers, accountVars>>

-----------------------------------------------------------------------------
(* The broker, which is outside the repository, and the channel.           *)

\* Only the pipe keeps an answer for which nobody waits any more.
Heard(i) == kind = "tcdll" \/ (step = "wait" /\ i = Current)

Covers(o) == IF o.side = "buy" THEN o.lots <= cash ELSE o.lots <= shares[o.stock]

\* What an order needs is set aside when it is taken.
BrokerTakes ==
    /\ wire # <<>>
    /\ LET i == Head(wire)
           o == batch[i]
       IN  /\ Covers(o)
           /\ placed' = placed \union {i}
           /\ IF o.side = "buy"
              THEN /\ cash' = cash - o.lots
                   /\ buying' = [buying EXCEPT ![o.stock] = @ + o.lots]
                   /\ UNCHANGED <<shares, selling>>
              ELSE /\ shares' = [shares EXCEPT ![o.stock] = @ - o.lots]
                   /\ selling' = [selling EXCEPT ![o.stock] = @ + o.lots]
                   /\ UNCHANGED <<cash, buying>>
           /\ answers' = IF Heard(i) THEN Append(answers, [of |-> i, taken |-> TRUE]) ELSE answers
    /\ wire' = Tail(wire)
    /\ UNCHANGED <<requestVars, step, results, halted>>

BrokerRefuses ==
    /\ wire # <<>>
    /\ LET i == Head(wire)
       IN answers' = IF Heard(i) THEN Append(answers, [of |-> i, taken |-> FALSE]) ELSE answers
    /\ wire' = Tail(wire)
    /\ UNCHANGED <<requestVars, step, results, halted, accountVars>>

\* Orders in stock s are filled, in whole or in part.
BrokerFills(s) ==
    /\ \/ \E n \in 1..buying[s] :
             /\ buying' = [buying EXCEPT ![s] = @ - n]
             /\ shares' = [shares EXCEPT ![s] = @ + n]
             /\ UNCHANGED <<cash, selling>>
       \/ \E n \in 1..selling[s] :
             /\ selling' = [selling EXCEPT ![s] = @ - n]
             /\ cash' = cash + n
             /\ UNCHANGED <<shares, buying>>
    /\ UNCHANGED <<requestVars, step, results, halted, channelVars, placed>>

\* The day ends, or somebody cancels them, before orders in stock s are filled.
BrokerDrops(s) ==
    /\ \/ /\ buying[s] > 0
          /\ buying' = [buying EXCEPT ![s] = 0]
          /\ cash' = cash + buying[s]
          /\ UNCHANGED <<shares, selling>>
       \/ /\ selling[s] > 0
          /\ selling' = [selling EXCEPT ![s] = 0]
          /\ shares' = [shares EXCEPT ![s] = @ + selling[s]]
          /\ UNCHANGED <<cash, buying>>
    /\ UNCHANGED <<requestVars, step, results, halted, channelVars, placed>>

-----------------------------------------------------------------------------
(* After an order is sent.                                                 *)

\* The adapters that turn a refusal into an exception: TcDllBroker always, the library
\* under EasytraderBroker for some accounts, and for others it answers without a number.
RaisesRefusal == kind \in {"tcdll", "easytrader"}

\* What _post_check may find of an order i without an id: an order like it among today's
\* orders, of this batch or an earlier one, none, or the query raises.  query_orders of
\* XiadanBroker is always empty.
PostCheck(i) ==
    IF kind = "xiadan" THEN {"submitted_but_not_observed"}
    ELSE {"matched_in_query_orders", "query_orders_failed"} \union
         IF \E j \in placed : batch[j] = batch[i] THEN {} ELSE {"submitted_but_not_observed"}

\* TDXBroker takes the first cell of the first row of an answer for the order id, and an
\* error object is a row as well.  Apart from TcDllBroker they also accept an answer in
\* which they find no id.
ReadAnswer ==
    /\ step = "wait" /\ answers # <<>>
    /\ LET a == Head(answers)
       IN  \/ /\ a.taken /\ kind # "xiadan"
              /\ Report(TRUE, "order_id_received", a.of)
              /\ UNCHANGED halted
           \/ /\ ~a.taken /\ kind = "tdx"
              /\ Report(TRUE, "order_id_received", 0)
              /\ UNCHANGED halted
           \/ /\ ~a.taken /\ RaisesRefusal
              /\ Fail
           \/ /\ kind # "tcdll"
              /\ \E c \in PostCheck(a.of) : Report(TRUE, c, 0)
              /\ UNCHANGED halted
    /\ answers' = Tail(answers)
    /\ UNCHANGED <<requestVars, wire, accountVars>>

\* The connection breaks, or the answer takes longer than the timeout: the
\* command may still be taken.
NoAnswer ==
    /\ step = "wait"
    /\ Fail
    /\ answers' = IF kind = "tcdll" THEN answers ELSE <<>>
    /\ UNCHANGED <<requestVars, wire, accountVars>>

AllReported ==
    /\ step = "next" /\ Current > Len(batch)
    /\ step' = "done"
    /\ UNCHANGED <<requestVars, results, halted, channelVars, accountVars>>

\* answered: whether the queries of the account check come back.
Submit ==
    \/ Skip
    \/ \E answered \in BOOLEAN : Reject(answered) \/ Rehearse(answered) \/ Send(answered)
    \/ BrokerTakes
    \/ BrokerRefuses
    \/ ReadAnswer
    \/ NoAnswer
    \/ AllReported

-----------------------------------------------------------------------------
(* Who sends a batch: run_live_orders.py, or the execution page of the UI. *)

OfSide(b, side) ==
    LET places == Sorted({i \in DOMAIN b : b[i].side = side})
    IN [k \in DOMAIN places |-> b[places[k]]]

SellsFirst(b) == OfSide(b, "sell") \o OfSide(b, "buy")

\* submit_orders: live trading is disabled, one invalid order of the preview
\* refuses them all, and the sells go first.
SubmitOrders(b) ==
    /\ dry /\ validate
    /\ IF \A i \in DOMAIN b : b[i].whole
       THEN SubmitMany(SellsFirst(b))
       ELSE /\ step = "idle"
            /\ batch' = b
            /\ results' = [i \in DOMAIN b |-> [accepted |-> FALSE, check |-> "not_submitted", id |-> 0]]
            /\ step' = "done"
            /\ UNCHANGED <<kind, dry, validate, halted, channelVars, accountVars>>

ExecNext(batches) ==
    \/ \E b \in batches : SubmitMany(b) \/ SubmitOrders(b)
    \/ Submit
    \/ \E s \in Stock : BrokerFills(s) \/ BrokerDrops(s)

ExecSpec(batches, held) == ExecInit(held) /\ [][ExecNext(batches)]_execVars

-----------------------------------------------------------------------------
\* Properties.

\* What the broker has taken without the batch saying so is confined to the one
\* request whose submission failed, and nothing after that one ever leaves the
\* process (submit_many halts): an operator has at most one order to look up.
DoubtConfined ==
    \A i \in placed :
        i <= Len(results) /\ ~results[i].accepted =>
            /\ results[i].check = "submit_failed"
            /\ \A j \in placed : j <= i
            /\ \A j \in i + 1 .. Len(results) : results[j].check = "skipped"

\* An order id that is reported is the id the broker gave to this very order, although
\* the pipe of TcDllBroker hands a late answer to whoever reads next.  It is never the id
\* of another order, but with TDXBroker it may be no order's id: then the broker has
\* refused the order.
OwnsId(i) ==
    \/ results[i].id = i /\ (i \in placed \/ InProcess)
    \/ results[i].id = 0 /\ kind = "tdx" /\ i \notin placed

IdIsOwn == \A i \in DOMAIN results : results[i].check = "order_id_received" => OwnsId(i)

\* A dry run sends nothing to the broker, where the adapter knows of it.
DryRunSendsNothing == dry /\ ObeysDryRun => wire = <<>> /\ placed = {}

\* What the results of a batch say of the orders at the broker is true.
OrdersAccounted == DoubtConfined /\ IdIsOwn /\ DryRunSendsNothing
=============================================================================
