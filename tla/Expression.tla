------------------------------ MODULE Expression ------------------------------
(***************************************************************************)
(* The expression engine (quant_master/data/base.py, ops.py and            *)
(* LocalExpressionProvider.expression in data.py).  A query names an        *)
(* expression and a range of days.  The expression says by how many days    *)
(* the range must be extended, its leaves are loaded in the extended range, *)
(* the operators are applied there, and the answer is cut to the range.     *)
(*                                                                         *)
(* A value is the sequence of the days whose raw values it is computed      *)
(* from, in the order in which they are used; NaN is the empty sequence.    *)
(* So two values are equal when they are the same function of the same      *)
(* raw values.                                                             *)
(***************************************************************************)
EXTENDS Integers, SequencesExt, FiniteSetsExt

CONSTANTS
    MaxDay,    \* the calendar is 0..MaxDay
    MaxWindow, \* bound on the N of rolling operators and references
    MaxNesting \* bound on operators over operators

ASSUME ExpressionAssumption ==
    MaxDay \in Nat /\ MaxWindow \in Nat \ {0} /\ MaxNesting \in Nat

VARIABLES
    tree,    \* the expression
    stored,  \* first and last day the instrument has raw values for
    asks,    \* first and last day of the query
    answer   \* the series returned, or that there is none yet

expressionVars == <<tree, stored, asks, answer>>

DayRange == {r \in [first : 0..MaxDay, last : 0..MaxDay] : r.first <= r.last}

Unanswered == [returned |-> FALSE, series |-> <<>>]

-----------------------------------------------------------------------------
(* Expressions.  "elem" stands for the element-wise operators, "pair" for   *)
(* the pair-wise ones, "rolling" for the operators with a window of N days, *)
(* "corr" for the pair-wise ones with a window.  N = 0 (the whole past) and *)
(* exponential means, which the code calls inaccurate, are left out.        *)

Feature == [op |-> "feature"]

\* A number, which PairOperator accepts in place of an expression.
Number == [op |-> "number"]

OneArg == {"elem", "ref", "rolling", "delta"}

Over(exprs, windowed) ==
    [op : {"elem"}, arg : exprs]
    \union [op : {"ref"}, arg : exprs, n : (-MaxWindow..MaxWindow) \ {0}]
    \union [op : windowed, arg : exprs, n : 1..MaxWindow]
    \union [op : {"pair"}, left : exprs, right : exprs \union {Number}]
    \union [op : {"corr"}, left : exprs, right : exprs, n : 1..MaxWindow]

\* Operators over operators, and so on, over the raw values.
Expressions(windowed) ==
    LET upto[k \in 0..MaxNesting] ==
            IF k = 0 THEN {Feature} ELSE {Feature} \union Over(upto[k - 1], windowed)
    IN  upto[MaxNesting]

Trees == Expressions({"rolling", "delta"})

-----------------------------------------------------------------------------
(* What the operators compute.                                             *)

\* pandas' shift.
Shift(series, n) ==
    [d \in DOMAIN series |-> IF d - n \in DOMAIN series THEN series[d - n] ELSE <<>>]

\* A rolling window with min_periods = 1: what there is of the last n days.
Windows(series, n) ==
    [d \in DOMAIN series |->
        FlattenSeq([i \in 1..n |->
            IF d - n + i \in DOMAIN series THEN series[d - n + i] ELSE <<>>])]

\* NaN as soon as one of the two is.
Both(left, right) ==
    [d \in DOMAIN left |->
        IF left[d] = <<>> \/ right[d] = <<>> THEN <<>> ELSE left[d] \o right[d]]

\* The _load_internal of the operators, given what their arguments have loaded.
OverOne(e, series) ==
    IF e.op = "elem" THEN series
    ELSE IF e.op = "ref" THEN Shift(series, e.n)
    ELSE IF e.op = "rolling" THEN Windows(series, e.n)
    ELSE Both(series, Shift(series, e.n))

OverTwo(e, left, right) ==
    IF e.op = "pair" THEN Both(left, right) ELSE Windows(Both(left, right), e.n)

\* Expression.load from a to b.
LoadSeries(e, raw, a, b) ==
    LET load[x \in Trees] ==
            IF x = Feature THEN [d \in a..b \intersect raw.first..raw.last |-> <<d>>]
            ELSE IF x.op \in OneArg THEN OverOne(x, load[x.arg])
            ELSE IF x.right = Number THEN load[x.left]
            ELSE OverTwo(x, load[x.left], load[x.right])
    IN  load[e]

-----------------------------------------------------------------------------
(* get_extended_window_size: how many days before and after the range the   *)
(* leaves are needed for.                                                  *)

NoDays == [left |-> 0, right |-> 0]

Widest(x, y) == [left |-> Max({x.left, y.left}), right |-> Max({x.right, y.right})]

\* Rolling.get_extended_window_size.
Longer(inner, n) == [left |-> inner.left + n - 1, right |-> inner.right]

\* Wrong variant: a reference forward is not asked for on the right.
RefExtensionBack(inner, n) ==
    [left |-> Max({inner.left + n, inner.left}), right |-> inner.right]

\* Ref.get_extended_window_size.
RefExtension(inner, n) ==
    [left |-> Max({inner.left + n, inner.left}), right |-> Max({inner.right - n, inner.right})]

\* Delta has no method of its own: it inherits that of Rolling.
ExtensionOfOne(e, inner) ==
    IF e.op = "elem" THEN inner
    ELSE IF e.op = "ref" THEN RefExtension(inner, e.n)
    ELSE Longer(inner, e.n)

ExtensionOfTwo(e, left, right) ==
    IF e.op = "pair" THEN Widest(left, right) ELSE Longer(Widest(left, right), e.n)

Extension(e) ==
    LET extension[x \in Trees] ==
            IF x = Feature THEN NoDays
            ELSE IF x.op \in OneArg THEN ExtensionOfOne(x, extension[x.arg])
            ELSE ExtensionOfTwo(x, extension[x.left],
                                IF x.right = Number THEN NoDays ELSE extension[x.right])
    IN  extension[e]

-----------------------------------------------------------------------------

Slice(series, range) == [d \in DOMAIN series \intersect range.first..range.last |-> series[d]]

ExpressionInit ==
    /\ tree \in Trees
    /\ stored \in DayRange
    /\ asks \in DayRange
    /\ answer = Unanswered

\* LocalExpressionProvider.expression.
Evaluate ==
    /\ ~answer.returned
    /\ LET wider == Extension(tree)
           first == Max({0, asks.first - wider.left})
           last  == asks.last + wider.right
       IN answer' = [returned |-> TRUE,
                     series |-> Slice(LoadSeries(tree, stored, first, last), asks)]
    /\ UNCHANGED <<tree, stored, asks>>

ExpressionNext == Evaluate

ExpressionSpec == ExpressionInit /\ [][ExpressionNext]_expressionVars

-----------------------------------------------------------------------------
\* Properties.

Whole == Slice(LoadSeries(tree, stored, 0, MaxDay), asks)

\* The extended range is enough: the answer of a query for some days is what a query
\* for all days says about them, whatever operators are nested.  Delta(x, N) is left out: it
\* asks for N - 1 days before the range and uses the value of N days before.
WindowEnough == answer.returned /\ tree \in Expressions({"rolling"}) => answer.series = Whole
=============================================================================
