----------------------------- MODULE MCBinStore -----------------------------
EXTENDS BinStore
CONSTANTS a, b

MCFieldOrder == <<"open", "close", "volume">>

\* The probed symbol a and b are suspended on some days, or on none.
MCHistories ==
    {[s \in {a, b} |-> IF s = a THEN A ELSE B] :
        A \in {1..3, {1, 3}}, B \in {1..3, {1, 2}, {2, 3}}}

\* a is suspended on the last day.
MCSuspended == {[s \in {a, b} |-> IF s = a THEN {1} ELSE {1, 2}]}
=============================================================================
