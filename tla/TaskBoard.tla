------------------------------ MODULE TaskBoard ------------------------------
(***************************************************************************)
(* What a task pool promises, free of MongoDB, statuses and result         *)
(* documents: every task is worked on by at most one agent at a time, an   *)
(* agent gives a task back or finishes it, a task abandoned by a dead      *)
(* agent may be opened again, and a finished task stays finished.          *)
(***************************************************************************)
CONSTANTS Item, Agent

VARIABLES
    stage,   \* stage[i]: "absent", "open", "claimed", "finished" or "withdrawn"
    owners   \* owners[i]: the agents working on i

vars == <<stage, owners>>

Init == /\ stage = [i \in Item |-> "absent"]
        /\ owners = [i \in Item |-> {}]

Post(i) == /\ stage[i] = "absent"
           /\ stage' = [stage EXCEPT ![i] = "open"]
           /\ UNCHANGED owners

\* The only way to work on an item: it is open, nobody works on it, and the
\* agent works on nothing else.
Claim(a, i) == /\ stage[i] = "open"
               /\ owners[i] = {}
               /\ \A j \in Item : a \notin owners[j]
               /\ stage' = [stage EXCEPT ![i] = "claimed"]
               /\ owners' = [owners EXCEPT ![i] = {a}]

\* The owner finishes the item, gives it back, or is lost with it.
Finish(a, i) == /\ stage[i] = "claimed" /\ owners[i] = {a}
                /\ stage' = [stage EXCEPT ![i] = "finished"]
                /\ owners' = [owners EXCEPT ![i] = {}]

GiveBack(a, i) == /\ stage[i] = "claimed" /\ owners[i] = {a}
                  /\ stage' = [stage EXCEPT ![i] = "open"]
                  /\ owners' = [owners EXCEPT ![i] = {}]

Abandon(a, i) == /\ owners[i] = {a}
                 /\ owners' = [owners EXCEPT ![i] = {}]
                 /\ UNCHANGED stage

\* Items left behind are opened again.
Reopen(I) == /\ \A i \in I : stage[i] = "claimed" /\ owners[i] = {}
             /\ stage' = [i \in Item |-> IF i \in I THEN "open" ELSE stage[i]]
             /\ UNCHANGED owners

Withdraw(i) == /\ stage[i] # "absent"
               /\ stage' = [stage EXCEPT ![i] = "withdrawn"]
               /\ UNCHANGED owners

Next == \/ \E i \in Item : Post(i) \/ Withdraw(i)
        \/ \E a \in Agent, i \in Item :
              Claim(a, i) \/ Finish(a, i) \/ GiveBack(a, i) \/ Abandon(a, i)
        \/ \E I \in SUBSET Item : Reopen(I)

Spec == Init /\ [][Next]_vars
=============================================================================
